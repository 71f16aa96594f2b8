----------------------------- MODULE WireProofs -----------------------------
(***************************************************************************)
(* What the server reads from the bytes of a frame, and a client from the  *)
(* bytes of a reply, for any frames and any length of the options area.  A *)
(* walk over the options of a message passes from one to the next,         *)
(* whatever lies behind the message, and a search finds what the sender    *)
(* has put in: the back end does what the sender asks for.  The options of *)
(* a reply are added one behind the other, and the client finds those that *)
(* come before the first byte that is 255.                                 *)
(*                                                                         *)
(* Most steps are first-order, and Zenon is the quicker of the two provers *)
(* in a context as long as this one: many leaves ask for it.               *)
(***************************************************************************)
EXTENDS Kernel, WellFoundedInduction, TLAPS

\* Min of a non-empty set of naturals is its least element.
LEMMA LeastPlace ==
  ASSUME NEW S \in SUBSET Nat, S # {}
  PROVE  Min(S) \in S /\ \A y \in S : Min(S) <= y
<1> DEFINE Below == {p \in Nat \X Nat : p[1] < p[2]}
<1>1. IsWellFoundedOn(Below, Nat)
  BY NatLessThanWellFounded DEF OpToRel
<1>2. PICK x \in S : \A y \in S : ~(<<y, x>> \in Below)
  BY <1>1, WFMin
<1>3. \A y \in S : x <= y
  <2> SUFFICES ASSUME NEW y \in S, ~(x <= y) PROVE FALSE
    OBVIOUS
  <2>1. <<y, x>> \in Below
    OBVIOUS
  <2>2. QED
    BY <1>2, <2>1
<1>4. QED
  BY <1>3 DEF Min

\* Induction up to N over a set.
LEMMA StepByStep ==
  ASSUME NEW N \in Nat, NEW S, 0 \in S, \A k \in Nat : k < N /\ k \in S => k + 1 \in S
  PROVE  \A k \in 0 .. N : k \in S
<1> DEFINE Bad == {k \in 0 .. N : k \notin S}
<1> SUFFICES ASSUME Bad # {} PROVE FALSE
  OBVIOUS
<1>1. Min(Bad) \in Bad /\ \A y \in Bad : Min(Bad) <= y
  BY LeastPlace
<1>2. PICK b \in Bad : \A y \in Bad : b <= y
  BY <1>1
<1>3. b \in 1 .. N /\ b - 1 \in Nat /\ b - 1 < N /\ b - 1 + 1 = b
  OBVIOUS
<1>4. b - 1 \in S
  BY <1>2, <1>3
<1>5. QED
  BY <1>3, <1>4

-----------------------------------------------------------------------------
(***************************************************************************)
(* The walk over an area.                                                  *)
(***************************************************************************)
Areas == [Places -> Bytes]

Ends == 1 .. (OptLen + 256)

\* There is room for an option's code.
LEMMA AreaSize == OptLen \in Nat \ {0}
BY KernelAssumption

\* One turn of the loop in dhcp_get_option and dhcp_add_option.
Stride(a, stops, at) ==
  [p \in Ends |-> IF p > OptLen THEN p ELSE IF a[p] \in stops THEN p ELSE at[Skip(a, p)]]

\* The loop always moves on, and ends at most 256 bytes behind the area.
LEMMA SkipForward ==
  ASSUME NEW a \in Areas, NEW p \in Places
  PROVE  Skip(a, p) \in Ends /\ Skip(a, p) > p
<1>1. a[p] \in Bytes /\ (p # OptLen => p + 1 \in Places)
  BY AreaSize DEF Areas, Places
<1>2. p # OptLen => a[p + 1] \in Bytes
  BY <1>1 DEF Areas
<1>3. QED
  BY <1>1, <1>2, AreaSize DEF Skip, Ends, Places, Bytes

\* The loop ends wherever it starts: there is a function that says where.
LEMMA WalkEnds ==
  ASSUME NEW a \in Areas, NEW stops
  PROVE  \E at : at = Stride(a, stops, at)
<1> DEFINE Rest(d) == (OptLen + 1 - d) .. (OptLen + 256)
           Good(d) == \E g \in [Rest(d) -> Ends] : \A p \in Rest(d) :
                        g[p] = IF p > OptLen THEN p ELSE IF a[p] \in stops THEN p ELSE g[Skip(a, p)]
<1>1. OptLen \in Nat \ {0}
  BY AreaSize
<1>2. Good(0)
  <2>1. [p \in Rest(0) |-> p] \in [Rest(0) -> Ends]
    BY <1>1 DEF Ends
  <2>2. \A p \in Rest(0) : p > OptLen
    BY <1>1
  <2>3. QED
    BY <2>1, <2>2
<1>3. ASSUME NEW d \in Nat, d < OptLen, Good(d) PROVE Good(d + 1)
  <2>1. PICK g \in [Rest(d) -> Ends] : \A p \in Rest(d) :
               g[p] = IF p > OptLen THEN p ELSE IF a[p] \in stops THEN p ELSE g[Skip(a, p)]
    BY <1>3
  <2> DEFINE q == OptLen - d
             v == IF a[q] \in stops THEN q ELSE g[Skip(a, q)]
             h == [p \in Rest(d + 1) |-> IF p = q THEN v ELSE g[p]]
  <2>2. q \in Places /\ q \in Ends
    BY <1>1, <1>3 DEF Places, Ends
  <2>3. Skip(a, q) \in Rest(d)
    BY <2>2, <1>1, <1>3, SkipForward DEF Ends
  <2>4. \A p \in Rest(d + 1) : p = q \/ p \in Rest(d)
    BY <1>1, <1>3
  <2>5. v \in Ends
    BY <2>2, <2>3
  <2>6. h \in [Rest(d + 1) -> Ends]
    BY <2>4, <2>5
  <2>7. \A p \in Rest(d) : p \in Rest(d + 1) /\ p # q
    BY <1>1, <1>3
  <2>8. \A p \in Rest(d) : p <= OptLen => Skip(a, p) \in Rest(d)
    <3> SUFFICES ASSUME NEW p \in Rest(d), p <= OptLen PROVE Skip(a, p) \in Rest(d)
      OBVIOUS
    <3>1. p \in Places
      BY <1>1, <1>3 DEF Places
    <3>2. QED
      BY <3>1, <1>1, <1>3, SkipForward DEF Ends
  <2>9. \A p \in Rest(d) : h[p] = g[p]
    BY <2>7
  <2>10. h[q] = v /\ q \in Rest(d + 1) /\ ~(q > OptLen)
    BY <1>1, <1>3
  <2>11. ASSUME NEW p \in Rest(d + 1)
         PROVE  h[p] = IF p > OptLen THEN p ELSE IF a[p] \in stops THEN p ELSE h[Skip(a, p)]
    <3>1. CASE p = q
      BY <3>1, <2>10, <2>3, <2>9
    <3>2. CASE p \in Rest(d)
      <4>1. p > OptLen \/ Skip(a, p) \in Rest(d)
        BY <3>2, <2>8, <1>1, <1>3
      <4> HIDE DEF h, Rest, q
      <4>2. QED
        BY <3>2, <4>1, <2>1, <2>9
    <3>3. QED
      BY <3>1, <3>2, <2>4
  <2> HIDE DEF h, Rest
  <2>12. QED
    BY <2>6, <2>11
<1>4. Good(OptLen)
  <2> DEFINE S == {k \in Nat : Good(k)}
  <2> HIDE DEF Good
  <2>1. 0 \in S /\ \A k \in Nat : k < OptLen /\ k \in S => k + 1 \in S
    BY <1>2, <1>3
  <2> HIDE DEF S
  <2>2. OptLen \in S
    BY <2>1, <1>1, StepByStep
  <2>3. QED
    BY <2>2 DEF S
<1>6. Rest(OptLen) = Ends
  BY <1>1 DEF Ends
<1>7. PICK g \in [Ends -> Ends] : \A p \in Ends :
        g[p] = IF p > OptLen THEN p ELSE IF a[p] \in stops THEN p ELSE g[Skip(a, p)]
  BY <1>4, <1>6, ZenonT(30)
<1>8. g = Stride(a, stops, g)
  BY <1>7 DEF Stride
<1>9. QED
  BY <1>8

\* Where the walk from p ends.
At(a, stops) == CHOOSE at : at = Stride(a, stops, at)

\* The walk is one turn of the loop after the other.
LEMMA WalkUnfolds ==
  ASSUME NEW a \in Areas, NEW stops
  PROVE  /\ Walk(a, stops) = At(a, stops)[1]
         /\ \A p \in Ends : p > OptLen => At(a, stops)[p] = p
         /\ \A p \in Places : a[p] \in stops => At(a, stops)[p] = p
         /\ \A p \in Places : a[p] \notin stops => At(a, stops)[p] = At(a, stops)[Skip(a, p)]
<1>1. At(a, stops) = Stride(a, stops, At(a, stops))
  BY WalkEnds DEF At
<1>2. Walk(a, stops) = At(a, stops)[1]
  BY DEF Walk, At, Stride, Ends
<1>3. \A p \in Places : p \in Ends /\ ~(p > OptLen)
  BY AreaSize DEF Places, Ends
<1>4. \A p \in Ends : At(a, stops)[p] =
        IF p > OptLen THEN p ELSE IF a[p] \in stops THEN p ELSE At(a, stops)[Skip(a, p)]
  BY <1>1 DEF Stride
<1>5. QED
  BY <1>2, <1>3, <1>4

\* Codes of options are neither PAD nor END.
LEMMA ProperCodes == \A c \in Codes : c # DHCP_OPT_PAD /\ c # DHCP_OPT_END
BY DEF Codes, DHCP_OPT_PAD, DHCP_OPT_END

-----------------------------------------------------------------------------
(***************************************************************************)
(* The bytes of a list of options.                                         *)
(***************************************************************************)
\* What lies where in a concatenation.
LEMMA Appended ==
  ASSUME NEW s \in Seq(Bytes), NEW t \in Seq(Bytes)
  PROVE  /\ s \o t \in Seq(Bytes)
         /\ Len(s \o t) = Len(s) + Len(t)
         /\ \A j \in 1 .. Len(s) : (s \o t)[j] = s[j]
         /\ \A j \in 1 .. Len(t) : (s \o t)[Len(s) + j] = t[j]
OBVIOUS

\* Option o lies behind the first q bytes of a.
Placed(a, q, o) ==
  /\ a[q + 1] = o[1]
  /\ a[q + 2] = Len(o[2])
  /\ \A j \in 1 .. Len(o[2]) : a[q + 2 + j] = o[2][j]

\* An option that a sender may encode.
Fits(o) == o[1] \in Codes /\ o[2] \in Seq(Bytes) /\ Len(o[2]) \in Bytes

\* A code is a byte.
LEMMA CodesAreBytes == \A c \in Codes : c \in Bytes
BY DEF Codes, Bytes

\* The bytes of one option.
LEMMA PieceBytes ==
  ASSUME NEW o, Fits(o)
  PROVE  Piece(o) \in Seq(Bytes) /\ Len(Piece(o)) = 2 + Len(o[2]) /\ Placed(Piece(o), 0, o)
<1> DEFINE head == <<o[1], Len(o[2])>>
<1>1. o[1] \in Bytes /\ Len(o[2]) \in Bytes /\ o[2] \in Seq(Bytes)
  BY CodesAreBytes, Zenon DEF Fits
<1>2. head \in Seq(Bytes) /\ Len(head) = 2 /\ head[1] = o[1] /\ head[2] = Len(o[2])
  BY <1>1
<1> HIDE DEF head
<1>3. /\ head \o o[2] \in Seq(Bytes)
      /\ Len(head \o o[2]) = Len(head) + Len(o[2])
      /\ \A j \in 1 .. Len(head) : (head \o o[2])[j] = head[j]
      /\ \A j \in 1 .. Len(o[2]) : (head \o o[2])[Len(head) + j] = o[2][j]
  BY <1>1, <1>2, Appended
<1>4. Piece(o) = head \o o[2]
  BY DEF Piece, head
<1>5. Piece(o)[0 + 1] = o[1] /\ Piece(o)[0 + 2] = Len(o[2])
  BY <1>2, <1>3, <1>4
<1>6. \A j \in 1 .. Len(o[2]) : Piece(o)[0 + 2 + j] = o[2][j]
  BY <1>2, <1>3, <1>4
<1>7. QED
  BY <1>2, <1>3, <1>4, <1>5, <1>6, Zenon DEF Placed

\* The places of an option with l bytes of data behind the first q of n bytes.
LEMMA Within ==
  \A q, l, n \in Nat : q + 2 + l <= n =>
    q + 1 \in 1 .. n /\ q + 2 \in 1 .. n /\ \A j \in 1 .. l : q + 2 + j \in 1 .. n
OBVIOUS

\* An option stays where it is when bytes are appended.
LEMMA PlacedBefore ==
  ASSUME NEW s \in Seq(Bytes), NEW t \in Seq(Bytes), NEW q \in Nat, NEW o, Fits(o),
         Placed(s, q, o), q + 2 + Len(o[2]) <= Len(s)
  PROVE  Placed(s \o t, q, o)
<1>1. \A j \in 1 .. Len(s) : (s \o t)[j] = s[j]
  BY Appended
<1>2. Len(o[2]) \in Nat /\ Len(s) \in Nat
  BY DEF Fits
<1>3. q + 1 \in 1 .. Len(s) /\ q + 2 \in 1 .. Len(s)
  BY <1>2, Within, Zenon
<1>4. \A j \in 1 .. Len(o[2]) : q + 2 + j \in 1 .. Len(s)
  BY <1>2, Within, Zenon
<1>5. QED
  BY <1>1, <1>3, <1>4, Zenon DEF Placed

\* An option that is appended lies behind the rest.
LEMMA PlacedBehind ==
  ASSUME NEW s \in Seq(Bytes), NEW o, Fits(o)
  PROVE  Placed(s \o Piece(o), Len(s), o)
<1>1. /\ Piece(o) \in Seq(Bytes) /\ Len(Piece(o)) = 2 + Len(o[2])
      /\ Placed(Piece(o), 0, o)
  BY PieceBytes
<1>2. \A j \in 1 .. Len(Piece(o)) : (s \o Piece(o))[Len(s) + j] = Piece(o)[j]
  BY <1>1, Appended
<1>3. Len(o[2]) \in Nat /\ Len(s) \in Nat
  BY DEF Fits
<1>4. /\ (s \o Piece(o))[Len(s) + 1] = Piece(o)[1]
      /\ (s \o Piece(o))[Len(s) + 2] = Piece(o)[2]
  BY <1>1, <1>2, <1>3
<1>5. ASSUME NEW j \in 1 .. Len(o[2])
      PROVE  (s \o Piece(o))[Len(s) + 2 + j] = o[2][j]
  <2>1. 2 + j \in 1 .. Len(Piece(o)) /\ Len(s) + (2 + j) = Len(s) + 2 + j /\ 0 + 2 + j = 2 + j
    BY <1>1, <1>3
  <2>2. (s \o Piece(o))[Len(s) + (2 + j)] = Piece(o)[2 + j]
    BY <1>2, <2>1, Zenon
  <2>3. Piece(o)[0 + 2 + j] = o[2][j]
    BY <1>1 DEF Placed
  <2>4. QED
    BY <2>1, <2>2, <2>3, Zenon
<1>6. Piece(o)[1] = o[1] /\ Piece(o)[2] = Len(o[2])
  BY <1>1 DEF Placed
<1>7. QED
  BY <1>4, <1>5, <1>6, Zenon DEF Placed

\* Lengths are natural numbers.
LEMMA Lengths ==
  /\ \A s \in Seq(Bytes) : Len(s) \in Nat
  /\ \A o : Fits(o) => Len(o[2]) \in Nat
BY DEF Fits

\* The length of a list after one more option.
LEMMA Sums == \A a, b \in Nat : a + (2 + b) = a + 2 + b /\ a <= a + 2 + b /\ a + 2 + b \in Nat
OBVIOUS

\* The order of three lengths.
LEMMA InOrder == \A a, b, c \in Nat : a <= b /\ b <= c => a <= c
OBVIOUS

\* The bytes of a list after one more option.
LEMMA OneMore ==
  ASSUME NEW s \in Seq(Bytes), NEW o, Fits(o), NEW t, t = s \o Piece(o)
  PROVE  /\ t \in Seq(Bytes)
         /\ Len(t) = Len(s) + 2 + Len(o[2])
         /\ Len(s) <= Len(t)
         /\ Placed(t, Len(s), o)
<1>1. Piece(o) \in Seq(Bytes) /\ Len(Piece(o)) = 2 + Len(o[2])
  BY PieceBytes
<1>2. t \in Seq(Bytes) /\ Len(t) = Len(s) + Len(Piece(o))
  BY <1>1, Appended
<1>3. Len(s) \in Nat /\ Len(o[2]) \in Nat
  BY Lengths, Zenon
<1>4. Len(t) = Len(s) + (2 + Len(o[2]))
  BY <1>1, <1>2, Zenon
<1>5. Len(t) = Len(s) + 2 + Len(o[2]) /\ Len(s) <= Len(t)
  <2>1. Len(s) + (2 + Len(o[2])) = Len(s) + 2 + Len(o[2]) /\ Len(s) <= Len(s) + 2 + Len(o[2])
    BY <1>3, Sums, Zenon
  <2>2. Len(t) = Len(s) + 2 + Len(o[2])
    BY <1>4, <2>1, Zenon
  <2>3. QED
    BY <2>1, <2>2, Zenon
<1>6. QED
  BY <1>2, <1>5, PlacedBehind, Zenon

\* Options of data that is short enough fit.
LEMMA PairFits ==
  ASSUME NEW o \in Codes \X Seq(Bytes), Len(o[2]) <= 255
  PROVE  Fits(o)
<1>1. o[1] \in Codes /\ o[2] \in Seq(Bytes)
  OBVIOUS
<1>2. Len(o[2]) \in Nat
  BY <1>1
<1>3. \A n \in Nat : n <= 255 => n \in Bytes
  BY DEF Bytes
<1>4. QED
  BY <1>1, <1>2, <1>3, Zenon DEF Fits

\* The options of a well-formed list.
LEMMA OptionsFit ==
  ASSUME NEW options, WellFormed(options)
  PROVE  /\ Len(options) \in Nat
         /\ DOMAIN options = 1 .. Len(options)
         /\ \A i \in 1 .. Len(options) :
              /\ Fits(options[i])
              /\ options[i][1] = DHCP_OPT_MESSAGE_TYPE => Len(options[i][2]) = 1
<1>1. options \in Seq(Codes \X Seq(Bytes))
  BY DEF WellFormed
<1>2. Len(options) \in Nat /\ DOMAIN options = 1 .. Len(options)
  BY <1>1
<1>3. ASSUME NEW i \in 1 .. Len(options) PROVE Fits(options[i])
  <2>1. options[i] \in Codes \X Seq(Bytes)
    BY <1>1
  <2>2. Len(options[i][2]) <= 255
    BY <1>2, Zenon DEF WellFormed
  <2>3. QED
    BY <2>1, <2>2, PairFits, Zenon
<1>4. QED
  BY <1>2, <1>3, Zenon DEF WellFormed

\* The bytes of the first k options, for every k.
Joined(options, f) ==
  [k \in 0 .. Len(options) |-> IF k = 0 THEN <<>> ELSE f[k - 1] \o Piece(options[k])]

\* One option after the other can be appended.
LEMMA JoinedExists ==
  ASSUME NEW options, WellFormed(options)
  PROVE  \E f : f = Joined(options, f)
<1> DEFINE n == Len(options)
           Good(k) == \E g \in [0 .. k -> Seq(Bytes)] :
                        /\ g[0] = <<>>
                        /\ \A i \in 1 .. k : g[i] = g[i - 1] \o Piece(options[i])
<1>1. n \in Nat /\ \A i \in 1 .. n : Piece(options[i]) \in Seq(Bytes)
  BY OptionsFit, PieceBytes
<1>2. Good(0)
  <2>1. [i \in 0 .. 0 |-> <<>>] \in [0 .. 0 -> Seq(Bytes)]
    OBVIOUS
  <2>2. [i \in 0 .. 0 |-> <<>>][0] = <<>> /\ \A i \in 1 .. 0 : FALSE
    OBVIOUS
  <2>3. QED
    BY <2>1, <2>2
<1>3. ASSUME NEW k \in Nat, k < n, Good(k) PROVE Good(k + 1)
  <2>1. PICK g \in [0 .. k -> Seq(Bytes)] :
               /\ g[0] = <<>>
               /\ \A i \in 1 .. k : g[i] = g[i - 1] \o Piece(options[i])
    BY <1>3
  <2> DEFINE v == g[k] \o Piece(options[k + 1])
             h == [i \in 0 .. (k + 1) |-> IF i = k + 1 THEN v ELSE g[i]]
  <2>2. k \in 0 .. k /\ k + 1 \in 1 .. n
    BY <1>1, <1>3
  <2>3. g[k] \in Seq(Bytes) /\ Piece(options[k + 1]) \in Seq(Bytes)
    BY <1>1, <2>2
  <2>4. v \in Seq(Bytes)
    BY <2>3
  <2> HIDE DEF v
  <2>5. h \in [0 .. (k + 1) -> Seq(Bytes)]
    BY <2>4
  <2>6. h[0] = <<>>
    BY <2>1
  <2>7. ASSUME NEW i \in 1 .. (k + 1) PROVE h[i] = h[i - 1] \o Piece(options[i])
    <3>1. CASE i = k + 1
      <4>1. h[i] = v /\ h[i - 1] = g[k]
        BY <3>1
      <4>2. QED
        BY <3>1, <4>1 DEF v
    <3>2. CASE i # k + 1
      <4>1. i \in 1 .. k /\ i - 1 \in 0 .. k
        BY <3>2
      <4>2. h[i] = g[i] /\ h[i - 1] = g[i - 1]
        BY <4>1
      <4>3. QED
        BY <4>1, <4>2, <2>1
    <3>3. QED
      BY <3>1, <3>2
  <2> HIDE DEF h
  <2>8. QED
    BY <2>5, <2>6, <2>7
<1>4. Good(n)
  <2> DEFINE S == {k \in Nat : Good(k)}
  <2> HIDE DEF Good
  <2>1. 0 \in S /\ \A k \in Nat : k < n /\ k \in S => k + 1 \in S
    BY <1>2, <1>3
  <2> HIDE DEF S, n
  <2>2. \A k \in 0 .. n : k \in S
    BY <2>1, <1>1, StepByStep, Zenon
  <2>3. n \in 0 .. n
    BY <1>1
  <2>4. QED
    BY <2>2, <2>3 DEF S
<1>5. PICK g \in [0 .. n -> Seq(Bytes)] :
        g[0] = <<>> /\ \A i \in 1 .. n : g[i] = g[i - 1] \o Piece(options[i])
  BY <1>4
<1>6. \A i \in 0 .. n : i = 0 \/ i \in 1 .. n
  BY <1>1
<1>7. g = Joined(options, g)
  BY <1>5, <1>6 DEF Joined
<1>8. QED
  BY <1>7

\* The bytes of the first k options.
Prefix(options, k) == (CHOOSE f : f = Joined(options, f))[k]

\* The encoding grows by one option after the other.
LEMMA PrefixGrows ==
  ASSUME NEW options, WellFormed(options)
  PROVE  /\ Encoded(options) = Prefix(options, Len(options))
         /\ Prefix(options, 0) = <<>>
         /\ \A k \in 1 .. Len(options) :
              Prefix(options, k) = Prefix(options, k - 1) \o Piece(options[k])
<1> DEFINE g == CHOOSE f : f = Joined(options, f)
<1>1. Len(options) \in Nat
  BY OptionsFit
<1>2. g = Joined(options, g)
  BY JoinedExists
<1>3. Encoded(options) = g[Len(options)]
  BY DEF Encoded, Joined
<1> HIDE DEF g
<1>4. 0 \in 0 .. Len(options) /\ \A k \in 1 .. Len(options) : k \in 0 .. Len(options) /\ k # 0
  BY <1>1
<1>5. \A k \in 0 .. Len(options) : g[k] = IF k = 0 THEN <<>> ELSE g[k - 1] \o Piece(options[k])
  BY <1>2 DEF Joined
<1>6. g[0] = <<>> /\ \A k \in 1 .. Len(options) : g[k] = g[k - 1] \o Piece(options[k])
  BY <1>4, <1>5, Zenon
<1>7. QED
  BY <1>3, <1>6, Zenon DEF Prefix, g

\* Where each option of a list ends.
Offsets(options, off) ==
  /\ off \in [0 .. Len(options) -> Nat]
  /\ off[0] = 0
  /\ \A i \in 1 .. Len(options) : off[i] = off[i - 1] + 2 + Len(options[i][2])

\* The first k options of a list lie in a where off says.
Laid(a, options, off, k) == \A i \in 1 .. k : Placed(a, off[i - 1], options[i])

\* The encoding of a list of options has them one after the other.
LEMMA EncodedLayout ==
  ASSUME NEW options, WellFormed(options)
  PROVE  /\ Encoded(options) \in Seq(Bytes)
         /\ \E off : /\ Offsets(options, off)
                     /\ off[Len(options)] = Len(Encoded(options))
                     /\ Laid(Encoded(options), options, off, Len(options))
<1> DEFINE n == Len(options)
           P(k) == Prefix(options, k)
           Done(k) == /\ P(k) \in Seq(Bytes)
                      /\ \A i \in 1 .. k :
                           /\ Len(P(i - 1)) \in Nat
                           /\ Len(P(i)) = Len(P(i - 1)) + 2 + Len(options[i][2])
                           /\ Len(P(i)) <= Len(P(k))
                           /\ Placed(P(k), Len(P(i - 1)), options[i])
<1>1. n \in Nat /\ \A i \in 1 .. n : Fits(options[i])
  BY OptionsFit
<1>2. /\ Encoded(options) = P(n) /\ P(0) = <<>>
      /\ \A k \in 1 .. n : P(k) = P(k - 1) \o Piece(options[k])
  BY PrefixGrows
<1>3. Done(0)
  <2>1. P(0) = <<>> /\ \A i \in 1 .. 0 : FALSE
    BY <1>2
  <2>2. <<>> \in Seq(Bytes)
    OBVIOUS
  <2>3. QED
    BY <2>1, <2>2, Zenon
<1> HIDE DEF n, P
<1>4. ASSUME NEW k \in Nat, k < n, Done(k) PROVE Done(k + 1)
  <2> DEFINE o == options[k + 1]
  <2>1. k + 1 \in 1 .. n /\ k + 1 - 1 = k
    BY <1>1, <1>4
  <2>2. Fits(o) /\ P(k) \in Seq(Bytes) /\ P(k + 1) = P(k) \o Piece(o)
    BY <1>1, <1>2, <1>4, <2>1
  <2>3. /\ P(k + 1) \in Seq(Bytes)
        /\ Len(P(k + 1)) = Len(P(k)) + 2 + Len(o[2])
        /\ Len(P(k)) <= Len(P(k + 1))
        /\ Placed(P(k + 1), Len(P(k)), o)
    BY <2>2, OneMore, Zenon
  <2>4. Len(P(k)) \in Nat /\ Len(P(k + 1)) \in Nat
    BY <2>2, <2>3, Lengths, Zenon
  <2> HIDE DEF o
  <2>7. ASSUME NEW i \in 1 .. (k + 1)
        PROVE  /\ Len(P(i - 1)) \in Nat
               /\ Len(P(i)) = Len(P(i - 1)) + 2 + Len(options[i][2])
               /\ Len(P(i)) <= Len(P(k + 1))
               /\ Placed(P(k + 1), Len(P(i - 1)), options[i])
    <3>1. CASE i = k + 1
      <4>1. i - 1 = k /\ options[i] = o
        BY <3>1 DEF o
      <4>2. Len(P(k + 1)) <= Len(P(k + 1))
        BY <2>4
      <4>3. QED
        BY <3>1, <4>1, <4>2, <2>3, <2>4, Zenon
    <3>2. CASE i # k + 1
      <4>1. i \in 1 .. k /\ i \in 1 .. n
        BY <3>2, <1>1, <1>4
      <4>2. /\ Len(P(i - 1)) \in Nat
            /\ Len(P(i)) = Len(P(i - 1)) + 2 + Len(options[i][2])
            /\ Len(P(i)) <= Len(P(k))
            /\ Placed(P(k), Len(P(i - 1)), options[i])
        BY <4>1, <1>4, Zenon
      <4>3. Fits(options[i]) /\ Len(options[i][2]) \in Nat
        BY <4>1, <1>1, Lengths, Zenon
      <4>4. Len(P(i - 1)) + 2 + Len(options[i][2]) <= Len(P(k))
        BY <4>2, Zenon
      <4>5. Piece(o) \in Seq(Bytes)
        BY <2>2, PieceBytes, Zenon
      <4>6. Placed(P(k + 1), Len(P(i - 1)), options[i])
        BY <4>2, <4>3, <4>4, <4>5, <2>2, PlacedBefore, Zenon
      <4>7. Len(P(i)) \in Nat
        BY <4>2, <4>3, Sums, Zenon
      <4>8. Len(P(i)) <= Len(P(k + 1))
        BY <4>2, <4>7, <2>3, <2>4, InOrder, Zenon
      <4>9. QED
        BY <4>2, <4>6, <4>8, Zenon
    <3>3. QED
      BY <3>1, <3>2, Zenon
  <2>8. QED
    BY <2>3, <2>7, Zenon
<1>5. Done(n)
  <2> DEFINE S == {k \in Nat : Done(k)}
  <2> HIDE DEF Done
  <2>1. 0 \in S /\ \A k \in Nat : k < n /\ k \in S => k + 1 \in S
    BY <1>3, <1>4
  <2> HIDE DEF S
  <2>2. \A k \in 0 .. n : k \in S
    BY <2>1, <1>1, StepByStep, Zenon
  <2>3. n \in 0 .. n
    BY <1>1
  <2>4. QED
    BY <2>2, <2>3 DEF S
<1> DEFINE off == [i \in 0 .. n |-> Len(P(i))]
<1>6. \A i \in 0 .. n : Len(P(i)) \in Nat
  <2>1. \A i \in 0 .. n : i # n => \E j \in 1 .. n : j - 1 = i
    <3>1. \A i \in 0 .. n : i # n => i + 1 \in 1 .. n /\ i + 1 - 1 = i
      BY <1>1
    <3>2. QED
      BY <3>1
  <2>2. Len(P(n)) \in Nat
    BY <1>5, Lengths, Zenon
  <2>3. ASSUME NEW i \in 0 .. n, i # n PROVE Len(P(i)) \in Nat
    <3>1. PICK j \in 1 .. n : j - 1 = i
      BY <2>1, <2>3, Zenon
    <3>2. Len(P(j - 1)) \in Nat
      BY <1>5, Zenon
    <3>3. QED
      BY <3>1, <3>2, Zenon
  <2>4. QED
    BY <2>2, <2>3, Zenon
<1>7. \A i \in 0 .. n : off[i] = Len(P(i))
  OBVIOUS
<1>8. off \in [0 .. n -> Nat]
  BY <1>6
<1> HIDE DEF off
<1>9. \A i \in 1 .. n : i \in 0 .. n /\ i - 1 \in 0 .. n
  BY <1>1
<1>10. 0 \in 0 .. n /\ n \in 0 .. n
  BY <1>1
<1>11. off[0] = 0
  <2>1. Len(P(0)) = 0
    BY <1>2
  <2>2. QED
    BY <2>1, <1>7, <1>10, Zenon
<1>12. \A i \in 1 .. n : off[i] = off[i - 1] + 2 + Len(options[i][2])
  <2> SUFFICES ASSUME NEW i \in 1 .. n PROVE off[i] = off[i - 1] + 2 + Len(options[i][2])
    OBVIOUS
  <2>1. off[i] = Len(P(i)) /\ off[i - 1] = Len(P(i - 1))
    BY <1>7, <1>9, Zenon
  <2>2. QED
    BY <2>1, <1>5, Zenon
<1>13. Offsets(options, off)
  BY <1>8, <1>11, <1>12, Zenon DEF Offsets, n
<1>14. Laid(Encoded(options), options, off, n)
  <2> SUFFICES ASSUME NEW i \in 1 .. n PROVE Placed(Encoded(options), off[i - 1], options[i])
    BY DEF Laid
  <2>1. off[i - 1] = Len(P(i - 1))
    BY <1>7, <1>9, Zenon
  <2>2. QED
    BY <2>1, <1>2, <1>5, Zenon
<1>15. off[n] = Len(Encoded(options))
  BY <1>2, <1>7, <1>10, Zenon
<1>16. QED
  BY <1>2, <1>5, <1>13, <1>14, <1>15, Zenon DEF n

-----------------------------------------------------------------------------
(***************************************************************************)
(* What dhcp_get_option finds in an area that starts with the encoding of  *)
(* a list of options.                                                      *)
(***************************************************************************)
\* Area a starts with the options of the list, and off says where each ends.
Starting(a, options, off) ==
  /\ Offsets(options, off)
  /\ Laid(a, options, off, Len(options))
  /\ off[Len(options)] <= OptLen

\* The options end one after the other.
LEMMA OffsetsGrow ==
  ASSUME NEW options, WellFormed(options), NEW off, Offsets(options, off)
  PROVE  /\ \A i \in 0 .. Len(options) : off[i] \in Nat /\ off[i] <= off[Len(options)]
         /\ \A i \in 1 .. Len(options) :
              /\ off[i - 1] \in Nat
              /\ off[i - 1] + 2 + Len(options[i][2]) <= off[Len(options)]
<1> DEFINE n == Len(options)
           S == {k \in Nat : k <= n => off[n - k] <= off[n]}
<1>1. n \in Nat /\ \A i \in 1 .. n : Len(options[i][2]) \in Nat
  BY OptionsFit, Lengths, Zenon
<1>2. /\ \A i \in 0 .. n : off[i] \in Nat
      /\ \A i \in 1 .. n : off[i] = off[i - 1] + 2 + Len(options[i][2])
  <2>1. off \in [0 .. n -> Nat]
    BY Zenon DEF Offsets
  <2>2. \A i \in 1 .. n : off[i] = off[i - 1] + 2 + Len(options[i][2])
    BY Zenon DEF Offsets
  <2>3. QED
    BY <2>1, <2>2, Zenon
<1> HIDE DEF n
<1>3. n \in 0 .. n
  BY <1>1
<1>4. 0 \in S
  <2>1. n - 0 = n
    BY <1>1
  <2>2. off[n] \in Nat
    BY <1>2, <1>3, Zenon
  <2>3. QED
    BY <2>1, <2>2
<1>5. ASSUME NEW k \in Nat, k < n, k \in S PROVE k + 1 \in S
  <2>1. PICK i \in 1 .. n : i = n - k
    BY <1>1, <1>5
  <2>2. k <= n
    BY <1>1, <1>5
  <2>3. off[i] <= off[n]
    BY <2>1, <2>2, <1>5, Zenon
  <2>4. n - (k + 1) = i - 1 /\ i \in 0 .. n /\ i - 1 \in 0 .. n
    BY <2>1, <1>1
  <2>5. off[i] \in Nat /\ off[i - 1] \in Nat /\ off[n] \in Nat
    BY <2>4, <1>2, <1>3, Zenon
  <2>6. off[i] = off[i - 1] + 2 + Len(options[i][2]) /\ Len(options[i][2]) \in Nat
    BY <1>1, <1>2, Zenon
  <2>7. off[i - 1] <= off[n]
    BY <2>3, <2>5, <2>6, SMTT(15)
  <2>8. off[n - (k + 1)] <= off[n]
    BY <2>4, <2>7, Zenon
  <2>9. QED
    BY <2>8
<1>6. \A k \in 0 .. n : k \in S
  <2> HIDE DEF S
  <2>1. QED
    BY <1>1, <1>4, <1>5, StepByStep, Zenon
<1>7. ASSUME NEW i \in 0 .. n PROVE off[i] \in Nat /\ off[i] <= off[n]
  <2>1. PICK k \in 0 .. n : n - k = i
    <3>1. n - i \in 0 .. n /\ n - (n - i) = i
      BY <1>1
    <3>2. QED
      BY <3>1
  <2>2. k <= n
    BY <1>1
  <2>3. off[n - k] <= off[n]
    BY <2>2, <1>6, Zenon
  <2>4. QED
    BY <2>1, <2>3, <1>2, Zenon
<1>8. ASSUME NEW i \in 1 .. n
      PROVE  off[i - 1] \in Nat /\ off[i - 1] + 2 + Len(options[i][2]) <= off[n]
  <2>1. i \in 0 .. n /\ i - 1 \in 0 .. n
    BY <1>1
  <2>2. off[i] <= off[n] /\ off[i - 1] \in Nat
    BY <2>1, <1>7, Zenon
  <2>3. QED
    BY <2>2, <1>2, Zenon
<1>9. QED
  BY <1>7, <1>8, Zenon DEF n

\* The options end within the area.
LEMMA OffsetsInArea ==
  ASSUME NEW options, WellFormed(options), NEW off, NEW a, Starting(a, options, off)
  PROVE  /\ off[Len(options)] \in 0 .. OptLen
         /\ \A i \in 1 .. Len(options) :
              /\ off[i - 1] \in Nat
              /\ off[i - 1] + 2 + Len(options[i][2]) <= OptLen
<1> DEFINE n == Len(options)
           e == off[n]
<1>1. n \in Nat /\ \A i \in 1 .. n : Fits(options[i])
  BY OptionsFit, Zenon
<1>2. n \in 0 .. n
  BY <1>1
<1>3. /\ \A i \in 0 .. n : off[i] \in Nat
      /\ \A i \in 1 .. n : off[i - 1] \in Nat /\ off[i - 1] + 2 + Len(options[i][2]) <= e
  BY OffsetsGrow, Zenon DEF Starting
<1>4. e \in Nat /\ e <= OptLen
  BY <1>2, <1>3, Zenon DEF Starting
<1> HIDE DEF e, n
<1>5. e \in 0 .. OptLen
  BY <1>4, AreaSize
<1>6. \A x, l \in Nat : x + 2 + l <= e => x + 2 + l <= OptLen
  BY <1>4, AreaSize
<1>7. \A i \in 1 .. n : off[i - 1] + 2 + Len(options[i][2]) <= OptLen
  BY <1>1, <1>3, <1>6, Lengths, Zenon
<1>8. QED
  BY <1>3, <1>5, <1>7, Zenon DEF e, n

\* The code of an option that lies in an area is in it, and so is the byte behind it.
LEMMA CodePlace ==
  \A q, l \in Nat : q + 2 + l <= OptLen => q + 1 \in Places /\ ~(q + 1 >= OptLen)
BY AreaSize DEF Places

\* Option o lies in area a behind its first q bytes.
Lies(a, q, o) == q \in Nat /\ Fits(o) /\ Placed(a, q, o) /\ q + 2 + Len(o[2]) <= OptLen

\* The options of a list lie in an area that starts with them.
LEMMA OptionsLie ==
  ASSUME NEW a, NEW options, WellFormed(options), NEW off, Starting(a, options, off),
         NEW i \in 1 .. Len(options)
  PROVE  Lies(a, off[i - 1], options[i]) /\ off[i] = off[i - 1] + 2 + Len(options[i][2])
<1>1. Fits(options[i])
  BY OptionsFit, Zenon
<1>2. off[i - 1] \in Nat /\ off[i - 1] + 2 + Len(options[i][2]) <= OptLen
  BY OffsetsInArea, Zenon
<1>3. Placed(a, off[i - 1], options[i]) /\ off[i] = off[i - 1] + 2 + Len(options[i][2])
  BY Zenon DEF Starting, Laid, Offsets
<1>4. QED
  BY <1>1, <1>2, <1>3, Zenon DEF Lies

\* The walk passes an option whose code is none of its stops.
LEMMA WalkPasses ==
  ASSUME NEW a \in Areas, NEW stops, NEW q, NEW o, Lies(a, q, o), o[1] \notin stops
  PROVE  At(a, stops)[q + 1] = At(a, stops)[q + 2 + Len(o[2]) + 1]
<1> DEFINE l == Len(o[2])
<1>1. q \in Nat /\ l \in Nat /\ o[1] \in Codes
  BY Lengths, Zenon DEF Lies, Fits
<1>2. a[q + 1] = o[1] /\ a[q + 2] = l
  BY Zenon DEF Lies, Placed
<1>3. q + 2 + l <= OptLen
  BY Zenon DEF Lies
<1> HIDE DEF l
<1>4. /\ q + 1 \in Places /\ q + 1 # OptLen
      /\ q + 1 + 1 = q + 2 /\ (q + 1) + 2 + l = q + 2 + l + 1
  BY <1>1, <1>3, AreaSize DEF Places
<1>5. Skip(a, q + 1) = q + 2 + l + 1
  <2>1. a[q + 1] # DHCP_OPT_PAD
    BY <1>1, <1>2, ProperCodes, Zenon
  <2>2. Skip(a, q + 1) = (q + 1) + 2 + a[q + 1 + 1]
    BY <2>1, <1>4, Zenon DEF Skip
  <2>3. QED
    BY <2>2, <1>2, <1>4, Zenon
<1>6. At(a, stops)[q + 1] = At(a, stops)[Skip(a, q + 1)]
  BY <1>2, <1>4, WalkUnfolds, Zenon
<1>7. QED
  BY <1>5, <1>6, Zenon DEF l

\* None of the first k options has one of the codes.
Without(options, k, codes) == \A i \in 1 .. k : options[i][1] \notin codes

\* The walk goes from option to option as long as it meets none of its stops.
LEMMA WalkAlong ==
  ASSUME NEW a \in Areas, NEW stops, NEW options, WellFormed(options), NEW off,
         Starting(a, options, off), NEW k \in 0 .. Len(options), Without(options, k, stops)
  PROVE  Walk(a, stops) = At(a, stops)[off[k] + 1]
<1> DEFINE n == Len(options)
           S == {j \in Nat : j <= k => At(a, stops)[1] = At(a, stops)[off[j] + 1]}
<1>1. n \in Nat /\ k \in Nat /\ k <= n
  BY OptionsFit
<1>2. off[0] = 0
  BY Zenon DEF Starting, Offsets
<1>3. 0 \in S
  BY <1>2
<1>4. ASSUME NEW j \in Nat, j < k, j \in S PROVE j + 1 \in S
  <2> DEFINE i == j + 1
  <2>1. i \in 1 .. n /\ i \in 1 .. k /\ i - 1 = j /\ j <= k
    BY <1>1, <1>4
  <2> HIDE DEF i
  <2> DEFINE q == off[i - 1]
             o == options[i]
  <2>2. Lies(a, q, o) /\ off[i] = q + 2 + Len(o[2])
    <3>1. i \in 1 .. n
      BY <2>1, Zenon
    <3>2. QED
      BY <3>1, OptionsLie
  <2>3. o[1] \notin stops
    BY <2>1, Zenon DEF Without
  <2> HIDE DEF q, o
  <2>4. At(a, stops)[q + 1] = At(a, stops)[q + 2 + Len(o[2]) + 1]
    BY <2>2, <2>3, WalkPasses
  <2>5. At(a, stops)[1] = At(a, stops)[off[j] + 1]
    BY <2>1, <1>4, Zenon
  <2>6. At(a, stops)[1] = At(a, stops)[q + 1]
    BY <2>1, <2>5, Zenon DEF q
  <2>7. At(a, stops)[1] = At(a, stops)[off[i] + 1]
    BY <2>2, <2>4, <2>6, Zenon
  <2>8. QED
    BY <2>7 DEF i
<1>5. k \in S
  <2> HIDE DEF S
  <2>1. \A j \in 0 .. k : j \in S
    BY <1>1, <1>3, <1>4, StepByStep, Zenon
  <2>2. k \in 0 .. k
    BY <1>1
  <2>3. QED
    BY <2>1, <2>2, Zenon
<1>6. QED
  <2>1. k <= k
    BY <1>1
  <2>2. At(a, stops)[1] = At(a, stops)[off[k] + 1]
    BY <2>1, <1>5, Zenon
  <2>3. QED
    BY <2>2, WalkUnfolds, Zenon

\* Sequences of bytes are equal if they agree everywhere.
LEMMA SameBytes ==
  ASSUME NEW s \in Seq(Bytes), NEW t \in Seq(Bytes), Len(s) = Len(t),
         \A j \in 1 .. Len(s) : s[j] = t[j]
  PROVE  s = t
OBVIOUS

\* A slice of a sequence.
LEMMA Slice ==
  ASSUME NEW s \in Seq(Bytes), NEW m \in Nat, NEW n \in Nat, m >= 1, n <= Len(s), m <= n + 1
  PROVE  /\ SubSeq(s, m, n) \in Seq(Bytes)
         /\ Len(SubSeq(s, m, n)) = n + 1 - m
         /\ \A j \in 1 .. (n + 1 - m) : SubSeq(s, m, n)[j] = s[m + j - 1]
OBVIOUS

\* An area is a sequence of bytes.
LEMMA AreaBytes ==
  /\ \A a \in Areas : a \in Seq(Bytes) /\ Len(a) = OptLen
  /\ \A a \in Seq(Bytes) : Len(a) = OptLen => a \in Areas
BY AreaSize DEF Areas, Places

\* The data of an option that lies in an area.
LEMMA DataFound ==
  ASSUME NEW a \in Areas, NEW q, NEW o, Lies(a, q, o)
  PROVE  Data(a, q + 1) = o[2]
<1> DEFINE l == Len(o[2])
           d == SubSeq(a, q + 3, q + 2 + l)
<1>1. q \in Nat /\ l \in Nat /\ o[2] \in Seq(Bytes)
  BY Lengths, Zenon DEF Lies, Fits
<1>2. /\ a[q + 2] = l
      /\ \A j \in 1 .. l : a[q + 2 + j] = o[2][j]
  BY Zenon DEF Lies, Placed
<1>3. a \in Seq(Bytes) /\ Len(a) = OptLen
  BY AreaBytes, Zenon
<1> HIDE DEF l
<1>4. /\ q + 3 \in Nat /\ q + 2 + l \in Nat /\ q + 3 >= 1 /\ q + 3 <= (q + 2 + l) + 1
      /\ (q + 2 + l) + 1 - (q + 3) = l
  BY <1>1
<1>5. q + 2 + l <= Len(a)
  BY <1>3, Zenon DEF Lies, l
<1>6. /\ d \in Seq(Bytes) /\ Len(d) = (q + 2 + l) + 1 - (q + 3)
      /\ \A j \in 1 .. ((q + 2 + l) + 1 - (q + 3)) : d[j] = a[q + 3 + j - 1]
  BY <1>3, <1>4, <1>5, Slice, Zenon
<1>7. \A j \in 1 .. l : q + 3 + j - 1 = q + 2 + j
  BY <1>1
<1> HIDE DEF d
<1>8. \A j \in 1 .. l : d[j] = o[2][j]
  BY <1>2, <1>4, <1>6, <1>7, Zenon
<1>9. d = o[2]
  <2>1. Len(d) = Len(o[2])
    BY <1>4, <1>6, Zenon DEF l
  <2>2. QED
    BY <2>1, <1>1, <1>6, <1>8, SameBytes, Zenon DEF l
<1>10. Data(a, q + 1) = d
  <2>1. q + 1 + 1 = q + 2 /\ q + 1 + 2 = q + 3
    BY <1>1
  <2>2. Data(a, q + 1) = SubSeq(a, q + 1 + 2, q + 1 + 1 + a[q + 1 + 1])
    BY DEF Data
  <2>3. QED
    BY <2>1, <2>2, <1>2, Zenon DEF d
<1>11. QED
  BY <1>9, <1>10, Zenon

\* The h-th option is the first with the code.
First(options, option, h) ==
  /\ h \in 1 .. Len(options)
  /\ options[h][1] = option
  /\ \A i \in 1 .. (h - 1) : options[i][1] # option

\* The search stops at the first option it is for and returns its data.
LEMMA OptionFound ==
  ASSUME NEW a \in Areas, NEW options, WellFormed(options), NEW off, Starting(a, options, off),
         NEW option \in Codes, NEW h, First(options, option, h)
  PROVE  dhcp_get_option(a, option) = options[h][2]
<1> DEFINE stops == {DHCP_OPT_END, option}
           q == off[h - 1]
           o == options[h]
<1>1. /\ Len(options) \in Nat /\ \A i \in 1 .. Len(options) : Fits(options[i])
      /\ h \in 1 .. Len(options)
  BY OptionsFit, Zenon DEF First
<1>2. h - 1 \in 0 .. Len(options) /\ \A i \in 1 .. (h - 1) : i \in 1 .. Len(options)
  BY <1>1
<1>3. Without(options, h - 1, stops)
  <2>1. \A i \in 1 .. (h - 1) : options[i][1] # DHCP_OPT_END
    BY <1>1, <1>2, ProperCodes, Zenon DEF Fits
  <2>2. QED
    BY <2>1, Zenon DEF Without, First
<1> HIDE DEF stops
<1>4. Walk(a, stops) = At(a, stops)[q + 1]
  BY <1>2, <1>3, WalkAlong
<1>5. Lies(a, q, o)
  BY <1>1, OptionsLie, Zenon
<1>6. o[1] = option
  BY Zenon DEF First
<1> HIDE DEF q, o
<1>7. Data(a, q + 1) = o[2]
  BY <1>5, DataFound, Zenon
<1>8. a[q + 1] = option /\ a[q + 1] \in stops
  BY <1>5, <1>6, Zenon DEF Lies, Placed, stops
<1>9. q + 1 \in Places /\ ~(q + 1 >= OptLen)
  BY <1>5, Lengths, CodePlace, Zenon DEF Lies
<1>10. Walk(a, stops) = q + 1
  BY <1>4, <1>8, <1>9, WalkUnfolds, Zenon
<1>11. dhcp_get_option(a, option) = Data(a, q + 1)
  BY <1>8, <1>9, <1>10, Zenon DEF dhcp_get_option, stops
<1>12. QED
  BY <1>7, <1>11, Zenon DEF o

\* Behind the first e bytes of an area there is nothing, or END, or padding to its end.
Closed(a, e) ==
  \/ e = OptLen
  \/ a[e + 1] = DHCP_OPT_END
  \/ \A p \in (e + 1) .. OptLen : a[p] = DHCP_OPT_PAD

\* The walk goes over padding to the end of the area.
LEMMA PaddingPassed ==
  ASSUME NEW a \in Areas, NEW stops, DHCP_OPT_PAD \notin stops, NEW e \in 0 .. OptLen,
         \A p \in (e + 1) .. OptLen : a[p] = DHCP_OPT_PAD
  PROVE  At(a, stops)[e + 1] = OptLen + 1
<1> DEFINE N == OptLen - e
           S == {k \in Nat : k <= N => At(a, stops)[e + 1] = At(a, stops)[e + 1 + k]}
<1>1. N \in Nat /\ e \in Nat /\ OptLen \in Nat
  BY AreaSize
<1>2. 0 \in S
  <2>1. e + 1 + 0 = e + 1
    BY <1>1
  <2>2. QED
    BY <2>1
<1>3. ASSUME NEW k \in Nat, k < N, k \in S PROVE k + 1 \in S
  <2> DEFINE p == e + 1 + k
  <2>1. p \in Places /\ p \in (e + 1) .. OptLen /\ k <= N /\ e + 1 + (k + 1) = p + 1
    BY <1>1, <1>3 DEF Places
  <2> HIDE DEF p
  <2>2. a[p] = DHCP_OPT_PAD
    BY <2>1, Zenon
  <2>3. Skip(a, p) = p + 1
    BY <2>2, Zenon DEF Skip
  <2>4. At(a, stops)[p] = At(a, stops)[p + 1]
    BY <2>1, <2>2, <2>3, WalkUnfolds
  <2>5. At(a, stops)[e + 1] = At(a, stops)[p]
    BY <2>1, <1>3, Zenon DEF p
  <2>6. At(a, stops)[e + 1] = At(a, stops)[e + 1 + (k + 1)]
    BY <2>1, <2>4, <2>5, Zenon
  <2>7. QED
    BY <2>6
<1>4. N \in S
  <2> HIDE DEF S, N
  <2>1. \A k \in 0 .. N : k \in S
    BY <1>1, <1>2, <1>3, StepByStep, Zenon
  <2>2. N \in 0 .. N
    BY <1>1
  <2>3. QED
    BY <2>1, <2>2, Zenon
<1>5. N <= N /\ e + 1 + N = OptLen + 1 /\ OptLen + 1 \in Ends /\ OptLen + 1 > OptLen
  BY <1>1 DEF Ends
<1>6. At(a, stops)[e + 1] = At(a, stops)[OptLen + 1]
  <2> HIDE DEF N
  <2>1. QED
    BY <1>4, <1>5, Zenon
<1>7. QED
  BY <1>5, <1>6, WalkUnfolds, Zenon

\* An option that is not in the list is not found in an area that is closed behind the list.
LEMMA OptionAbsent ==
  ASSUME NEW a \in Areas, NEW options, WellFormed(options), NEW off, Starting(a, options, off),
         NEW option \in Codes, Without(options, Len(options), {option}),
         Closed(a, off[Len(options)])
  PROVE  dhcp_get_option(a, option) = <<>>
<1> DEFINE stops == {DHCP_OPT_END, option}
           n == Len(options)
           e == off[n]
<1>1. n \in Nat /\ \A i \in 1 .. n : Fits(options[i])
  BY OptionsFit, Zenon
<1>2. n \in 0 .. n
  BY <1>1
<1>3. Without(options, n, stops)
  <2>1. \A i \in 1 .. n : options[i][1] # DHCP_OPT_END
    BY <1>1, ProperCodes, Zenon DEF Fits
  <2>2. QED
    BY <2>1, Zenon DEF Without
<1>4. option # DHCP_OPT_PAD /\ option # DHCP_OPT_END /\ DHCP_OPT_PAD # DHCP_OPT_END
  BY ProperCodes DEF DHCP_OPT_PAD, DHCP_OPT_END
<1>5. e \in 0 .. OptLen
  BY OffsetsInArea, Zenon
<1>6. Walk(a, stops) = At(a, stops)[e + 1]
  <2> HIDE DEF stops
  <2>1. QED
    BY <1>2, <1>3, WalkAlong
<1> HIDE DEF e
<1>7. Walk(a, stops) >= OptLen \/ a[Walk(a, stops)] # option
  <2>1. CASE e = OptLen
    <3>1. e + 1 \in Ends /\ e + 1 > OptLen /\ e + 1 >= OptLen
      BY <2>1, AreaSize DEF Ends
    <3>2. At(a, stops)[e + 1] = e + 1
      BY <3>1, WalkUnfolds, Zenon
    <3>3. QED
      BY <3>1, <3>2, <1>6, Zenon
  <2>2. CASE e # OptLen /\ a[e + 1] = DHCP_OPT_END
    <3>1. e + 1 \in Places /\ a[e + 1] \in stops
      BY <2>2, <1>5, AreaSize DEF Places
    <3>2. At(a, stops)[e + 1] = e + 1
      BY <3>1, WalkUnfolds, Zenon
    <3>3. QED
      BY <3>2, <2>2, <1>4, <1>6, Zenon
  <2>3. CASE \A p \in (e + 1) .. OptLen : a[p] = DHCP_OPT_PAD
    <3>1. DHCP_OPT_PAD \notin stops
      BY <1>4, Zenon
    <3>2. At(a, stops)[e + 1] = OptLen + 1
      BY <3>1, <2>3, <1>5, PaddingPassed, Zenon
    <3>3. OptLen + 1 >= OptLen
      BY AreaSize
    <3>4. QED
      BY <3>2, <3>3, <1>6, Zenon
  <2>4. QED
    BY <2>1, <2>2, <2>3, Zenon DEF Closed, e, n
<1>8. QED
  BY <1>7, Zenon DEF dhcp_get_option

\* Area a starts with the bytes of the options.
Carries(a, options) ==
  /\ Len(Encoded(options)) <= OptLen
  /\ \A j \in 1 .. Len(Encoded(options)) : a[j] = Encoded(options)[j]

\* Where the options lie in an area that starts with their bytes.
LEMMA CarriedLayout ==
  ASSUME NEW a, NEW options, WellFormed(options), Carries(a, options)
  PROVE  \E off : Starting(a, options, off) /\ off[Len(options)] = Len(Encoded(options))
<1> DEFINE n == Len(options)
           s == Encoded(options)
<1>1. PICK off : Offsets(options, off) /\ off[n] = Len(s) /\ Laid(s, options, off, n)
  BY EncodedLayout, Zenon
<1>2. /\ s \in Seq(Bytes) /\ Len(s) \in Nat /\ Len(s) <= OptLen
      /\ \A j \in 1 .. Len(s) : a[j] = s[j]
  BY EncodedLayout, Lengths, Zenon DEF Carries
<1>3. ASSUME NEW i \in 1 .. n PROVE Placed(a, off[i - 1], options[i])
  <2> DEFINE q == off[i - 1]
             o == options[i]
  <2>1. q \in Nat /\ q + 2 + Len(o[2]) <= Len(s)
    BY <1>1, OffsetsGrow, Zenon
  <2>2. Placed(s, q, o)
    BY <1>1, Zenon DEF Laid
  <2>3. Len(o[2]) \in Nat
    BY OptionsFit, Lengths, Zenon
  <2> HIDE DEF q, o, s
  <2>4. q + 1 \in 1 .. Len(s) /\ q + 2 \in 1 .. Len(s) /\ \A j \in 1 .. Len(o[2]) : q + 2 + j \in 1 .. Len(s)
    BY <2>1, <2>3, <1>2, Within, Zenon
  <2>5. Placed(a, q, o)
    BY <2>2, <2>4, <1>2, Zenon DEF Placed
  <2>6. QED
    BY <2>5, Zenon DEF q, o
<1>4. Starting(a, options, off)
  BY <1>1, <1>2, <1>3, Zenon DEF Starting, Laid
<1>5. QED
  BY <1>1, <1>4, Zenon

(***************************************************************************)
(* The search finds what the list has under a code: if it is there,        *)
(* whatever lies behind the list, and if not, provided the area is closed  *)
(* behind it.                                                              *)
(***************************************************************************)
LEMMA SearchFindsValue ==
  ASSUME NEW a \in Areas, NEW options, WellFormed(options), Carries(a, options),
         NEW option \in Codes,
         Value(options, option) # <<>> \/ Closed(a, Len(Encoded(options)))
  PROVE  dhcp_get_option(a, option) = Value(options, option)
<1> DEFINE n == Len(options)
           hits == {i \in DOMAIN options : options[i][1] = option}
<1>1. n \in Nat /\ DOMAIN options = 1 .. n
  BY OptionsFit, Zenon
<1>2. PICK off : Starting(a, options, off) /\ off[n] = Len(Encoded(options))
  BY CarriedLayout, Zenon
<1>3. CASE hits = {}
  <2>1. Value(options, option) = <<>>
    BY <1>3, Zenon DEF Value
  <2>2. Closed(a, off[n])
    BY <2>1, <1>2, Zenon
  <2>3. Without(options, n, {option})
    BY <1>1, <1>3, Zenon DEF Without
  <2>4. dhcp_get_option(a, option) = <<>>
    BY <2>2, <2>3, <1>2, OptionAbsent, Zenon
  <2>5. QED
    BY <2>1, <2>4, Zenon
<1>4. CASE hits # {}
  <2>1. hits \in SUBSET Nat
    BY <1>1
  <2>2. PICK h \in hits : h = Min(hits) /\ \A i \in hits : h <= i
    BY <2>1, <1>4, LeastPlace, Zenon
  <2>3. h \in 1 .. n /\ options[h][1] = option
    BY <1>1, Zenon
  <2>4. \A i \in 1 .. (h - 1) : i \in 1 .. n /\ ~(h <= i)
    BY <2>3, <1>1
  <2>5. First(options, option, h)
    BY <2>2, <2>3, <2>4, <1>1, Zenon DEF First
  <2>6. dhcp_get_option(a, option) = options[h][2]
    <3>1. Starting(a, options, off)
      BY <1>2, Zenon
    <3> HIDE DEF hits
    <3>2. QED
      BY <3>1, <2>5, OptionFound
  <2>7. Value(options, option) = options[h][2]
    BY <2>2, <1>4, Zenon DEF Value
  <2>8. QED
    BY <2>6, <2>7, Zenon
<1>5. QED
  BY <1>3, <1>4, Zenon

-----------------------------------------------------------------------------
(***************************************************************************)
(* Frames: what a frame leaves in the buffer, and the two messages the     *)
(* adapter makes of it.                                                    *)
(***************************************************************************)
\* What is assumed of a frame.
LEMMA FrameAssumption ==
  ASSUME NEW f \in Frames
  PROVE  /\ f.kind \in {"DHCP", "BOOTP", "ARP", "TCP", "REPLY"}
         /\ f.short \in BOOLEAN
         /\ f.ending \in {"none", "END", "padded"}
         /\ WellFormed(f.options)
         /\ Len(Encoded(f.options)) <= OptLen
         /\ Asks(f) # NoJob => f.chaddr \in Macs
BY KernelAssumption, Zenon

\* The first n bytes of one sequence over those of an area.
LEMMA OverBytes ==
  ASSUME NEW s \in Seq(Bytes), NEW n \in Nat, n <= Len(s), n <= OptLen, NEW t \in Areas
  PROVE  /\ Over(s, n, t) \in Areas
         /\ \A j \in 1 .. n : Over(s, n, t)[j] = s[j]
         /\ \A j \in (n + 1) .. OptLen : Over(s, n, t)[j] = t[j]
<1> DEFINE u == SubSeq(s, 1, n)
           v == SubSeq(t, n + 1, OptLen)
<1>1. OptLen \in Nat /\ t \in Seq(Bytes) /\ Len(t) = OptLen
  BY AreaSize, AreaBytes
<1>2. u \in Seq(Bytes) /\ Len(u) = n /\ \A j \in 1 .. n : u[j] = s[j]
  <2>1. 1 \in Nat /\ 1 >= 1 /\ 1 <= n + 1 /\ n + 1 - 1 = n
    OBVIOUS
  <2>2. /\ u \in Seq(Bytes) /\ Len(u) = n + 1 - 1
        /\ \A j \in 1 .. (n + 1 - 1) : u[j] = s[1 + j - 1]
    BY <2>1, Slice
  <2>3. \A j \in 1 .. n : 1 + j - 1 = j
    OBVIOUS
  <2> HIDE DEF u
  <2>4. QED
    BY <2>1, <2>2, <2>3
<1>3. /\ v \in Seq(Bytes) /\ Len(v) = OptLen - n
      /\ \A j \in 1 .. (OptLen - n) : v[j] = t[n + j]
  <2>1. n + 1 \in Nat /\ n + 1 >= 1 /\ OptLen <= Len(t) /\ n + 1 <= OptLen + 1
    BY <1>1
  <2>2. /\ v \in Seq(Bytes) /\ Len(v) = OptLen + 1 - (n + 1)
        /\ \A j \in 1 .. (OptLen + 1 - (n + 1)) : v[j] = t[(n + 1) + j - 1]
    BY <2>1, <1>1, Slice
  <2>3. OptLen + 1 - (n + 1) = OptLen - n /\ \A j \in 1 .. (OptLen - n) : (n + 1) + j - 1 = n + j
    BY <1>1
  <2> HIDE DEF v
  <2>4. QED
    BY <2>2, <2>3
<1> HIDE DEF u, v
<1>4. /\ u \o v \in Seq(Bytes) /\ Len(u \o v) = Len(u) + Len(v)
      /\ \A j \in 1 .. Len(u) : (u \o v)[j] = u[j]
      /\ \A j \in 1 .. Len(v) : (u \o v)[Len(u) + j] = v[j]
  BY <1>2, <1>3, Appended
<1>5. Over(s, n, t) = u \o v
  BY DEF Over, u, v
<1>6. Len(u) + Len(v) = OptLen
  BY <1>1, <1>2, <1>3
<1>7. Over(s, n, t) \in Areas
  BY <1>4, <1>5, <1>6, AreaBytes
<1>8. \A j \in 1 .. n : Over(s, n, t)[j] = s[j]
  BY <1>2, <1>4, <1>5
<1>9. ASSUME NEW j \in (n + 1) .. OptLen PROVE Over(s, n, t)[j] = t[j]
  <2>1. PICK i \in 1 .. (OptLen - n) : n + i = j
    <3>1. j - n \in 1 .. (OptLen - n) /\ n + (j - n) = j
      BY <1>1
    <3>2. QED
      BY <3>1
  <2>2. (u \o v)[Len(u) + i] = v[i]
    BY <1>3, <1>4
  <2>3. QED
    BY <2>1, <2>2, <1>2, <1>3, <1>5
<1>10. QED
  BY <1>7, <1>8, <1>9

\* An area without options.
LEMMA ZerosArea == Zeros \in Areas /\ \A j \in Places : Zeros[j] = DHCP_OPT_PAD
BY DEF Zeros, Areas, Bytes, DHCP_OPT_PAD

\* The bytes of a frame: the options, and END where there is one.
LEMMA BodyBytes ==
  ASSUME NEW f \in Frames
  PROVE  /\ Body(f) \in Seq(Bytes)
         /\ Len(Encoded(f.options)) \in Nat
         /\ \A j \in 1 .. Len(Encoded(f.options)) : Body(f)[j] = Encoded(f.options)[j]
         /\ f.ending = "none" => Len(Body(f)) = Len(Encoded(f.options))
         /\ f.ending # "none" => /\ Len(Body(f)) >= Len(Encoded(f.options)) + 1
                                 /\ Body(f)[Len(Encoded(f.options)) + 1] = DHCP_OPT_END
<1> DEFINE s == Encoded(f.options)
           t == Ending(f.ending)
<1>1. WellFormed(f.options) /\ f.ending \in {"none", "END", "padded"}
  BY FrameAssumption
<1>2. s \in Seq(Bytes)
  BY <1>1, EncodedLayout
<1>3. DHCP_OPT_END \in Bytes
  BY DEF DHCP_OPT_END, Bytes
<1>4. /\ t \in Seq(Bytes)
      /\ f.ending = "none" => Len(t) = 0
      /\ f.ending # "none" => Len(t) >= 1 /\ t[1] = DHCP_OPT_END
  <2>1. CASE f.ending = "none"
    BY <2>1 DEF Ending
  <2>2. CASE f.ending = "END"
    BY <2>2, <1>3 DEF Ending
  <2>3. CASE f.ending = "padded"
    <3>1. Zeros \in Seq(Bytes)
      BY ZerosArea, AreaBytes
    <3>2. t = <<DHCP_OPT_END>> \o Zeros
      BY <2>3 DEF Ending
    <3>3. <<DHCP_OPT_END>> \in Seq(Bytes) /\ Len(<<DHCP_OPT_END>>) = 1
      BY <1>3
    <3>4. /\ t \in Seq(Bytes) /\ Len(t) = 1 + Len(Zeros)
          /\ \A j \in 1 .. 1 : t[j] = <<DHCP_OPT_END>>[j]
      BY <3>1, <3>2, <3>3, Appended
    <3>5. Len(Zeros) \in Nat
      BY <3>1
    <3>6. Len(t) >= 1 /\ t[1] = DHCP_OPT_END
      <4> HIDE DEF t
      <4>1. QED
        BY <3>4, <3>5
    <3>7. QED
      BY <2>3, <3>4, <3>6, Zenon
  <2>4. QED
    BY <1>1, <2>1, <2>2, <2>3
<1> HIDE DEF s, t
<1>5. /\ s \o t \in Seq(Bytes) /\ Len(s \o t) = Len(s) + Len(t)
      /\ \A j \in 1 .. Len(s) : (s \o t)[j] = s[j]
      /\ \A j \in 1 .. Len(t) : (s \o t)[Len(s) + j] = t[j]
  BY <1>2, <1>4, Appended
<1>6. Body(f) = s \o t
  BY DEF Body, s, t
<1>7. Len(s) \in Nat /\ Len(t) \in Nat
  BY <1>2, <1>4
<1>8. f.ending = "none" => Len(Body(f)) = Len(s)
  BY <1>4, <1>5, <1>6, <1>7
<1>9. f.ending # "none" => Len(Body(f)) >= Len(s) + 1 /\ Body(f)[Len(s) + 1] = DHCP_OPT_END
  BY <1>4, <1>5, <1>6, <1>7
<1>10. QED
  BY <1>5, <1>6, <1>7, <1>8, <1>9 DEF s

\* The bytes of a frame lie at the front of the buffer, as many as there is room for.
Arrived(f, area) == \A j \in Places : j <= Len(Body(f)) => area[j] = Body(f)[j]

\* So they do when the frame is received.
LEMMA ReceivedArea ==
  ASSUME NEW f \in Frames, FrameBuffer \in Areas
  PROVE  ReceiveFrame(f) \in Areas /\ Arrived(f, ReceiveFrame(f))
<1> DEFINE b == Body(f)
<1>1. b \in Seq(Bytes) /\ Len(b) \in Nat /\ OptLen \in Nat
  BY BodyBytes, AreaSize
<1> HIDE DEF b
<1>2. CASE Len(b) >= OptLen
  <2> DEFINE r == SubSeq(b, 1, OptLen)
  <2>1. ReceiveFrame(f) = r
    BY <1>2 DEF ReceiveFrame, b
  <2>2. 1 \in Nat /\ 1 >= 1 /\ OptLen <= Len(b) /\ 1 <= OptLen + 1 /\ OptLen + 1 - 1 = OptLen
    BY <1>1, <1>2
  <2>3. /\ r \in Seq(Bytes) /\ Len(r) = OptLen + 1 - 1
        /\ \A j \in 1 .. (OptLen + 1 - 1) : r[j] = b[1 + j - 1]
    BY <2>2, <1>1, Slice
  <2> HIDE DEF r
  <2>4. r \in Areas
    BY <2>2, <2>3, AreaBytes
  <2>5. \A j \in Places : r[j] = b[j]
    BY <2>2, <2>3, <1>1 DEF Places
  <2>6. QED
    BY <2>1, <2>4, <2>5, Zenon DEF Arrived, b
<1>3. CASE ~(Len(b) >= OptLen)
  <2>1. Len(b) <= Len(b) /\ Len(b) <= OptLen
    BY <1>1, <1>3
  <2>2. ReceiveFrame(f) = Over(b, Len(b), FrameBuffer)
    BY <1>3 DEF ReceiveFrame, b
  <2>3. /\ ReceiveFrame(f) \in Areas
        /\ \A j \in 1 .. Len(b) : ReceiveFrame(f)[j] = b[j]
    BY <2>1, <2>2, <1>1, OverBytes
  <2>4. \A j \in Places : j <= Len(b) => j \in 1 .. Len(b)
    BY <1>1 DEF Places
  <2>5. QED
    BY <2>3, <2>4, Zenon DEF Arrived, b
<1>4. QED
  BY <1>2, <1>3, Zenon

\* hdrToMsg copies n bytes and clears the rest.
LEMMA MessageBytes ==
  ASSUME NEW area \in Areas, NEW n \in Nat
  PROVE  /\ hdrToMsg(area, n) \in Areas
         /\ \A j \in Places : j <= n => hdrToMsg(area, n)[j] = area[j]
         /\ \A j \in Places : j > n => hdrToMsg(area, n)[j] = DHCP_OPT_PAD
<1> DEFINE c == IF n > OptLen THEN OptLen ELSE n
<1>1. c \in Nat /\ c <= OptLen
  BY AreaSize
<1>2. \A j \in Places : (j <= n => j \in 1 .. c) /\ (j > n => j \in (c + 1) .. OptLen)
  BY AreaSize DEF Places
<1>3. hdrToMsg(area, n) = Over(area, c, Zeros)
  BY Zenon DEF hdrToMsg
<1>4. area \in Seq(Bytes) /\ Len(area) = OptLen
  BY AreaBytes
<1> HIDE DEF c
<1>5. /\ hdrToMsg(area, n) \in Areas
      /\ \A j \in 1 .. c : hdrToMsg(area, n)[j] = area[j]
      /\ \A j \in (c + 1) .. OptLen : hdrToMsg(area, n)[j] = Zeros[j]
  BY <1>1, <1>3, <1>4, ZerosArea, OverBytes
<1>6. QED
  BY <1>2, <1>5, ZerosArea, Zenon

\* A message that is no shorter than the sender's options has them.
LEMMA MessageCarries ==
  ASSUME NEW f \in Frames, NEW area \in Areas, Arrived(f, area),
         NEW n \in Nat, n >= Len(Encoded(f.options))
  PROVE  hdrToMsg(area, n) \in Areas /\ Carries(hdrToMsg(area, n), f.options)
<1> DEFINE s == Encoded(f.options)
           b == Body(f)
<1>1. Len(s) <= OptLen
  BY FrameAssumption
<1>2. /\ b \in Seq(Bytes) /\ Len(s) \in Nat /\ Len(b) \in Nat /\ Len(b) >= Len(s)
      /\ \A j \in 1 .. Len(s) : b[j] = s[j]
  <2>1. Len(b) \in Nat /\ Len(s) \in Nat
    BY BodyBytes, Lengths, Zenon
  <2>2. Len(b) = Len(s) \/ Len(b) >= Len(s) + 1
    BY BodyBytes, Zenon
  <2>3. Len(b) >= Len(s)
    <3> HIDE DEF b, s
    <3>1. QED
      BY <2>1, <2>2
  <2>4. QED
    BY <2>1, <2>3, BodyBytes, Zenon
<1> HIDE DEF s, b
<1>3. n >= Len(s)
  BY DEF s
<1>4. \A j \in 1 .. Len(s) : j \in Places /\ j <= n /\ j <= Len(b)
  BY <1>1, <1>2, <1>3, AreaSize DEF Places
<1>5. \A j \in 1 .. Len(s) : hdrToMsg(area, n)[j] = s[j]
  BY <1>2, <1>4, MessageBytes, Zenon DEF Arrived, b
<1>6. QED
  BY <1>1, <1>5, MessageBytes, Zenon DEF Carries, s

\* The message with just the sender's bytes is closed behind them.
LEMMA OwnMessageClosed ==
  ASSUME NEW f \in Frames, NEW area \in Areas, Arrived(f, area)
  PROVE  Closed(hdrToMsg(area, Len(Body(f))), Len(Encoded(f.options)))
<1> DEFINE e == Len(Encoded(f.options))
           n == Len(Body(f))
           a == hdrToMsg(area, n)
<1>1. e \in Nat /\ n \in Nat /\ e <= OptLen
  BY BodyBytes, Lengths, FrameAssumption, Zenon
<1>2. /\ \A j \in Places : j <= n => a[j] = area[j]
      /\ \A j \in Places : j > n => a[j] = DHCP_OPT_PAD
  BY <1>1, MessageBytes, Zenon
<1> HIDE DEF a
<1>3. CASE f.ending = "none"
  <2>1. n = e
    BY <1>3, BodyBytes, Zenon
  <2> HIDE DEF n, e
  <2>2. \A p \in (e + 1) .. OptLen : p \in Places /\ p > n
    BY <2>1, <1>1, AreaSize DEF Places
  <2>3. QED
    BY <2>2, <1>2, Zenon DEF Closed, e, n, a
<1>4. CASE f.ending # "none" /\ e # OptLen
  <2>1. n >= e + 1 /\ Body(f)[e + 1] = DHCP_OPT_END
    BY <1>4, BodyBytes, Zenon
  <2> HIDE DEF n, e
  <2>2. e + 1 \in Places /\ e + 1 <= n
    BY <2>1, <1>1, <1>4, AreaSize DEF Places
  <2>3. a[e + 1] = DHCP_OPT_END
    BY <2>1, <2>2, <1>2, Zenon DEF Arrived, n
  <2>4. QED
    BY <2>3, Zenon DEF Closed, e, n, a
<1>5. CASE e = OptLen
  BY <1>5, Zenon DEF Closed
<1>6. QED
  BY <1>3, <1>4, <1>5, Zenon

-----------------------------------------------------------------------------
(***************************************************************************)
(* The server does what the sender means.                                  *)
(***************************************************************************)
\* The first option of a kind is one of the list, or there is none.
LEMMA ValueOfList ==
  ASSUME NEW options, WellFormed(options), NEW option
  PROVE  /\ Value(options, option) \in Seq(Bytes)
         /\ option = DHCP_OPT_MESSAGE_TYPE =>
              Value(options, option) = <<>> \/ Len(Value(options, option)) = 1
<1> DEFINE hits == {i \in DOMAIN options : options[i][1] = option}
<1>1. /\ DOMAIN options = 1 .. Len(options)
      /\ \A i \in 1 .. Len(options) :
           /\ options[i][2] \in Seq(Bytes)
           /\ options[i][1] = DHCP_OPT_MESSAGE_TYPE => Len(options[i][2]) = 1
  BY OptionsFit, Zenon DEF Fits
<1>2. CASE hits = {}
  <2>1. Value(options, option) = <<>>
    BY <1>2, Zenon DEF Value
  <2>2. QED
    BY <2>1
<1>3. CASE hits # {}
  <2>1. hits \in SUBSET Nat
    BY <1>1
  <2>2. Min(hits) \in hits
    BY <2>1, <1>3, LeastPlace, Zenon
  <2>3. Value(options, option) = options[Min(hits)][2]
    BY <1>3, Zenon DEF Value
  <2>4. QED
    BY <2>2, <2>3, <1>1, Zenon
<1>4. QED
  BY <1>2, <1>3, Zenon

\* The type of a message, 0 if it has none.
TypeOf(options) ==
  LET type == Value(options, DHCP_OPT_MESSAGE_TYPE)
  IN  IF Len(type) >= 1 THEN type[1] ELSE 0

\* The two options that the server reads have codes.
LEMMA CodesRead == DHCP_OPT_MESSAGE_TYPE \in Codes /\ DHCP_OPT_REQUESTED_IP \in Codes
BY DEF DHCP_OPT_MESSAGE_TYPE, DHCP_OPT_REQUESTED_IP, Codes

\* Under the length of the message, the server reads the type and the address that were sent.
LEMMA OwnRead ==
  ASSUME NEW f \in Frames, NEW area \in Areas, Arrived(f, area)
  PROVE  /\ dhcp_get_message_type(hdrToMsg(area, Len(Body(f)))) = TypeOf(f.options)
         /\ dhcp_get_option(hdrToMsg(area, Len(Body(f))), DHCP_OPT_REQUESTED_IP) =
              Value(f.options, DHCP_OPT_REQUESTED_IP)
<1> DEFINE a == hdrToMsg(area, Len(Body(f)))
           options == f.options
<1>1. WellFormed(options)
  BY FrameAssumption
<1>2. Len(Body(f)) \in Nat /\ Len(Body(f)) >= Len(Encoded(options))
  <2>1. /\ Len(Body(f)) \in Nat /\ Len(Encoded(options)) \in Nat
        /\ \/ Len(Body(f)) = Len(Encoded(options))
           \/ Len(Body(f)) >= Len(Encoded(options)) + 1
    BY BodyBytes, Lengths, Zenon
  <2>2. QED
    BY <2>1
<1>3. a \in Areas /\ Carries(a, options) /\ Closed(a, Len(Encoded(options)))
  BY <1>2, MessageCarries, OwnMessageClosed, Zenon
<1> HIDE DEF a, options
<1>4. ASSUME NEW option \in Codes PROVE dhcp_get_option(a, option) = Value(options, option)
  BY <1>1, <1>3, SearchFindsValue
<1>5. /\ dhcp_get_option(a, DHCP_OPT_MESSAGE_TYPE) = Value(options, DHCP_OPT_MESSAGE_TYPE)
      /\ dhcp_get_option(a, DHCP_OPT_REQUESTED_IP) = Value(options, DHCP_OPT_REQUESTED_IP)
  BY <1>4, CodesRead, Zenon
<1>6. QED
  BY <1>5, Zenon DEF dhcp_get_message_type, TypeOf, a, options

\* In the whole area, the server reads the type that was sent if one was sent.
LEMMA WholeRead ==
  ASSUME NEW f \in Frames, NEW area \in Areas, Arrived(f, area), TypeOf(f.options) # 0
  PROVE  dhcp_get_message_type(hdrToMsg(area, OptLen)) = TypeOf(f.options)
<1> DEFINE a == hdrToMsg(area, OptLen)
           options == f.options
           type == Value(options, DHCP_OPT_MESSAGE_TYPE)
<1>1. WellFormed(options) /\ Len(Encoded(options)) <= OptLen
  BY FrameAssumption, Zenon
<1>2. OptLen \in Nat /\ OptLen >= Len(Encoded(options))
  <2>1. Len(Encoded(options)) \in Nat
    BY BodyBytes, Zenon
  <2>2. QED
    BY <2>1, <1>1, AreaSize
<1>3. a \in Areas /\ Carries(a, options)
  BY <1>2, MessageCarries, Zenon
<1>4. type # <<>>
  <2>1. SUFFICES ASSUME type = <<>> PROVE FALSE
    OBVIOUS
  <2>2. ~(Len(<<>>) >= 1)
    OBVIOUS
  <2>3. TypeOf(options) = 0
    BY <2>1, <2>2, Zenon DEF TypeOf
  <2>4. QED
    BY <2>3
<1> HIDE DEF a, options
<1>5. dhcp_get_option(a, DHCP_OPT_MESSAGE_TYPE) = type
  BY <1>1, <1>3, <1>4, CodesRead, SearchFindsValue
<1>6. QED
  BY <1>5, Zenon DEF dhcp_get_message_type, TypeOf, a, options

\* An address has a value.
LEMMA AddressNumber ==
  ASSUME NEW b \in Seq(Bytes), Len(b) = 4
  PROVE  ip_to_uint32(b) \in Nat
<1>1. \A i \in 1 .. Len(b) : b[i] \in Bytes
  OBVIOUS
<1>2. \A x \in Bytes : x \in Nat
  BY DEF Bytes
<1>3. 1 \in 1 .. 4 /\ 2 \in 1 .. 4 /\ 3 \in 1 .. 4 /\ 4 \in 1 .. 4
  OBVIOUS
<1>4. b[1] \in Nat /\ b[2] \in Nat /\ b[3] \in Nat /\ b[4] \in Nat
  BY <1>1, <1>2, <1>3, Zenon
<1>5. 2^24 \in Nat /\ 2^16 \in Nat /\ 2^8 \in Nat
  OBVIOUS
<1>6. \A x, y \in Nat : x * y \in Nat /\ x + y \in Nat
  OBVIOUS
<1>7. b[1] * 2^24 \in Nat /\ b[2] * 2^16 \in Nat /\ b[3] * 2^8 \in Nat
  BY <1>4, <1>5, <1>6, Zenon
<1>8. QED
  BY <1>4, <1>6, <1>7, Zenon DEF ip_to_uint32

\* What the type says of the meaning.
LEMMA MeaningByType ==
  ASSUME NEW m, NEW options, WellFormed(options)
  PROVE  LET t == TypeOf(options)
             ip == Value(options, DHCP_OPT_REQUESTED_IP)
         IN  /\ t = DHCP_DISCOVER => Meaning(m, options) = Job(DHCP_DISCOVER, m, 0)
             /\ t = DHCP_DECLINE => Meaning(m, options) = Job(DHCP_DECLINE, m, 0)
             /\ t = DHCP_REQUEST /\ Len(ip) = 4 =>
                  Meaning(m, options) = Job(DHCP_REQUEST, m, ip_to_uint32(ip))
             /\ t = DHCP_REQUEST /\ Len(ip) # 4 => Meaning(m, options) = NoJob
             /\ t \notin {DHCP_DISCOVER, DHCP_REQUEST, DHCP_DECLINE} => Meaning(m, options) = NoJob
<1> DEFINE type == Value(options, DHCP_OPT_MESSAGE_TYPE)
           t == TypeOf(options)
<1>1. type \in Seq(Bytes) /\ (type = <<>> \/ Len(type) = 1)
  BY ValueOfList, Zenon
<1>2. DHCP_DISCOVER # DHCP_REQUEST /\ DHCP_DISCOVER # DHCP_DECLINE /\ DHCP_REQUEST # DHCP_DECLINE
  BY DEF DHCP_DISCOVER, DHCP_REQUEST, DHCP_DECLINE
<1>3. DHCP_DISCOVER # 0 /\ DHCP_REQUEST # 0 /\ DHCP_DECLINE # 0
  BY DEF DHCP_DISCOVER, DHCP_REQUEST, DHCP_DECLINE
<1> HIDE DEF type
<1>4. CASE type = <<>>
  <2>1. t = 0
    BY <1>4 DEF TypeOf, type
  <2>2. \A x : type # <<x>>
    BY <1>4
  <2>3. Meaning(m, options) = NoJob
    BY <2>2 DEF Meaning, type
  <2>4. QED
    BY <2>1, <2>3, <1>3, Zenon
<1>5. CASE Len(type) = 1
  <2>1. type = <<t>>
    <3>1. t = type[1]
      BY <1>5 DEF TypeOf, type
    <3>2. QED
      BY <3>1, <1>1, <1>5
  <2>2. \A x, y : <<x>> = <<y>> => x = y
    OBVIOUS
  <2>3. type[1] = t
    BY <2>1
  <2> HIDE DEF t
  <2>4. CASE t = DHCP_DISCOVER \/ t = DHCP_DECLINE
    <3>1. type \in {<<DHCP_DISCOVER>>, <<DHCP_DECLINE>>} /\ type # <<DHCP_REQUEST>>
      BY <2>1, <2>2, <2>4, <1>2, Zenon
    <3>2. Meaning(m, options) = Job(t, m, 0)
      BY <3>1, <2>3 DEF Meaning, type
    <3>3. QED
      BY <3>2, <2>4, <1>2, Zenon DEF t
  <2>5. CASE t = DHCP_REQUEST
    <3>1. type \notin {<<DHCP_DISCOVER>>, <<DHCP_DECLINE>>} /\ type = <<DHCP_REQUEST>>
      BY <2>1, <2>2, <2>5, <1>2, Zenon
    <3>2. Meaning(m, options) =
            IF Len(Value(options, DHCP_OPT_REQUESTED_IP)) = 4
            THEN Job(DHCP_REQUEST, m, ip_to_uint32(Value(options, DHCP_OPT_REQUESTED_IP)))
            ELSE NoJob
      BY <3>1 DEF Meaning, type
    <3>3. QED
      BY <3>2, <2>5, <1>2, Zenon DEF t
  <2>6. CASE t \notin {DHCP_DISCOVER, DHCP_REQUEST, DHCP_DECLINE}
    <3>1. type \notin {<<DHCP_DISCOVER>>, <<DHCP_DECLINE>>} /\ type # <<DHCP_REQUEST>>
      BY <2>1, <2>2, <2>6, Zenon
    <3>2. Meaning(m, options) = NoJob
      BY <3>1 DEF Meaning, type
    <3>3. QED
      BY <3>2, <2>6, Zenon DEF t
  <2>7. QED
    BY <2>4, <2>5, <2>6, Zenon
<1>6. QED
  BY <1>1, <1>4, <1>5, Zenon

\* A message for the server is known by its type, other traffic by none.
LEMMA KnownType ==
  ASSUME NEW f \in Frames, NEW area \in Areas, Arrived(f, area)
  PROVE  MsgType(f, area) = IF f.kind = "DHCP" /\ ~f.short THEN TypeOf(f.options) ELSE 0
<1>1. f.kind \in {"DHCP", "BOOTP", "ARP", "TCP", "REPLY"} /\ f.short \in BOOLEAN
  BY KernelAssumption
<1>2. CASE f.kind # "DHCP"
  <2>1. CASE f.kind = "BOOTP"
    <3>1. ~HasCookie(f)
      BY <2>1 DEF HasCookie
    <3>2. QED
      BY <3>1, <1>2, Zenon DEF MsgType, ProcessDHCPHdr
  <2>2. CASE f.kind # "BOOTP"
    <3>1. ~ForServer(f)
      BY <1>1, <1>2, <2>2 DEF ForServer, EtherType, Protocol, DstPort
    <3>2. QED
      BY <3>1, <1>2, Zenon DEF MsgType
  <2>3. QED
    BY <2>1, <2>2
<1>3. CASE f.short
  <2>1. Length(f) < DHCP_FIXED_LEN
    BY <1>3 DEF Length, DHCP_FIXED_LEN
  <2>2. QED
    BY <2>1, <1>3, Zenon DEF MsgType, ProcessDHCPHdr
<1>4. CASE f.kind = "DHCP" /\ ~f.short
  <2>1. Len(Body(f)) \in Nat
    BY BodyBytes, Lengths, Zenon
  <2>2. ~(Length(f) < DHCP_FIXED_LEN) /\ Length(f) - DHCP_FIXED_LEN = Len(Body(f))
    BY <1>4, <2>1 DEF Length, DHCP_FIXED_LEN
  <2>3. ForServer(f) /\ HasCookie(f)
    BY <1>4 DEF ForServer, EtherType, Protocol, DstPort, HasCookie
  <2>4. MsgType(f, area) = dhcp_get_message_type(hdrToMsg(area, Len(Body(f))))
    BY <2>2, <2>3, Zenon DEF MsgType, ProcessDHCPHdr
  <2>5. QED
    BY <2>4, <1>4, OwnRead, Zenon
<1>5. QED
  BY <1>2, <1>3, <1>4, Zenon

\* What the back end does on a frame.
Served(f) ==
  \/ Asks(f) = NoJob /\ Ignore
  \/ Asks(f) = Job(DHCP_DISCOVER, f.chaddr, 0) /\ Discover(f.chaddr)
  \/ \E ip \in Nat : Asks(f) = Job(DHCP_REQUEST, f.chaddr, ip) /\ Request(f.chaddr, ip)
  \/ Asks(f) = Job(DHCP_DECLINE, f.chaddr, 0) /\ DeclineLease(f.chaddr) /\ UNCHANGED left

\* It serves the sender, and remembers for whom.
LEMMA SenderServed ==
  ASSUME NEW f \in Frames, NEW area \in Areas, Arrived(f, area), Dispatch(f, area)
  PROVE  handled' = Asks(f) /\ Served(f)
<1> DEFINE t == MsgType(f, area)
           own == hdrToMsg(area, Length(f) - DHCP_FIXED_LEN)
           whole == hdrToMsg(area, OptLen)
           ip == Value(f.options, DHCP_OPT_REQUESTED_IP)
<1>0. /\ DHCP_DISCOVER # DHCP_REQUEST /\ DHCP_DISCOVER # DHCP_DECLINE /\ DHCP_REQUEST # DHCP_DECLINE
      /\ DHCP_DISCOVER # 0 /\ DHCP_REQUEST # 0 /\ DHCP_DECLINE # 0
  BY DEF DHCP_DISCOVER, DHCP_REQUEST, DHCP_DECLINE
<1>1. t = IF f.kind = "DHCP" /\ ~f.short THEN TypeOf(f.options) ELSE 0
  BY KnownType, Zenon
<1>2. WellFormed(f.options)
  BY FrameAssumption, Zenon
<1>3. t # 0 => /\ t = TypeOf(f.options) /\ Asks(f) = Meaning(f.chaddr, f.options)
               /\ dhcp_get_message_type(whole) = t
               /\ dhcp_get_message_type(own) = t
               /\ dhcp_get_option(own, DHCP_OPT_REQUESTED_IP) = ip
  <2>1. SUFFICES ASSUME t # 0
                 PROVE  /\ t = TypeOf(f.options) /\ Asks(f) = Meaning(f.chaddr, f.options)
                        /\ dhcp_get_message_type(whole) = t
                        /\ dhcp_get_message_type(own) = t
                        /\ dhcp_get_option(own, DHCP_OPT_REQUESTED_IP) = ip
    OBVIOUS
  <2>2. f.kind = "DHCP" /\ ~f.short /\ t = TypeOf(f.options)
    BY <2>1, <1>1, Zenon
  <2>3. Length(f) - DHCP_FIXED_LEN = Len(Body(f))
    <3>1. Len(Body(f)) \in Nat
      BY BodyBytes, Lengths, Zenon
    <3>2. QED
      BY <2>2, <3>1 DEF Length, DHCP_FIXED_LEN
  <2>4. own = hdrToMsg(area, Len(Body(f)))
    BY <2>3, Zenon
  <2> HIDE DEF t
  <2>5. QED
    BY <2>1, <2>2, <2>4, OwnRead, WholeRead, Zenon DEF Asks
<1> HIDE DEF t, own, whole, ip
<1>4. CASE t = DHCP_DISCOVER
  <2>1. CraftDHCPOffer(f, area)
    BY <1>0, <1>4 DEF Dispatch, t
  <2>2. dhcp_get_message_type(whole) = DHCP_DISCOVER
    BY <1>0, <1>3, <1>4, Zenon
  <2>3. OnDiscover(f.chaddr)
    BY <1>0, <2>1, <2>2 DEF CraftDHCPOffer, dhcp_process_message_array, whole
  <2>4. Asks(f) = Job(DHCP_DISCOVER, f.chaddr, 0)
    BY <1>0, <1>2, <1>3, <1>4, MeaningByType, Zenon
  <2>5. QED
    BY <2>3, <2>4, Zenon DEF OnDiscover, Handle, Served
<1>5. CASE t = DHCP_DECLINE
  <2>1. HandleDHCPDecline(f, area)
    BY <1>0, <1>5 DEF Dispatch, t
  <2>2. dhcp_get_message_type(whole) = DHCP_DECLINE
    BY <1>0, <1>3, <1>5, Zenon
  <2>3. OnDecline(f.chaddr)
    BY <1>0, <2>1, <2>2 DEF HandleDHCPDecline, dhcp_process_message_array, whole
  <2>4. Asks(f) = Job(DHCP_DECLINE, f.chaddr, 0)
    BY <1>0, <1>2, <1>3, <1>5, MeaningByType, Zenon
  <2>5. QED
    BY <2>3, <2>4, Zenon DEF OnDecline, Handle, Served
<1>6. CASE t = DHCP_REQUEST
  <2>1. CraftDHCPAck(f, area)
    BY <1>0, <1>6 DEF Dispatch, t
  <2>2. dhcp_get_message_type(own) = DHCP_REQUEST
    BY <1>0, <1>3, <1>6, Zenon
  <2>3. OnRequest(f.chaddr, own)
    BY <1>0, <2>1, <2>2 DEF CraftDHCPAck, dhcp_process_message_array, own
  <2>4. \/ Len(ip) = 4 /\ Request(f.chaddr, ip_to_uint32(ip))
           /\ handled' = Job(DHCP_REQUEST, f.chaddr, ip_to_uint32(ip))
        \/ Len(ip) # 4 /\ Ignore /\ handled' = NoJob
    BY <2>3, <1>0, <1>3, <1>6, Zenon DEF OnRequest, Handle
  <2>5. Len(ip) = 4 => Asks(f) = Job(DHCP_REQUEST, f.chaddr, ip_to_uint32(ip))
    BY <1>0, <1>2, <1>3, <1>6, MeaningByType, Zenon DEF ip
  <2>6. Len(ip) # 4 => Asks(f) = NoJob
    BY <1>0, <1>2, <1>3, <1>6, MeaningByType, Zenon DEF ip
  <2>7. ip \in Seq(Bytes)
    BY <1>2, ValueOfList, Zenon DEF ip
  <2>8. Len(ip) = 4 => ip_to_uint32(ip) \in Nat
    BY <2>7, AddressNumber, Zenon
  <2>9. QED
    BY <2>4, <2>5, <2>6, <2>8, Zenon DEF Served
<1>7. CASE t \notin {DHCP_DISCOVER, DHCP_REQUEST, DHCP_DECLINE}
  <2>1. Ignore /\ handled' = NoJob
    BY <1>7 DEF Dispatch, Handle, t
  <2>2. Asks(f) = NoJob
    <3>1. CASE f.kind = "DHCP" /\ ~f.short
      BY <3>1, <1>1, <1>2, <1>7, MeaningByType, Zenon DEF Asks
    <3>2. CASE ~(f.kind = "DHCP" /\ ~f.short)
      BY <3>2, Zenon DEF Asks
    <3>3. QED
      BY <3>1, <3>2, Zenon
  <2>3. QED
    BY <2>1, <2>2, Zenon DEF Served
<1>8. QED
  BY <1>4, <1>5, <1>6, <1>7, Zenon

-----------------------------------------------------------------------------
(***************************************************************************)
(* Replies: options are added one by one in the place of END.              *)
(***************************************************************************)
EndOnly == {DHCP_OPT_END}

\* Area b starts with the first n bytes of a.
Agree(a, b, n) == \A j \in 1 .. n : b[j] = a[j]

\* The walk to END passes the first q bytes of a, whatever lies behind them.
Reaches(a, q) ==
  \A b \in Areas : Agree(a, b, q) => At(b, EndOnly)[1] = At(b, EndOnly)[q + 1]

\* Area a has q bytes of options and END behind them.
Open(a, q) ==
  /\ a \in Areas
  /\ q \in Nat
  /\ q + 1 \in Places
  /\ a[q + 1] = DHCP_OPT_END
  /\ a[1] # DHCP_OPT_PAD
  /\ Reaches(a, q)

\* The walk ends at that END.
LEMMA OpenWalk ==
  ASSUME NEW a, NEW q, Open(a, q)
  PROVE  Walk(a, EndOnly) = q + 1
<1>1. a \in Areas /\ q + 1 \in Places /\ a[q + 1] \in EndOnly /\ Reaches(a, q)
  BY Zenon DEF Open, EndOnly
<1>2. At(a, EndOnly)[1] = At(a, EndOnly)[q + 1]
  BY <1>1, Zenon DEF Reaches, Agree
<1>3. Walk(a, EndOnly) = At(a, EndOnly)[1] /\ At(a, EndOnly)[q + 1] = q + 1
  BY <1>1, WalkUnfolds
<1>4. QED
  BY <1>2, <1>3, Zenon

\* The bytes of an area in which an option and END were put behind the first q.
LEMMA AddedBytes ==
  ASSUME NEW a \in Areas, NEW q \in Nat, NEW o, Fits(o), q + 2 + Len(o[2]) + 1 <= OptLen,
         NEW r, r = Over(SubSeq(a, 1, q) \o (Piece(o) \o <<DHCP_OPT_END>>), q + 2 + Len(o[2]) + 1, a)
  PROVE  /\ r \in Areas
         /\ Agree(a, r, q)
         /\ Placed(r, q, o)
         /\ r[q + 2 + Len(o[2]) + 1] = DHCP_OPT_END
<1> DEFINE l == Len(o[2])
           u == SubSeq(a, 1, q)
           e == <<DHCP_OPT_END>>
           w == Piece(o) \o e
           s == u \o w
           n == q + 2 + l + 1
<1>1. l \in Nat /\ OptLen \in Nat /\ a \in Seq(Bytes) /\ Len(a) = OptLen
  BY Lengths, AreaSize, AreaBytes
<1>2. Piece(o) \in Seq(Bytes) /\ Len(Piece(o)) = 2 + l /\ Placed(Piece(o), 0, o)
  BY PieceBytes, Zenon
<1> HIDE DEF l
<1>0. q + 2 + l + 1 <= OptLen
  BY DEF l
<1>3. e \in Seq(Bytes) /\ Len(e) = 1 /\ e[1] = DHCP_OPT_END
  BY DEF DHCP_OPT_END, Bytes
<1>4. u \in Seq(Bytes) /\ Len(u) = q /\ \A j \in 1 .. q : u[j] = a[j]
  <2>1. q <= Len(a) /\ 1 \in Nat /\ 1 >= 1 /\ 1 <= q + 1 /\ q + 1 - 1 = q
    BY <1>0, <1>1
  <2>2. \A j \in 1 .. q : 1 + j - 1 = j
    OBVIOUS
  <2>3. /\ u \in Seq(Bytes) /\ Len(u) = q + 1 - 1
        /\ \A j \in 1 .. (q + 1 - 1) : u[j] = a[1 + j - 1]
    BY <2>1, <1>1, Slice
  <2> HIDE DEF u
  <2>4. QED
    BY <2>1, <2>2, <2>3
<1> HIDE DEF u, e
<1>5. /\ w \in Seq(Bytes) /\ Len(w) = Len(Piece(o)) + Len(e)
      /\ \A j \in 1 .. Len(Piece(o)) : w[j] = Piece(o)[j]
      /\ \A j \in 1 .. Len(e) : w[Len(Piece(o)) + j] = e[j]
  BY <1>2, <1>3, Appended
<1> HIDE DEF w
<1>6. /\ s \in Seq(Bytes) /\ Len(s) = Len(u) + Len(w)
      /\ \A j \in 1 .. Len(u) : s[j] = u[j]
      /\ \A j \in 1 .. Len(w) : s[Len(u) + j] = w[j]
  BY <1>4, <1>5, Appended
<1> HIDE DEF s
<1>7. Len(w) = 2 + l + 1 /\ Len(s) = n /\ n \in Nat /\ n <= Len(s) /\ n <= OptLen
  <2>1. Len(w) = 2 + l + 1 /\ Len(s) = q + (2 + l + 1)
    BY <1>2, <1>3, <1>4, <1>5, <1>6, Zenon
  <2>2. QED
    BY <2>1, <1>0, <1>1
<1>8. r \in Areas /\ \A j \in 1 .. n : r[j] = s[j]
  <2>1. r = Over(s, n, a)
    BY Zenon DEF s, w, u, e, n, l
  <2> HIDE DEF n
  <2>2. QED
    <3> DEFINE b == Over(s, n, a)
    <3>1. s \in Seq(Bytes) /\ n \in Nat /\ n <= Len(s) /\ n <= OptLen
      BY <1>6, <1>7, Zenon
    <3>2. b \in Areas /\ \A j \in 1 .. n : b[j] = s[j]
      BY <3>1, OverBytes, Zenon
    <3> HIDE DEF b
    <3>3. r = b
      BY <2>1, Zenon DEF b
    <3>4. QED
      BY <3>2, <3>3, Zenon
<1>9. \A j \in 1 .. q : r[j] = a[j]
  <2>1. \A j \in 1 .. q : j \in 1 .. n
    BY <1>1
  <2>2. QED
    BY <2>1, <1>4, <1>6, <1>8, Zenon
<1>10. \A j \in 1 .. (2 + l + 1) : r[q + j] = w[j]
  <2>1. \A j \in 1 .. (2 + l + 1) : q + j \in 1 .. n
    BY <1>1
  <2>2. QED
    BY <2>1, <1>4, <1>6, <1>7, <1>8, Zenon
<1>11. \A j \in 1 .. (2 + l) : r[q + j] = Piece(o)[j]
  <2>1. \A j \in 1 .. (2 + l) : j \in 1 .. (2 + l + 1)
    BY <1>1
  <2>2. QED
    BY <2>1, <1>2, <1>5, <1>10, Zenon
<1>12. Placed(r, q, o)
  <2>1. 1 \in 1 .. (2 + l) /\ 2 \in 1 .. (2 + l) /\ 0 + 1 = 1 /\ 0 + 2 = 2
    BY <1>1
  <2>2. \A j \in 1 .. l : 2 + j \in 1 .. (2 + l) /\ q + (2 + j) = q + 2 + j /\ 0 + 2 + j = 2 + j
    BY <1>1
  <2>3. r[q + 1] = o[1] /\ r[q + 2] = l
    BY <2>1, <1>2, <1>11, ZenonT(30) DEF Placed, l
  <2>4. \A j \in 1 .. l : r[q + 2 + j] = o[2][j]
    BY <2>1, <2>2, <1>2, <1>11, ZenonT(30) DEF Placed, l
  <2>5. QED
    BY <2>3, <2>4, Zenon DEF Placed, l
<1>13. r[n] = DHCP_OPT_END
  <2>1. 1 \in 1 .. 1 /\ 2 + l + 1 \in 1 .. (2 + l + 1) /\ q + (2 + l + 1) = n
    BY <1>1
  <2>2. w[2 + l + 1] = DHCP_OPT_END
    BY <2>1, <1>2, <1>3, <1>5, Zenon
  <2> HIDE DEF n
  <2>3. QED
    BY <2>1, <2>2, <1>10, Zenon
<1>14. QED
  BY <1>8, <1>9, <1>12, <1>13, Zenon DEF n, l, Agree

\* An option that is added lies in the place of END, and END behind it.
LEMMA OptionAdded ==
  ASSUME NEW a, NEW q, Open(a, q), NEW o, Fits(o), q + 2 + Len(o[2]) + 1 <= OptLen,
         NEW r, r = dhcp_add_option(a, o[1], o[2])
  PROVE  /\ Open(r, q + 2 + Len(o[2]))
         /\ Placed(r, q, o)
         /\ Agree(a, r, q)
<1> DEFINE l == Len(o[2])
           n == q + 2 + l
<1>1. a \in Areas /\ q \in Nat /\ l \in Nat /\ OptLen \in Nat /\ n + 1 <= OptLen
  BY Lengths, AreaSize, Zenon DEF Open
<1> HIDE DEF l, n
<1>0. q \in Nat /\ l \in Nat /\ OptLen \in Nat /\ n + 1 <= OptLen /\ n = q + 2 + l
  BY <1>1, Zenon DEF n
<1>9. l = Len(o[2]) /\ n = q + 2 + Len(o[2])
  BY Zenon DEF n, l
<1>2. a[1] # 0 /\ Walk(a, EndOnly) = q + 1
  BY OpenWalk, Zenon DEF Open, DHCP_OPT_PAD
<1>3. r = Over(SubSeq(a, 1, q) \o (Piece(o) \o <<DHCP_OPT_END>>), n + 1, a)
  <2>1. q + 1 - 1 = q /\ q + 1 + 2 + l = n + 1 /\ ~(n + 1 > OptLen)
    BY <1>0
  <2>2. <<o[1], l>> \o o[2] \o <<DHCP_OPT_END>> = Piece(o) \o <<DHCP_OPT_END>>
    BY DEF Piece, l
  <2> DEFINE new == <<o[1], l>> \o o[2] \o <<DHCP_OPT_END>>
             p == Walk(a, EndOnly)
  <2>3. dhcp_add_option(a, o[1], o[2]) =
          IF p + 2 + l > OptLen THEN a
          ELSE Over(SubSeq(a, 1, p - 1) \o new, p + 2 + l, a)
    BY <1>2, Zenon DEF dhcp_add_option, l, EndOnly
  <2> HIDE DEF new, p
  <2>4. QED
    <3>1. p = q + 1 /\ new = Piece(o) \o <<DHCP_OPT_END>>
      BY <2>2, <1>2, Zenon DEF p, new
    <3>2. p - 1 = q /\ p + 2 + l = n + 1
      BY <3>1, <1>0
    <3>3. QED
      BY <3>1, <3>2, <2>1, <2>3, Zenon
<1>4. /\ r \in Areas /\ Placed(r, q, o) /\ r[n + 1] = DHCP_OPT_END
      /\ Agree(a, r, q)
  <2>1. /\ n + 1 = q + 2 + Len(o[2]) + 1
        /\ r = Over(SubSeq(a, 1, q) \o (Piece(o) \o <<DHCP_OPT_END>>), q + 2 + Len(o[2]) + 1, a)
    BY <1>9, <1>3, Zenon
  <2>2. /\ r \in Areas /\ Placed(r, q, o) /\ r[q + 2 + Len(o[2]) + 1] = DHCP_OPT_END
        /\ Agree(a, r, q)
    BY <2>1, <1>1, AddedBytes, Zenon
  <2>3. QED
    BY <2>1, <2>2, Zenon
<1>5. n \in Nat /\ n + 1 \in Places
  BY <1>0 DEF Places
<1>6. r[1] # DHCP_OPT_PAD
  <2>1. CASE q = 0
    <3>1. r[0 + 1] = o[1] /\ o[1] \in Codes
      BY <2>1, <1>4, Zenon DEF Placed, Fits
    <3>2. QED
      BY <3>1, ProperCodes
  <2>2. CASE q # 0
    <3>1. 1 \in 1 .. q
      BY <2>2, <1>1
    <3>2. QED
      BY <3>1, <1>4, Zenon DEF Open, Agree
  <2>3. QED
    BY <2>1, <2>2, Zenon
<1>7. Reaches(r, n)
  <2>1. SUFFICES ASSUME NEW b \in Areas, Agree(r, b, n)
                 PROVE  At(b, EndOnly)[1] = At(b, EndOnly)[n + 1]
    BY Zenon DEF Reaches
  <2>2. \A j \in 1 .. n : b[j] = r[j]
    BY <2>1, Zenon DEF Agree
  <2>3. q + 1 \in 1 .. n /\ q + 2 \in 1 .. n /\ \A j \in 1 .. l : q + 2 + j \in 1 .. n
    BY <1>0
  <2>4. \A j \in 1 .. q : j \in 1 .. n
    BY <1>0
  <2>5. At(b, EndOnly)[1] = At(b, EndOnly)[q + 1]
    <3>1. Agree(a, b, q)
      BY <2>2, <2>4, <1>4, Zenon DEF Agree
    <3>2. Reaches(a, q)
      BY Zenon DEF Open
    <3>3. QED
      BY <3>1, <3>2, Zenon DEF Reaches
  <2>6. Lies(b, q, o)
    <3>1. Placed(b, q, o)
      <4>1. /\ r[q + 1] = o[1] /\ r[q + 2] = Len(o[2])
            /\ \A j \in 1 .. Len(o[2]) : r[q + 2 + j] = o[2][j]
        BY <1>4, Zenon DEF Placed
      <4>2. b[q + 1] = o[1] /\ b[q + 2] = Len(o[2])
        BY <4>1, <2>2, <2>3, Zenon
      <4>3. \A j \in 1 .. Len(o[2]) : b[q + 2 + j] = o[2][j]
        BY <4>1, <2>2, <2>3, <1>9, Zenon
      <4>4. QED
        BY <4>2, <4>3, Zenon DEF Placed
    <3>2. q + 2 + Len(o[2]) <= OptLen
      <4>1. n <= OptLen
        BY <1>0
      <4>2. QED
        BY <4>1, <1>9, Zenon
    <3>3. QED
      BY <3>1, <3>2, <1>1, Zenon DEF Lies
  <2>7. o[1] \notin EndOnly
    BY ProperCodes, Zenon DEF Fits, EndOnly
  <2>8. At(b, EndOnly)[q + 1] = At(b, EndOnly)[q + 2 + Len(o[2]) + 1]
    BY <2>6, <2>7, WalkPasses
  <2>9. QED
    BY <2>5, <2>8, <1>9, Zenon
<1>8. QED
  <2>1. Open(r, n)
    BY <1>4, <1>5, <1>6, <1>7, Zenon DEF Open
  <2>2. QED
    BY <2>1, <1>9, <1>4, Zenon

\* A cleared area with END in its first place.
Marked == [Zeros EXCEPT ![1] = DHCP_OPT_END]

\* The first option is added as to an area without options.
LEMMA FirstAdded ==
  /\ Open(Marked, 0)
  /\ \A c, d : dhcp_add_option(Zeros, c, d) = dhcp_add_option(Marked, c, d)
<1>1. 1 \in Places /\ Zeros \in Areas /\ Zeros[1] = 0
  BY AreaSize DEF Places, Zeros, Areas, Bytes
<1>2. Marked \in Areas /\ Marked[1] = DHCP_OPT_END
  BY <1>1 DEF Marked, Areas, Bytes, DHCP_OPT_END
<1>3. DHCP_OPT_END # 0 /\ DHCP_OPT_END # DHCP_OPT_PAD
  BY DEF DHCP_OPT_END, DHCP_OPT_PAD
<1>4. \A c, d : dhcp_add_option(Zeros, c, d) = dhcp_add_option(Marked, c, d)
  BY <1>1, <1>2, <1>3, Zenon DEF dhcp_add_option, Marked
<1>5. Open(Marked, 0)
  <2>1. 0 + 1 = 1 /\ 0 \in Nat
    OBVIOUS
  <2>2. Reaches(Marked, 0)
    BY <2>1, Zenon DEF Reaches
  <2>3. QED
    BY <2>1, <2>2, <1>1, <1>2, <1>3, Zenon DEF Open
<1>6. QED
  BY <1>4, <1>5, Zenon

\* The area after the first k options, for every k.
Adding(options, f) ==
  [k \in 0 .. Len(options) |->
     IF k = 0 THEN Zeros ELSE dhcp_add_option(f[k - 1], options[k][1], options[k][2])]

\* One option after the other can be added.
LEMMA AddingExists ==
  ASSUME NEW options, Len(options) \in Nat
  PROVE  \E f : f = Adding(options, f)
<1> DEFINE n == Len(options)
           Put(a, i) == dhcp_add_option(a, options[i][1], options[i][2])
           Good(k) == \E g : g[0] = Zeros /\ \A i \in 1 .. k : g[i] = Put(g[i - 1], i)
<1> HIDE DEF Put
<1>1. Good(0)
  <2>1. [i \in {0} |-> Zeros][0] = Zeros /\ \A i \in 1 .. 0 : FALSE
    OBVIOUS
  <2>2. QED
    BY <2>1
<1>2. ASSUME NEW k \in Nat, k < n, Good(k) PROVE Good(k + 1)
  <2>1. PICK g : g[0] = Zeros /\ \A i \in 1 .. k : g[i] = Put(g[i - 1], i)
    BY <1>2
  <2> DEFINE v == Put(g[k], k + 1)
             h == [i \in 0 .. (k + 1) |-> IF i = k + 1 THEN v ELSE g[i]]
  <2> HIDE DEF v
  <2>2. h[0] = Zeros /\ h[k + 1] = v /\ \A i \in 0 .. k : h[i] = g[i]
    BY <2>1
  <2> HIDE DEF h
  <2>3. ASSUME NEW i \in 1 .. (k + 1) PROVE h[i] = Put(h[i - 1], i)
    <3>1. CASE i = k + 1
      <4>1. i - 1 = k /\ k \in 0 .. k
        BY <3>1
      <4>2. QED
        BY <3>1, <4>1, <2>2, Zenon DEF v
    <3>2. CASE i # k + 1
      <4>1. i \in 1 .. k /\ i \in 0 .. k /\ i - 1 \in 0 .. k
        BY <3>2
      <4>2. QED
        BY <4>1, <2>1, <2>2, Zenon
    <3>3. QED
      BY <3>1, <3>2, Zenon
  <2>4. QED
    BY <2>2, <2>3
<1>3. Good(n)
  <2> DEFINE S == {k \in Nat : Good(k)}
  <2> HIDE DEF Good
  <2>1. 0 \in S /\ \A k \in Nat : k < n /\ k \in S => k + 1 \in S
    BY <1>1, <1>2
  <2> HIDE DEF S, n
  <2>2. \A k \in 0 .. n : k \in S
    BY <2>1, StepByStep, Zenon DEF n
  <2>3. n \in 0 .. n
    BY DEF n
  <2>4. QED
    BY <2>2, <2>3 DEF S
<1>4. PICK g : g[0] = Zeros /\ \A i \in 1 .. n : g[i] = Put(g[i - 1], i)
  BY <1>3
<1> DEFINE f == [k \in 0 .. n |-> g[k]]
<1>5. \A k \in 0 .. n : f[k] = g[k]
  OBVIOUS
<1>6. ASSUME NEW k \in 0 .. n PROVE f[k] = IF k = 0 THEN Zeros ELSE Put(f[k - 1], k)
  <2>1. CASE k = 0
    BY <2>1, <1>4, <1>5, Zenon
  <2>2. CASE k # 0
    <3>1. k \in 1 .. n /\ k - 1 \in 0 .. n
      BY <2>2
    <3> HIDE DEF f
    <3>2. QED
      BY <3>1, <2>2, <1>4, <1>5, Zenon
  <2>3. QED
    BY <2>1, <2>2, Zenon
<1>7. f = [k \in 0 .. n |-> f[k]]
  OBVIOUS
<1> HIDE DEF f
<1>8. [k \in 0 .. n |-> f[k]] = [k \in 0 .. n |-> IF k = 0 THEN Zeros ELSE Put(f[k - 1], k)]
  BY <1>6
<1>9. f = Adding(options, f)
  BY <1>7, <1>8, Zenon DEF Adding, Put, n
<1>10. QED
  BY <1>9

\* The area after the first k options.
Added(options, k) == (CHOOSE f : f = Adding(options, f))[k]

\* The area is built by one option after the other.
LEMMA AddedGrows ==
  ASSUME NEW options, Len(options) \in Nat
  PROVE  /\ AddAll(options) = Added(options, Len(options))
         /\ Added(options, 0) = Zeros
         /\ \A k \in 1 .. Len(options) :
              Added(options, k) = dhcp_add_option(Added(options, k - 1), options[k][1], options[k][2])
<1> DEFINE g == CHOOSE f : f = Adding(options, f)
<1>1. g = Adding(options, g)
  BY AddingExists
<1>2. AddAll(options) = g[Len(options)]
  BY DEF AddAll, Adding
<1> HIDE DEF g
<1>3. 0 \in 0 .. Len(options) /\ \A k \in 1 .. Len(options) : k \in 0 .. Len(options) /\ k # 0
  OBVIOUS
<1>4. \A k \in 0 .. Len(options) :
        g[k] = IF k = 0 THEN Zeros ELSE dhcp_add_option(g[k - 1], options[k][1], options[k][2])
  BY <1>1 DEF Adding
<1>5. /\ g[0] = Zeros
      /\ \A k \in 1 .. Len(options) : g[k] = dhcp_add_option(g[k - 1], options[k][1], options[k][2])
  BY <1>3, <1>4, Zenon
<1>6. QED
  BY <1>2, <1>5, Zenon DEF Added, g

\* An option stays where it is in an area that starts with the same bytes.
LEMMA PlacedSame ==
  ASSUME NEW a, NEW b, NEW n \in Nat, Agree(a, b, n), NEW q \in Nat, NEW o, Fits(o), Placed(a, q, o),
         q + 2 + Len(o[2]) <= n
  PROVE  Placed(b, q, o)
<1>1. Len(o[2]) \in Nat
  BY Lengths, Zenon
<1>2. q + 1 \in 1 .. n /\ q + 2 \in 1 .. n /\ \A j \in 1 .. Len(o[2]) : q + 2 + j \in 1 .. n
  BY <1>1, Within, Zenon
<1>3. /\ a[q + 1] = o[1] /\ a[q + 2] = Len(o[2])
      /\ \A j \in 1 .. Len(o[2]) : a[q + 2 + j] = o[2][j]
  BY Zenon DEF Placed
<1>4. b[q + 1] = o[1] /\ b[q + 2] = Len(o[2])
  BY <1>2, <1>3, Zenon DEF Agree
<1>5. \A j \in 1 .. Len(o[2]) : b[q + 2 + j] = o[2][j]
  BY <1>2, <1>3, Zenon DEF Agree
<1>6. QED
  BY <1>4, <1>5, Zenon DEF Placed

\* The options of a list that leaves room for END are all added, one behind the other.
LEMMA AllAdded ==
  ASSUME NEW options, WellFormed(options), Len(options) # 0, NEW off, Offsets(options, off),
         off[Len(options)] + 1 <= OptLen
  PROVE  /\ Open(AddAll(options), off[Len(options)])
         /\ Starting(AddAll(options), options, off)
<1> DEFINE n == Len(options)
           A(k) == Added(options, k)
           Done(k) == \E b : /\ k # 0 => b = A(k)
                             /\ \A c, d : dhcp_add_option(A(k), c, d) = dhcp_add_option(b, c, d)
                             /\ Open(b, off[k])
                             /\ \A i \in 1 .. k : off[i] <= off[k] /\ Placed(b, off[i - 1], options[i])
<1>1. n \in Nat /\ \A i \in 1 .. n : Fits(options[i])
  BY OptionsFit, Zenon
<1>2. /\ AddAll(options) = A(n) /\ A(0) = Zeros
      /\ \A k \in 1 .. n : A(k) = dhcp_add_option(A(k - 1), options[k][1], options[k][2])
  BY <1>1, AddedGrows, Zenon
<1>3. /\ off[0] = 0 /\ \A i \in 0 .. n : off[i] \in Nat /\ off[i] <= off[n]
      /\ \A i \in 1 .. n : off[i] = off[i - 1] + 2 + Len(options[i][2])
  <2>1. \A i \in 0 .. n : off[i] \in Nat /\ off[i] <= off[n]
    BY OffsetsGrow, Zenon
  <2>2. QED
    BY <2>1, Zenon DEF Offsets
<1>4. off[n] + 1 <= OptLen /\ OptLen \in Nat
  BY AreaSize, Zenon
<1> HIDE DEF n, A
<1>5. Done(0)
  <2>1. \A i \in 1 .. 0 : FALSE
    OBVIOUS
  <2>2. QED
    BY <2>1, <1>2, <1>3, FirstAdded, Zenon
<1>6. ASSUME NEW k \in Nat, k < n, Done(k) PROVE Done(k + 1)
  <2>1. PICK b : /\ \A c, d : dhcp_add_option(A(k), c, d) = dhcp_add_option(b, c, d)
                 /\ Open(b, off[k])
                 /\ \A i \in 1 .. k : off[i] <= off[k] /\ Placed(b, off[i - 1], options[i])
    BY <1>6
  <2>2. PICK h : h = k + 1
    OBVIOUS
  <2>3. h \in 1 .. n /\ h \in 0 .. n /\ h - 1 = k /\ k \in 0 .. n /\ h # 0 /\ n \in 0 .. n
    BY <2>2, <1>1, <1>6
  <2> DEFINE q == off[k]
             o == options[h]
             r == A(h)
  <2>4. q \in Nat /\ off[h] \in Nat /\ off[h] = q + 2 + Len(o[2]) /\ off[h] <= off[n] /\ off[n] \in Nat
    BY <2>3, <1>3, Zenon
  <2>5. r = dhcp_add_option(b, o[1], o[2]) /\ Fits(o)
    BY <2>1, <2>3, <1>1, <1>2, Zenon
  <2>6. off[h] + 1 <= OptLen /\ q <= off[h]
    <3>1. Len(o[2]) \in Nat
      BY <2>5, Lengths, Zenon
    <3> DEFINE l == Len(o[2])
               x == off[h]
               y == off[n]
    <3> HIDE DEF l, x, y, q
    <3>2. l \in Nat /\ x \in Nat /\ y \in Nat /\ q \in Nat /\ x = q + 2 + l /\ x <= y /\ y + 1 <= OptLen
      BY <3>1, <2>4, <1>4, Zenon DEF l, x, y, q
    <3>3. x + 1 <= OptLen /\ q <= x
      BY <3>2, <1>4
    <3>4. QED
      BY <3>3, Zenon DEF x
  <2>7. Open(b, q)
    BY <2>1, Zenon
  <2> HIDE DEF q, o, r
  <2>8. Open(r, q + 2 + Len(o[2])) /\ Placed(r, q, o) /\ Agree(b, r, q)
    <3>1. q + 2 + Len(o[2]) + 1 <= OptLen
      BY <2>4, <2>6, Zenon
    <3>2. QED
      BY <3>1, <2>5, <2>7, OptionAdded, Zenon
  <2>9. ASSUME NEW i \in 1 .. h PROVE off[i] <= off[h] /\ Placed(r, off[i - 1], options[i])
    <3>1. CASE i = h
      <4>1. off[h] <= off[h]
        BY <2>4
      <4>2. QED
        BY <4>1, <3>1, <2>3, <2>8, Zenon DEF q, o
    <3>2. CASE i # h
      <4>1. i \in 1 .. k /\ i \in 1 .. n /\ i \in 0 .. n /\ i - 1 \in 0 .. n
        BY <3>2, <2>3
      <4>2. off[i] <= q /\ Placed(b, off[i - 1], options[i])
        BY <4>1, <2>1, Zenon DEF q
      <4>3. off[i] \in Nat /\ off[i - 1] \in Nat /\ off[i - 1] + 2 + Len(options[i][2]) <= q
        BY <4>1, <4>2, <1>3, Zenon
      <4>4. Placed(r, off[i - 1], options[i])
        <5> DEFINE y == off[i - 1]
                   z == options[i]
        <5>1. /\ y \in Nat /\ Fits(z) /\ Placed(b, y, z) /\ y + 2 + Len(z[2]) <= q
              /\ q \in Nat /\ Agree(b, r, q)
          BY <4>1, <4>2, <4>3, <2>4, <2>8, <1>1, Zenon
        <5> HIDE DEF y, z
        <5>2. Placed(r, y, z)
          BY <5>1, PlacedSame
        <5>3. QED
          BY <5>2, Zenon DEF y, z
      <4>5. off[i] <= off[h]
        BY <4>2, <4>3, <2>4, <2>6, InOrder, Zenon
      <4>6. QED
        BY <4>4, <4>5, Zenon
    <3>3. QED
      BY <3>1, <3>2, Zenon
  <2>10. Open(r, off[h])
    BY <2>4, <2>8, Zenon
  <2>11. Done(h)
    BY <2>9, <2>10, Zenon DEF r
  <2>12. QED
    BY <2>2, <2>11, Zenon
<1>7. Done(n)
  <2> DEFINE S == {k \in Nat : Done(k)}
  <2> HIDE DEF Done
  <2>1. 0 \in S /\ \A k \in Nat : k < n /\ k \in S => k + 1 \in S
    BY <1>5, <1>6
  <2> HIDE DEF S
  <2>2. \A k \in 0 .. n : k \in S
    BY <2>1, <1>1, StepByStep, Zenon
  <2>3. n \in 0 .. n
    BY <1>1
  <2>4. QED
    BY <2>2, <2>3 DEF S
<1>8. n # 0
  BY DEF n
<1>9. Open(A(n), off[n]) /\ \A i \in 1 .. n : Placed(A(n), off[i - 1], options[i])
  BY <1>7, <1>8, Zenon
<1>10. off[n] <= OptLen
  <2>1. n \in 0 .. n
    BY <1>1
  <2>2. off[n] \in Nat
    BY <2>1, <1>3, Zenon
  <2>3. QED
    BY <2>2, <1>4
<1>11. Starting(A(n), options, off)
  BY <1>9, <1>10, Zenon DEF Starting, Laid, n
<1>12. QED
  BY <1>2, <1>9, <1>11, Zenon DEF n

-----------------------------------------------------------------------------
(***************************************************************************)
(* The copy into the frame ends with the first byte that is 255.           *)
(***************************************************************************)
\* Area t is a up to the first such byte, at place c, and cleared behind it.
Cut(a, c, t) ==
  /\ c \in Places
  /\ a[c] = DHCP_OPT_END
  /\ \A j \in 1 .. (c - 1) : a[j] # DHCP_OPT_END
  /\ t \in Areas
  /\ Agree(a, t, c)
  /\ \A j \in (c + 1) .. OptLen : t[j] = DHCP_OPT_PAD

\* So is what msgToHdr makes of an area with such a byte.
LEMMA CutCopy ==
  ASSUME NEW a \in Areas, NEW e \in Places, a[e] = DHCP_OPT_END
  PROVE  \E c : Cut(a, c, msgToHdr(a))
<1> DEFINE ends == {p \in Places : a[p] = DHCP_OPT_END}
           c == Min(ends)
           t == Over(a, c, Zeros)
<1>1. ends # {} /\ ends \in SUBSET Nat
  BY DEF Places
<1>2. c \in ends /\ \A y \in ends : c <= y
  BY <1>1, LeastPlace, Zenon
<1>3. msgToHdr(a) = t
  BY <1>1, Zenon DEF msgToHdr
<1> HIDE DEF c
<1>4. c \in Places /\ a[c] = DHCP_OPT_END
  BY <1>2
<1>5. \A j \in 1 .. (c - 1) : a[j] # DHCP_OPT_END
  <2>1. \A j \in 1 .. (c - 1) : j \in Places /\ ~(c <= j)
    BY <1>4, AreaSize DEF Places
  <2>2. QED
    BY <2>1, <1>2, Zenon
<1>6. c \in Nat /\ c <= OptLen /\ OptLen \in Nat
  BY <1>4, AreaSize DEF Places
<1>7. a \in Seq(Bytes) /\ c <= Len(a) /\ Zeros \in Areas
  BY <1>6, AreaBytes, ZerosArea, Zenon
<1>8. /\ t \in Areas /\ \A j \in 1 .. c : t[j] = a[j]
      /\ \A j \in (c + 1) .. OptLen : t[j] = Zeros[j]
  BY <1>6, <1>7, OverBytes, Zenon
<1> HIDE DEF t
<1>9. \A j \in (c + 1) .. OptLen : t[j] = DHCP_OPT_PAD
  <2>1. \A j \in (c + 1) .. OptLen : j \in Places
    BY <1>6 DEF Places
  <2>2. QED
    BY <2>1, <1>8, ZerosArea, Zenon
<1>10. Cut(a, c, t)
  BY <1>4, <1>5, <1>8, <1>9, Zenon DEF Cut, Agree
<1>11. QED
  BY <1>3, <1>10, Zenon

-----------------------------------------------------------------------------
(***************************************************************************)
(* What parse_frame finds in a copy.                                       *)
(***************************************************************************)
\* Where parse_frame stops: at END, and where an option does not fit.
Halts(a) == {p \in Ends : \/ p >= OptLen
                          \/ a[p] = DHCP_OPT_END
                          \/ a[p] # DHCP_OPT_PAD /\ p + 1 + a[p + 1] > OptLen}

Pads(a) == {p \in Ends : a[p] = DHCP_OPT_PAD}

\* One turn of its loop: the options from place p on.
Turn(a, from) ==
  [p \in Ends |-> IF p \in Halts(a) THEN {}
                  ELSE IF p \in Pads(a) THEN from[Skip(a, p)] ELSE {p} \cup from[Skip(a, p)]]

\* Before a place where it stops, the loop moves on.
LEMMA TurnForward ==
  ASSUME NEW a \in Areas, NEW p \in Ends, p \notin Halts(a)
  PROVE  p \in Places /\ p # OptLen /\ Skip(a, p) \in Ends /\ Skip(a, p) > p
<1>1. p \in Places /\ p # OptLen
  BY AreaSize DEF Halts, Ends, Places
<1>2. QED
  BY <1>1, SkipForward, Zenon

\* The loop ends wherever it starts.
LEMMA TurnsEnd ==
  ASSUME NEW a \in Areas
  PROVE  \E from : from = Turn(a, from)
<1> DEFINE Rest(d) == (OptLen - d) .. (OptLen + 256)
           Here(g, p) == IF p \in Halts(a) THEN {}
                         ELSE IF p \in Pads(a) THEN g[Skip(a, p)] ELSE {p} \cup g[Skip(a, p)]
           Good(d) == \E g : \A p \in Rest(d) : g[p] = Here(g, p)
<1>1. OptLen \in Nat \ {0}
  BY AreaSize
<1>2. Good(0)
  <2>1. \A p \in Rest(0) : p \in Halts(a)
    BY <1>1 DEF Halts, Ends
  <2> HIDE DEF Rest
  <2>2. \A p \in Rest(0) : [x \in Rest(0) |-> {}][p] = {}
    OBVIOUS
  <2>3. QED
    BY <2>1, <2>2
<1>3. ASSUME NEW d \in Nat, d < OptLen - 1, Good(d) PROVE Good(d + 1)
  <2>1. PICK g : \A p \in Rest(d) : g[p] = Here(g, p)
    BY <1>3
  <2> DEFINE q == OptLen - (d + 1)
             v == Here(g, q)
             h == [p \in Rest(d + 1) |-> IF p = q THEN v ELSE g[p]]
  <2>2. q \in Ends /\ q \in Rest(d + 1)
    BY <1>1, <1>3 DEF Ends
  <2>3. \A p \in Rest(d + 1) : p \in Ends /\ (p = q \/ p \in Rest(d))
    BY <1>1, <1>3 DEF Ends
  <2>4. \A p \in Rest(d) : p \in Rest(d + 1) /\ p # q
    BY <1>1, <1>3
  <2>5. \A p \in Rest(d + 1), s \in Ends : s > p => s \in Rest(d)
    BY <1>1, <1>3 DEF Ends
  <2> HIDE DEF Rest, q, v
  <2>6. h[q] = v /\ \A p \in Rest(d) : h[p] = g[p]
    BY <2>2, <2>4
  <2> HIDE DEF h
  <2>7. ASSUME NEW p \in Rest(d + 1) PROVE h[p] = Here(g, p) /\ Here(h, p) = Here(g, p)
    <3>1. h[p] = Here(g, p)
      <4>1. CASE p = q
        BY <4>1, <2>6, Zenon DEF v
      <4>2. CASE p \in Rest(d)
        BY <4>2, <2>1, <2>6, Zenon
      <4>3. QED
        BY <4>1, <4>2, <2>3, Zenon
    <3>2. p \notin Halts(a) => h[Skip(a, p)] = g[Skip(a, p)]
      BY <2>3, <2>5, <2>6, TurnForward, Zenon
    <3>3. QED
      BY <3>1, <3>2, Zenon
  <2>8. \A p \in Rest(d + 1) : h[p] = Here(h, p)
    BY <2>7, Zenon
  <2>9. QED
    BY <2>8, Zenon
<1>4. Good(OptLen - 1)
  <2> DEFINE S == {k \in Nat : Good(k)}
             N == OptLen - 1
  <2> HIDE DEF Good
  <2>1. N \in Nat /\ N \in 0 .. N
    BY <1>1
  <2>2. 0 \in S /\ \A k \in Nat : k < N /\ k \in S => k + 1 \in S
    BY <1>2, <1>3
  <2> HIDE DEF S, N
  <2>3. \A k \in 0 .. N : k \in S
    BY <2>1, <2>2, StepByStep, Zenon
  <2>4. QED
    BY <2>1, <2>3 DEF S, N
<1>5. PICK g : \A p \in Ends : g[p] = Here(g, p)
  <2>1. Rest(OptLen - 1) = Ends
    BY <1>1 DEF Ends
  <2>2. QED
    BY <2>1, <1>4, Zenon
<1> DEFINE f == [p \in Ends |-> g[p]]
<1>6. \A p \in Ends : f[p] = g[p]
  OBVIOUS
<1>7. f = [p \in Ends |-> f[p]]
  OBVIOUS
<1> HIDE DEF f
<1>8. ASSUME NEW p \in Ends PROVE f[p] = Here(f, p)
  <2>1. p \notin Halts(a) => f[Skip(a, p)] = g[Skip(a, p)]
    BY <1>6, TurnForward, Zenon
  <2>2. QED
    BY <2>1, <1>5, <1>6, Zenon
<1>9. f = [p \in Ends |-> Here(f, p)]
  <2> HIDE DEF Here
  <2>1. QED
    BY <1>7, <1>8
<1>10. QED
  BY <1>9, Zenon DEF Turn

\* The places of the options from p on.
From(a) == CHOOSE from : from = Turn(a, from)

\* The places of the options are found by one turn after the other.
LEMMA StartsUnfold ==
  ASSUME NEW a \in Areas
  PROVE  /\ Starts(a) = From(a)[1]
         /\ \A p \in Ends : p >= OptLen \/ a[p] = DHCP_OPT_END => From(a)[p] = {}
         /\ \A p \in Places : p # OptLen /\ a[p] = DHCP_OPT_PAD => From(a)[p] = From(a)[p + 1]
         /\ \A p \in Places : /\ p # OptLen /\ a[p] # DHCP_OPT_PAD /\ a[p] # DHCP_OPT_END
                              /\ p + 1 + a[p + 1] <= OptLen
                              => From(a)[p] = {p} \cup From(a)[p + 2 + a[p + 1]]
<1> DEFINE Here(f, p) == IF p >= OptLen \/ a[p] = DHCP_OPT_END THEN {}
                         ELSE IF a[p] = DHCP_OPT_PAD THEN f[p + 1]
                         ELSE IF p + 1 + a[p + 1] > OptLen THEN {}
                         ELSE {p} \cup f[p + 2 + a[p + 1]]
           There(f, p) == IF p \in Halts(a) THEN {}
                          ELSE IF p \in Pads(a) THEN f[Skip(a, p)] ELSE {p} \cup f[Skip(a, p)]
<1>1. ASSUME NEW f, NEW p \in Ends PROVE Here(f, p) = There(f, p)
  <2>1. p \in Halts(a) <=> \/ p >= OptLen \/ a[p] = DHCP_OPT_END
                           \/ a[p] # DHCP_OPT_PAD /\ p + 1 + a[p + 1] > OptLen
    BY Zenon DEF Halts
  <2>2. p \in Pads(a) <=> a[p] = DHCP_OPT_PAD
    BY Zenon DEF Pads
  <2>3. DHCP_OPT_PAD # DHCP_OPT_END
    BY DEF DHCP_OPT_PAD, DHCP_OPT_END
  <2>4. p \notin Halts(a) => Skip(a, p) = IF a[p] = DHCP_OPT_PAD THEN p + 1 ELSE p + 2 + a[p + 1]
    BY TurnForward, Zenon DEF Skip
  <2>5. CASE p \in Halts(a)
    BY <2>5, <2>1, Zenon
  <2>6. CASE p \notin Halts(a) /\ a[p] = DHCP_OPT_PAD
    BY <2>6, <2>1, <2>2, <2>4, Zenon
  <2>7. CASE p \notin Halts(a) /\ a[p] # DHCP_OPT_PAD
    BY <2>7, <2>1, <2>2, <2>4, Zenon
  <2>8. QED
    BY <2>5, <2>6, <2>7, Zenon
<1>2. ASSUME NEW f PROVE [p \in Ends |-> Here(f, p)] = Turn(a, f)
  <2>1. Turn(a, f) = [p \in Ends |-> There(f, p)]
    BY Zenon DEF Turn
  <2> HIDE DEF Here, There
  <2>2. QED
    BY <2>1, <1>1
<1>3. Starts(a) = (CHOOSE f : f = [p \in Ends |-> Here(f, p)])[1]
  BY DEF Starts, Ends
<1>4. (CHOOSE f : f = [p \in Ends |-> Here(f, p)]) = From(a)
  <2> HIDE DEF Here
  <2>1. \A f : f = [p \in Ends |-> Here(f, p)] <=> f = Turn(a, f)
    BY <1>2, Zenon
  <2>2. QED
    BY <2>1 DEF From
<1>5. From(a) = Turn(a, From(a))
  BY TurnsEnd, Zenon DEF From
<1>6. \A p \in Ends : From(a)[p] = Here(From(a), p)
  <2>1. From(a) = [p \in Ends |-> Here(From(a), p)]
    <3> HIDE DEF Here
    <3>1. QED
      BY <1>2, <1>5, Zenon
  <2> DEFINE f == From(a)
  <2> HIDE DEF Here, f
  <2>2. f = [p \in Ends |-> Here(f, p)]
    BY <2>1, Zenon DEF f
  <2>3. \A p \in Ends : f[p] = Here(f, p)
    BY <2>2
  <2>4. QED
    BY <2>3, Zenon DEF f
<1>7. \A p \in Places : p \in Ends /\ (p # OptLen => ~(p >= OptLen))
  BY AreaSize DEF Places, Ends
<1>8. DHCP_OPT_PAD # DHCP_OPT_END
  BY DEF DHCP_OPT_PAD, DHCP_OPT_END
<1>9. \A p \in Ends : p >= OptLen \/ a[p] = DHCP_OPT_END => From(a)[p] = {}
  BY <1>6, Zenon
<1>10. \A p \in Places : p # OptLen /\ a[p] = DHCP_OPT_PAD => From(a)[p] = From(a)[p + 1]
  BY <1>6, <1>7, <1>8, Zenon
<1>11. ASSUME NEW p \in Places, p # OptLen, a[p] # DHCP_OPT_PAD, a[p] # DHCP_OPT_END,
              p + 1 + a[p + 1] <= OptLen
       PROVE  From(a)[p] = {p} \cup From(a)[p + 2 + a[p + 1]]
  <2>1. ~(p + 1 + a[p + 1] > OptLen)
    <3>1. a[p + 1] \in Nat
      <4>1. p + 1 \in Places
        BY <1>11, AreaSize DEF Places
      <4>2. a[p + 1] \in Bytes
        BY <4>1 DEF Areas
      <4>3. QED
        BY <4>2 DEF Bytes
    <3> DEFINE x == a[p + 1]
    <3> HIDE DEF x
    <3>2. x \in Nat /\ p + 1 + x <= OptLen /\ p \in Nat
      BY <3>1, <1>11 DEF x, Places
    <3>3. ~(p + 1 + x > OptLen)
      BY <3>2, AreaSize
    <3>4. QED
      BY <3>3, Zenon DEF x
  <2>2. QED
    BY <2>1, <1>6, <1>7, <1>11, Zenon
<1>12. QED
  BY <1>3, <1>4, <1>9, <1>10, <1>11, Zenon

\* There are no options in padding.
LEMMA PaddingEmpty ==
  ASSUME NEW a \in Areas, NEW e \in 0 .. OptLen, \A p \in (e + 1) .. OptLen : a[p] = DHCP_OPT_PAD
  PROVE  From(a)[e + 1] = {}
<1> DEFINE N == OptLen - e
           S == {k \in Nat : k <= N => From(a)[e + 1] = {} \/ From(a)[e + 1] = From(a)[e + 1 + k]}
<1>1. N \in Nat /\ e \in Nat /\ OptLen \in Nat
  BY AreaSize
<1>2. 0 \in S
  <2>1. e + 1 + 0 = e + 1
    BY <1>1
  <2>2. QED
    BY <2>1
<1>3. ASSUME NEW k \in Nat, k < N, k \in S PROVE k + 1 \in S
  <2> DEFINE p == e + 1 + k
  <2>1. p \in Places /\ p \in (e + 1) .. OptLen /\ k <= N /\ e + 1 + (k + 1) = p + 1
    BY <1>1, <1>3 DEF Places
  <2> HIDE DEF p
  <2>2. a[p] = DHCP_OPT_PAD
    BY <2>1, Zenon
  <2>3. From(a)[p] = {} \/ From(a)[p] = From(a)[p + 1]
    <3>1. p = OptLen => p \in Ends /\ p >= OptLen
      BY <1>1, <2>1 DEF Ends, Places
    <3>2. QED
      BY <3>1, <2>1, <2>2, StartsUnfold, Zenon
  <2>4. From(a)[e + 1] = {} \/ From(a)[e + 1] = From(a)[p]
    BY <2>1, <1>3, Zenon DEF p
  <2>5. From(a)[e + 1] = {} \/ From(a)[e + 1] = From(a)[e + 1 + (k + 1)]
    BY <2>1, <2>3, <2>4, Zenon
  <2>6. QED
    BY <2>5
<1>4. N \in S
  <2> HIDE DEF S, N
  <2>1. \A k \in 0 .. N : k \in S
    BY <1>1, <1>2, <1>3, StepByStep, Zenon
  <2>2. N \in 0 .. N
    BY <1>1
  <2>3. QED
    BY <2>1, <2>2, Zenon
<1>5. N <= N /\ e + 1 + N = OptLen + 1 /\ OptLen + 1 \in Ends /\ OptLen + 1 >= OptLen
  BY <1>1 DEF Ends
<1>6. From(a)[e + 1] = {} \/ From(a)[e + 1] = From(a)[OptLen + 1]
  <2> HIDE DEF N
  <2>1. QED
    BY <1>4, <1>5, Zenon
<1>7. QED
  BY <1>5, <1>6, StartsUnfold, Zenon

\* An option before the cut is found in the copy, and one behind it ends the search.
LEMMA OptionMarked ==
  ASSUME NEW a \in Areas, NEW c, NEW t, Cut(a, c, t), NEW q, NEW o, Lies(a, q, o)
  PROVE  /\ q + 1 < c => From(t)[q + 1] = {q + 1} \cup From(t)[q + 2 + Len(o[2]) + 1]
         /\ ~(q + 1 < c) => From(t)[q + 1] = {}
<1> DEFINE l == Len(o[2])
<1>1. q \in Nat /\ l \in Nat /\ o[1] \in Codes /\ a[q + 1] = o[1] /\ a[q + 2] = l
  BY Lengths, Zenon DEF Lies, Fits, Placed
<1>2. q + 2 + l <= OptLen
  BY Zenon DEF Lies
<1> HIDE DEF l
<1>3. t \in Areas /\ c \in Places /\ a[c] = DHCP_OPT_END
  BY Zenon DEF Cut
<1>4. q \in Nat /\ l \in Nat /\ c \in Nat /\ OptLen \in Nat /\ c <= OptLen
  BY <1>1, <1>3, AreaSize DEF Places
<1>5. o[1] # DHCP_OPT_PAD /\ o[1] # DHCP_OPT_END
  BY <1>1, ProperCodes, Zenon
<1>6. CASE q + 1 < c
  <2>1. /\ q + 1 \in 1 .. c /\ q + 2 \in 1 .. c /\ q + 1 \in Places /\ q + 1 # OptLen
        /\ q + 1 + 1 = q + 2 /\ q + 1 + 1 + l <= OptLen /\ q + 1 + 2 + l = q + 2 + l + 1
    BY <1>2, <1>4, <1>6 DEF Places
  <2>2. t[q + 1] = o[1] /\ t[q + 1 + 1] = l
    BY <2>1, <1>1, Zenon DEF Cut, Agree
  <2>3. t[q + 1] # DHCP_OPT_PAD /\ t[q + 1] # DHCP_OPT_END /\ q + 1 + 1 + t[q + 1 + 1] <= OptLen
    BY <2>1, <2>2, <1>5, Zenon
  <2>4. From(t)[q + 1] = {q + 1} \cup From(t)[q + 1 + 2 + t[q + 1 + 1]]
    <3> DEFINE p == q + 1
    <3>1. /\ p \in Places /\ p # OptLen /\ t[p] # DHCP_OPT_PAD /\ t[p] # DHCP_OPT_END
          /\ p + 1 + t[p + 1] <= OptLen
      BY <2>1, <2>3, Zenon
    <3> HIDE DEF p
    <3>2. From(t)[p] = {p} \cup From(t)[p + 2 + t[p + 1]]
      BY <3>1, <1>3, StartsUnfold, Zenon
    <3>3. QED
      BY <3>2, Zenon DEF p
  <2>5. QED
    BY <2>1, <2>2, <2>4, <1>6, Zenon DEF l
<1>7. CASE ~(q + 1 < c)
  <2>1. q + 1 # c
    BY <1>1, <1>3, <1>5, Zenon
  <2>2. q \in 0 .. OptLen /\ \A p \in (q + 1) .. OptLen : p \in (c + 1) .. OptLen
    BY <2>1, <1>2, <1>4, <1>7
  <2>3. \A p \in (q + 1) .. OptLen : t[p] = DHCP_OPT_PAD
    BY <2>2, Zenon DEF Cut
  <2>4. From(t)[q + 1] = {}
    BY <2>2, <2>3, <1>3, PaddingEmpty, Zenon
  <2>5. QED
    BY <2>4, <1>7, Zenon
<1>8. QED
  BY <1>6, <1>7, Zenon

\* The options of a copy are those that begin before the cut.
LEMMA StartsOfCut ==
  ASSUME NEW a, NEW options, WellFormed(options), NEW off, Starting(a, options, off),
         Open(a, off[Len(options)]), NEW c, NEW t, Cut(a, c, t)
  PROVE  /\ \A p \in Starts(t) : \E i \in 1 .. Len(options) : p = off[i - 1] + 1
         /\ \A i \in 1 .. Len(options) : off[i - 1] + 1 < c => off[i - 1] + 1 \in Starts(t)
<1> DEFINE n == Len(options)
           F(k) == From(t)[off[k] + 1]
           P == {off[i - 1] + 1 : i \in 1 .. n}
<1>1. n \in Nat /\ a \in Areas /\ t \in Areas /\ c \in Places
  BY OptionsFit, Zenon DEF Open, Cut
<1>2. off[0] = 0 /\ \A i \in 0 .. n : off[i] \in Nat
  BY OffsetsGrow, Zenon DEF Starting, Offsets
<1>3. ASSUME NEW i \in 1 .. n
      PROVE  /\ off[i - 1] + 1 < c => F(i - 1) = {off[i - 1] + 1} \cup F(i)
             /\ ~(off[i - 1] + 1 < c) => F(i - 1) = {}
             /\ off[i] = off[i - 1] + 2 + Len(options[i][2]) /\ Len(options[i][2]) \in Nat
  <2> DEFINE q == off[i - 1]
             o == options[i]
  <2>1. Lies(a, q, o) /\ off[i] = q + 2 + Len(o[2])
    BY OptionsLie
  <2>2. Len(o[2]) \in Nat
    BY <2>1, Lengths, Zenon DEF Lies
  <2> HIDE DEF q, o
  <2>3. /\ q + 1 < c => From(t)[q + 1] = {q + 1} \cup From(t)[q + 2 + Len(o[2]) + 1]
        /\ ~(q + 1 < c) => From(t)[q + 1] = {}
    BY <2>1, <1>1, OptionMarked, Zenon
  <2>4. /\ q + 1 < c => From(t)[q + 1] = {q + 1} \cup From(t)[off[i] + 1]
        /\ ~(q + 1 < c) => From(t)[q + 1] = {}
    BY <2>1, <2>3, Zenon
  <2>5. QED
    BY <2>1, <2>2, <2>4, Zenon DEF q, o
<1>4. F(n) = {}
  <2> DEFINE e == off[n]
  <2>1. n \in 0 .. n
    BY <1>1
  <2>2. e \in Nat /\ e + 1 \in Places /\ a[e + 1] = DHCP_OPT_END
    BY <2>1, <1>2, Zenon DEF Open
  <2> HIDE DEF e
  <2>3. e \in 0 .. OptLen /\ e + 1 \in Ends /\ c \in Nat /\ OptLen \in Nat
    BY <2>2, <1>1, AreaSize DEF Places, Ends
  <2>4. CASE e + 1 < c
    <3>1. e + 1 \in 1 .. (c - 1)
      BY <2>3, <2>4
    <3>2. QED
      BY <3>1, <2>2, Zenon DEF Cut
  <2>5. CASE e + 1 = c
    <3>1. e + 1 \in 1 .. c
      BY <2>3, <2>5
    <3>2. t[e + 1] = DHCP_OPT_END
      BY <3>1, <2>2, Zenon DEF Cut, Agree
    <3>3. From(t)[e + 1] = {}
      BY <3>2, <2>3, <1>1, StartsUnfold, Zenon
    <3>4. QED
      BY <3>3, Zenon DEF e
  <2>6. CASE ~(e + 1 < c) /\ e + 1 # c
    <3>1. \A p \in (e + 1) .. OptLen : p \in (c + 1) .. OptLen
      BY <2>3, <2>6
    <3>2. \A p \in (e + 1) .. OptLen : t[p] = DHCP_OPT_PAD
      BY <3>1, Zenon DEF Cut
    <3>3. From(t)[e + 1] = {}
      BY <3>2, <2>3, <1>1, PaddingEmpty, Zenon
    <3>4. QED
      BY <3>3, Zenon DEF e
  <2>7. QED
    BY <2>4, <2>5, <2>6, Zenon
<1>5. Starts(t) = F(0)
  <2>1. 0 + 1 = 1
    OBVIOUS
  <2>2. QED
    BY <2>1, <1>1, <1>2, StartsUnfold, Zenon
<1> HIDE DEF n, F
<1>6. F(0) \subseteq P
  <2> DEFINE S == {k \in Nat : k <= n => F(n - k) \subseteq P}
  <2>1. 0 \in S
    <3>1. n - 0 = n
      BY <1>1
    <3>2. QED
      BY <3>1, <1>4
  <2>2. ASSUME NEW k \in Nat, k < n, k \in S PROVE k + 1 \in S
    <3>1. PICK i \in 1 .. n : i = n - k
      BY <2>2, <1>1
    <3>2. k <= n /\ n - (k + 1) = i - 1
      BY <2>2, <3>1, <1>1
    <3>3. F(i) \subseteq P
      BY <3>1, <3>2, <2>2, Zenon
    <3>4. off[i - 1] + 1 \in P
      OBVIOUS
    <3> HIDE DEF P
    <3>5. F(i - 1) \subseteq P
      BY <3>3, <3>4, <1>3, Zenon
    <3>6. F(n - (k + 1)) \subseteq P
      BY <3>2, <3>5, Zenon
    <3>7. QED
      BY <3>6
  <2>3. n \in S
    <3> HIDE DEF S, P
    <3>1. \A k \in 0 .. n : k \in S
      BY <2>1, <2>2, <1>1, StepByStep, Zenon
    <3>2. n \in 0 .. n
      BY <1>1
    <3>3. QED
      BY <3>1, <3>2, Zenon
  <2>4. n <= n /\ n - n = 0
    BY <1>1
  <2> HIDE DEF P
  <2>5. QED
    BY <2>3, <2>4, Zenon
<1>7. ASSUME NEW i \in 1 .. n, off[i - 1] + 1 < c PROVE off[i - 1] + 1 \in F(0)
  <2> DEFINE S == {k \in Nat : k < n /\ off[k] + 1 < c => F(k) \subseteq F(0)}
  <2>1. 0 \in S
    OBVIOUS
  <2>2. ASSUME NEW k \in Nat, k < n, k \in S PROVE k + 1 \in S
    <3>1. SUFFICES ASSUME k + 1 < n, off[k + 1] + 1 < c PROVE F(k + 1) \subseteq F(0)
      OBVIOUS
    <3>2. PICK h \in 1 .. n : h = k + 1 /\ h - 1 = k
      BY <2>2, <1>1
    <3> DEFINE x == off[k]
               y == off[h]
               l == Len(options[h][2])
    <3>3. y = x + 2 + l /\ l \in Nat /\ y + 1 < c
      BY <3>1, <3>2, <1>3, Zenon
    <3>4. x \in Nat
      <4>1. k \in 0 .. n
        BY <2>2, <1>1
      <4>2. QED
        BY <4>1, <1>2, Zenon
    <3> HIDE DEF x, y, l
    <3>5. x + 1 < c
      <4>1. c \in Nat
        BY <1>1, AreaSize DEF Places
      <4>2. QED
        BY <4>1, <3>3, <3>4
    <3>6. F(k) \subseteq F(0)
      BY <3>5, <2>2, Zenon DEF x
    <3>7. F(k) = {x + 1} \cup F(h)
      BY <3>2, <3>5, <1>3, Zenon DEF x
    <3>8. QED
      BY <3>2, <3>6, <3>7, Zenon
  <2>3. \A k \in 0 .. n : k \in S
    <3> HIDE DEF S
    <3>1. QED
      BY <2>1, <2>2, <1>1, StepByStep, Zenon
  <2>4. PICK k \in 0 .. n : k = i - 1 /\ k < n
    BY <1>1
  <2>5. F(k) \subseteq F(0)
    BY <2>3, <2>4, <1>7, Zenon
  <2>6. F(i - 1) = {off[i - 1] + 1} \cup F(i)
    BY <1>3, <1>7, Zenon
  <2>7. QED
    BY <2>4, <2>5, <2>6, Zenon
<1>8. QED
  BY <1>5, <1>6, <1>7, Zenon DEF n

\* The largest element of a set of one number.
LEMMA OnlyPlace == \A x \in Nat : Max({x}) = x
BY DEF Max

\* The first byte that is 255 is behind an option that has none.
LEMMA CutBehind ==
  ASSUME NEW a, NEW q, NEW o, Lies(a, q, o), Len(o[2]) # DHCP_OPT_END,
         \A j \in 1 .. Len(o[2]) : o[2][j] # DHCP_OPT_END,
         NEW c \in Nat, a[c] = DHCP_OPT_END, q < c
  PROVE  q + 2 + Len(o[2]) < c
<1> DEFINE l == Len(o[2])
           E == DHCP_OPT_END
<1>1. q \in Nat /\ l \in Nat
  BY Lengths, Zenon DEF Lies
<1>2. a[q + 1] # E /\ a[q + 2] # E /\ \A j \in 1 .. l : a[q + 2 + j] # E
  BY ProperCodes, Zenon DEF Lies, Fits, Placed
<1>3. a[c] = E
  BY Zenon
<1> HIDE DEF l, E
<1>4. c # q + 1 /\ c # q + 2 /\ \A j \in 1 .. l : c # q + 2 + j
  BY <1>2, <1>3, Zenon
<1>5. q + 2 + l < c
  <2> SUFFICES ASSUME ~(q + 2 + l < c) PROVE FALSE
    OBVIOUS
  <2>1. c - (q + 2) \in 1 .. l /\ c = q + 2 + (c - (q + 2))
    BY <1>1, <1>4
  <2>2. QED
    BY <2>1, <1>4, Zenon
<1>6. QED
  BY <1>5, Zenon DEF l

\* The h-th option is the only one with its code.
Only(options, h) == \A i \in 1 .. Len(options) : options[i][1] = options[h][1] => i = h

\* Area t is the copy of a list of options that were added to an area.
Copied(a, options, off, c, t) ==
  /\ WellFormed(options)
  /\ Starting(a, options, off)
  /\ Open(a, off[Len(options)])
  /\ Cut(a, c, t)

\* Reading t for an option like o yields the data of o.
Reads(t, o) == \A none : LastOption(t, o[1], Len(o[2]), none) = o[2]

\* The client reads an option that is whole in the copy and the only one with its code.
LEMMA ReadBack ==
  ASSUME NEW a, NEW options, NEW off, NEW c, NEW t, Copied(a, options, off, c, t),
         NEW h \in 1 .. Len(options), Only(options, h), off[h] < c
  PROVE  Reads(t, options[h])
<1> WellFormed(options) /\ Starting(a, options, off) /\ Open(a, off[Len(options)]) /\ Cut(a, c, t)
  BY Zenon DEF Copied
<1> SUFFICES ASSUME NEW none
             PROVE  LastOption(t, options[h][1], Len(options[h][2]), none) = options[h][2]
  BY Zenon DEF Reads
<1> DEFINE n == Len(options)
           q == off[h - 1]
           o == options[h]
           l == Len(o[2])
           hits == {p \in Starts(t) : t[p] = o[1] /\ t[p + 1] = l}
<1>0. /\ \A p \in Starts(t) : \E i \in 1 .. n : p = off[i - 1] + 1
      /\ \A i \in 1 .. n : off[i - 1] + 1 < c => off[i - 1] + 1 \in Starts(t)
  BY StartsOfCut, Zenon
<1>1. Lies(a, q, o) /\ off[h] = q + 2 + l
  BY OptionsLie
<1>2. q \in Nat /\ l \in Nat /\ Fits(o) /\ o[1] \in Codes /\ Placed(a, q, o)
  BY <1>1, Lengths, Zenon DEF Lies, Fits
<1>3. t \in Areas /\ c \in Places /\ Agree(a, t, c)
  BY Zenon DEF Cut
<1>4. q + 2 + l < c /\ q + 2 + l <= OptLen
  BY <1>1, Zenon DEF Lies
<1> HIDE DEF l
<1>5. c \in Nat /\ q + 1 < c /\ q + 2 + l <= c /\ q + 1 \in Nat /\ q + 1 + 1 = q + 2
  <2> HIDE DEF q
  <2>1. c \in Nat
    BY <1>3, AreaSize DEF Places
  <2>2. q \in Nat /\ l \in Nat /\ q + 2 + l < c
    BY <1>2, <1>4, Zenon
  <2>3. QED
    BY <2>1, <2>2
<1>6. Placed(t, q, o)
  <2>1. q + 2 + Len(o[2]) <= c
    BY <1>5, Zenon DEF l
  <2> HIDE DEF q, o
  <2>2. QED
    BY <2>1, <1>2, <1>3, <1>5, PlacedSame, Zenon
<1>7. Lies(t, q, o)
  BY <1>2, <1>4, <1>6, Zenon DEF Lies, l
<1>8. Data(t, q + 1) = o[2]
  BY <1>3, <1>7, DataFound, Zenon
<1>9. q + 1 \in hits
  <2>1. q + 1 \in Starts(t)
    BY <1>0, <1>5, Zenon
  <2>2. t[q + 1] = o[1] /\ t[q + 1 + 1] = l
    BY <1>5, <1>6, Zenon DEF Placed, l
  <2>3. QED
    BY <2>1, <2>2, Zenon
<1>10. ASSUME NEW p \in hits PROVE p = q + 1
  <2>1. p \in Starts(t) /\ t[p] = o[1]
    BY <1>10, Zenon
  <2>2. PICK i \in 1 .. n : p = off[i - 1] + 1
    BY <2>1, <1>0, Zenon
  <2> DEFINE x == off[i - 1]
             y == Len(options[i][2])
  <2>3. Lies(a, x, options[i])
    BY OptionsLie, Zenon
  <2>4. x \in Nat /\ y \in Nat /\ x + 2 + y <= OptLen /\ a[x + 1] = options[i][1]
    BY <2>3, Lengths, Zenon DEF Lies, Placed
  <2> HIDE DEF x, y
  <2>5. x + 1 \in (c + 1) .. OptLen \/ x + 1 \in 1 .. c
    BY <2>4, <1>5, AreaSize
  <2>6. t[x + 1] # DHCP_OPT_PAD
    BY <2>1, <2>2, <1>2, ProperCodes, Zenon DEF x
  <2>7. x + 1 \in 1 .. c
    BY <2>5, <2>6, Zenon DEF Cut
  <2>8. options[i][1] = o[1]
    BY <2>1, <2>2, <2>4, <2>7, <1>3, Zenon DEF Agree, x
  <2>9. i = h
    BY <2>8, Zenon DEF Only
  <2>10. QED
    BY <2>2, <2>9, Zenon
<1>11. hits = {q + 1}
  BY <1>9, <1>10, Zenon
<1>12. LastOption(t, o[1], l, none) = IF hits = {} THEN none ELSE Data(t, Max(hits))
  BY Zenon DEF LastOption
<1> HIDE DEF hits
<1>13. Max(hits) = q + 1 /\ hits # {}
  BY <1>5, <1>9, <1>11, OnlyPlace, Zenon
<1>14. QED
  BY <1>8, <1>12, <1>13, Zenon DEF l

\* No byte of option o is 255.
Plain(o) == Len(o[2]) # DHCP_OPT_END /\ \A j \in 1 .. Len(o[2]) : o[2][j] # DHCP_OPT_END

\* So the client reads what was added up to the last option without such a byte.
LEMMA SentRead ==
  ASSUME NEW options, WellFormed(options), NEW off, Offsets(options, off),
         off[Len(options)] + 1 <= OptLen, NEW h \in 1 .. Len(options), Only(options, h),
         \A i \in 1 .. h : Plain(options[i])
  PROVE  Reads(msgToHdr(AddAll(options)), options[h])
<1> DEFINE n == Len(options)
           a == AddAll(options)
           t == msgToHdr(a)
<1>1. n \in Nat /\ n # 0
  BY OptionsFit
<1>2. Open(a, off[n]) /\ Starting(a, options, off)
  BY <1>1, AllAdded, Zenon
<1> HIDE DEF a
<1>3. PICK c : Cut(a, c, t)
  BY <1>2, CutCopy, Zenon DEF Open
<1>4. c \in Nat \ {0} /\ a[c] = DHCP_OPT_END
  <2>1. c \in Places /\ a[c] = DHCP_OPT_END
    BY <1>3, Zenon DEF Cut
  <2>2. QED
    BY <2>1, AreaSize DEF Places
<1>5. ASSUME NEW i \in 1 .. n
      PROVE  Lies(a, off[i - 1], options[i]) /\ off[i] = off[i - 1] + 2 + Len(options[i][2])
  BY <1>2, OptionsLie
<1> DEFINE S == {k \in Nat : off[k] < c}
<1>6. 0 \in S
  <2>1. off[0] = 0
    BY Zenon DEF Offsets
  <2>2. QED
    BY <2>1, <1>4
<1>7. ASSUME NEW k \in Nat, k < h, k \in S PROVE k + 1 \in S
  <2>1. PICK i \in 1 .. h : i = k + 1 /\ i - 1 = k /\ i \in 1 .. n
    BY <1>7, <1>1
  <2> DEFINE q == off[k]
             o == options[i]
  <2>2. Lies(a, q, o) /\ off[i] = q + 2 + Len(o[2]) /\ Plain(o) /\ q < c
    BY <2>1, <1>5, <1>7, Zenon
  <2>3. c \in Nat
    BY <1>4
  <2> HIDE DEF q, o
  <2>4. q + 2 + Len(o[2]) < c
    BY <2>2, <2>3, <1>4, CutBehind, Zenon DEF Plain
  <2>5. off[k + 1] < c
    BY <2>1, <2>2, <2>4, Zenon
  <2>6. QED
    BY <2>5
<1>8. off[h] < c
  <2>1. h \in Nat /\ h \in 0 .. h
    BY <1>1
  <2>2. h \in S
    <3> HIDE DEF S
    <3>1. QED
      BY <2>1, <1>6, <1>7, StepByStep, Zenon
  <2>3. QED
    BY <2>2
<1>9. Reads(t, options[h])
  <2>1. Copied(a, options, off, c, t)
    BY <1>2, <1>3, Zenon DEF Copied
  <2> HIDE DEF t, n
  <2>2. QED
    BY <2>1, <1>8, ReadBack
<1>10. QED
  BY <1>9, Zenon DEF a

-----------------------------------------------------------------------------
(***************************************************************************)
(* The options of the replies.                                             *)
(***************************************************************************)
FourBytes == {b \in Seq(Bytes) : Len(b) = 4}

\* A number has four bytes.
LEMMA NumberBytes ==
  ASSUME NEW n \in Nat
  PROVE  uint32_to_ip(n) \in FourBytes
<1>1. 2^24 \in Nat \ {0} /\ 2^16 \in Nat \ {0} /\ 2^8 \in Nat \ {0}
  OBVIOUS
<1>2. \A x \in Nat, y \in Nat \ {0} : x \div y \in Nat
  OBVIOUS
<1>3. \A x \in Nat : x % 256 \in Bytes
  BY DEF Bytes
<1>4. /\ (n \div 2^24) % 256 \in Bytes /\ (n \div 2^16) % 256 \in Bytes
      /\ (n \div 2^8) % 256 \in Bytes /\ n % 256 \in Bytes
  BY <1>1, <1>2, <1>3, Zenon
<1>5. \A x, y, z, w \in Bytes : <<x, y, z, w>> \in Seq(Bytes) /\ Len(<<x, y, z, w>>) = 4
  OBVIOUS
<1> DEFINE x == (n \div 2^24) % 256
           y == (n \div 2^16) % 256
           z == (n \div 2^8) % 256
           w == n % 256
<1>6. uint32_to_ip(n) = <<x, y, z, w>>
  BY Zenon DEF uint32_to_ip
<1>7. x \in Bytes /\ y \in Bytes /\ z \in Bytes /\ w \in Bytes
  BY <1>4, Zenon
<1> HIDE DEF x, y, z, w
<1>8. <<x, y, z, w>> \in Seq(Bytes) /\ Len(<<x, y, z, w>>) = 4
  BY <1>5, <1>7, Zenon
<1>9. QED
  BY <1>6, <1>8, Zenon DEF FourBytes

\* The options of an OFFER and an ACK.
LeaseList(type, b2, b3, b4, b5, b6) ==
  << <<DHCP_OPT_MESSAGE_TYPE, <<type>>>>, <<DHCP_OPT_SERVER_ID, b2>>, <<DHCP_OPT_SUBNET_MASK, b3>>,
     <<DHCP_OPT_ROUTER, b4>>, <<DHCP_OPT_DNS_SERVER, b5>>, <<DHCP_OPT_LEASE_TIME, b6>> >>

\* Of the six options of L, in 33 bytes, the first has the type and the second b.
SixOptions(L, type, b) ==
  /\ WellFormed(L) /\ Len(L) = 6
  /\ L[1] = <<DHCP_OPT_MESSAGE_TYPE, <<type>>>> /\ L[2] = <<DHCP_OPT_SERVER_ID, b>>
  /\ Only(L, 1) /\ Only(L, 2)
  /\ \E off : Offsets(L, off) /\ off[6] = 33

\* A type and five options of four bytes are such a list.
LEMMA LeaseOptions ==
  ASSUME NEW type \in Bytes, NEW b2 \in FourBytes, NEW b3 \in FourBytes, NEW b4 \in FourBytes,
         NEW b5 \in FourBytes, NEW b6 \in FourBytes
  PROVE  SixOptions(LeaseList(type, b2, b3, b4, b5, b6), type, b2)
<1> DEFINE O == Codes \X Seq(Bytes)
           L == LeaseList(type, b2, b3, b4, b5, b6)
<1>0. /\ b2 \in Seq(Bytes) /\ b3 \in Seq(Bytes) /\ b4 \in Seq(Bytes)
      /\ b5 \in Seq(Bytes) /\ b6 \in Seq(Bytes)
      /\ Len(b2) = 4 /\ Len(b3) = 4 /\ Len(b4) = 4 /\ Len(b5) = 4 /\ Len(b6) = 4
  BY Zenon DEF FourBytes
<1>1. <<type>> \in Seq(Bytes) /\ Len(<<type>>) = 1
  OBVIOUS
<1>2. /\ Len(L) = 6 /\ DOMAIN L = 1 .. 6
      /\ L[1] = <<DHCP_OPT_MESSAGE_TYPE, <<type>>>> /\ L[2] = <<DHCP_OPT_SERVER_ID, b2>>
      /\ L[3] = <<DHCP_OPT_SUBNET_MASK, b3>> /\ L[4] = <<DHCP_OPT_ROUTER, b4>>
      /\ L[5] = <<DHCP_OPT_DNS_SERVER, b5>> /\ L[6] = <<DHCP_OPT_LEASE_TIME, b6>>
      /\ L = <<L[1], L[2], L[3], L[4], L[5], L[6]>>
  BY DEF LeaseList
<1> HIDE DEF L
<1>3. /\ L[1][1] = 53 /\ L[2][1] = 54 /\ L[3][1] = 1 /\ L[4][1] = 3 /\ L[5][1] = 6 /\ L[6][1] = 51
  BY <1>2 DEF DHCP_OPT_MESSAGE_TYPE, DHCP_OPT_SERVER_ID, DHCP_OPT_SUBNET_MASK, DHCP_OPT_ROUTER,
             DHCP_OPT_DNS_SERVER, DHCP_OPT_LEASE_TIME
<1>4. /\ Len(L[1][2]) = 1 /\ Len(L[2][2]) = 4 /\ Len(L[3][2]) = 4 /\ Len(L[4][2]) = 4
      /\ Len(L[5][2]) = 4 /\ Len(L[6][2]) = 4
  BY <1>0, <1>1, <1>2
<1>5. \A i \in 1 .. 6 : i = 1 \/ i = 2 \/ i = 3 \/ i = 4 \/ i = 5 \/ i = 6
  OBVIOUS
<1>6. L \in Seq(O)
  <2>1. \A x \in Codes, b \in Seq(Bytes) : <<x, b>> \in O
    OBVIOUS
  <2>2. /\ DHCP_OPT_MESSAGE_TYPE \in Codes /\ DHCP_OPT_SERVER_ID \in Codes /\ DHCP_OPT_SUBNET_MASK \in Codes
        /\ DHCP_OPT_ROUTER \in Codes /\ DHCP_OPT_DNS_SERVER \in Codes /\ DHCP_OPT_LEASE_TIME \in Codes
    BY DEF DHCP_OPT_MESSAGE_TYPE, DHCP_OPT_SERVER_ID, DHCP_OPT_SUBNET_MASK, DHCP_OPT_ROUTER,
           DHCP_OPT_DNS_SERVER, DHCP_OPT_LEASE_TIME, Codes
  <2>3. L[1] \in O /\ L[2] \in O /\ L[3] \in O /\ L[4] \in O /\ L[5] \in O /\ L[6] \in O
    <3> HIDE DEF O
    <3>1. QED
      BY <2>1, <2>2, <1>0, <1>1, <1>2, Zenon
  <2> HIDE DEF O
  <2>4. \A u, v, w, x, y, z \in O : <<u, v, w, x, y, z>> \in Seq(O)
    OBVIOUS
  <2>5. <<L[1], L[2], L[3], L[4], L[5], L[6]>> \in Seq(O)
    BY <2>3, <2>4, Zenon
  <2>6. QED
    BY <2>5, <1>2, Zenon
<1>7. \A i \in 1 .. 6 : Len(L[i][2]) <= 255 /\ (L[i][1] = DHCP_OPT_MESSAGE_TYPE => Len(L[i][2]) = 1)
  <2>1. 1 <= 255 /\ 4 <= 255 /\ 54 # 53 /\ 1 # 53 /\ 3 # 53 /\ 6 # 53 /\ 51 # 53
    OBVIOUS
  <2>2. DHCP_OPT_MESSAGE_TYPE = 53
    BY DEF DHCP_OPT_MESSAGE_TYPE
  <2>3. \A i \in 1 .. 6 : L[i][1] = 53 => i = 1
    BY <2>1, <1>3, <1>5
  <2>4. \A i \in 1 .. 6 : Len(L[i][2]) = 1 \/ Len(L[i][2]) = 4
    BY <1>4, <1>5
  <2>5. \A i \in 1 .. 6 : Len(L[i][2]) <= 255
    BY <2>1, <2>4, Zenon
  <2>6. QED
    BY <2>2, <2>3, <2>5, <1>4, Zenon
<1>8. WellFormed(L)
  BY <1>2, <1>6, <1>7, Zenon DEF WellFormed
<1>9. Only(L, 1) /\ Only(L, 2)
  <2>1. 53 # 54 /\ 1 # 53 /\ 3 # 53 /\ 6 # 53 /\ 51 # 53 /\ 1 # 54 /\ 3 # 54 /\ 6 # 54 /\ 51 # 54
    OBVIOUS
  <2>2. \A i \in 1 .. 6 : (L[i][1] = 53 => i = 1) /\ (L[i][1] = 54 => i = 2)
    BY <2>1, <1>3, <1>5
  <2>3. \A i \in 1 .. 6 : (L[i][1] = L[1][1] => i = 1) /\ (L[i][1] = L[2][1] => i = 2)
    BY <2>2, <1>3, Zenon
  <2>4. QED
    BY <2>3, <1>2, Zenon DEF Only
<1>10. PICK off : Offsets(L, off)
  BY <1>8, EncodedLayout, Zenon
<1>11. off[0] = 0 /\ \A i \in 1 .. 6 : off[i] = off[i - 1] + 2 + Len(L[i][2])
  BY <1>2, <1>10, Zenon DEF Offsets
<1>12. off[6] = 33
  <2>1. /\ off[1] = off[0] + 2 + Len(L[1][2]) /\ off[2] = off[1] + 2 + Len(L[2][2])
        /\ off[3] = off[2] + 2 + Len(L[3][2]) /\ off[4] = off[3] + 2 + Len(L[4][2])
        /\ off[5] = off[4] + 2 + Len(L[5][2]) /\ off[6] = off[5] + 2 + Len(L[6][2])
    BY <1>11
  <2>2. /\ off[1] = 0 + 2 + 1 /\ off[2] = off[1] + 2 + 4 /\ off[3] = off[2] + 2 + 4
        /\ off[4] = off[3] + 2 + 4 /\ off[5] = off[4] + 2 + 4 /\ off[6] = off[5] + 2 + 4
    BY <2>1, <1>4, <1>11, Zenon
  <2>3. QED
    BY <2>2
<1>13. QED
  BY <1>2, <1>8, <1>9, <1>10, <1>12, Zenon DEF SixOptions, L

\* The client reads the type and the server from t.
Tells(t, type) ==
  /\ \A none : LastOption(t, DHCP_OPT_MESSAGE_TYPE, 1, none) = <<type>>
  /\ \A none : LastOption(t, DHCP_OPT_SERVER_ID, 4, none) = Config.server_ip

\* It does so from an OFFER and an ACK.
LEMMA LeaseReply ==
  ASSUME NEW type \in {DHCP_OFFER, DHCP_ACK}, NEW ip, NEW lease \in Nat
  PROVE  Tells(msgToHdr(BuildLease(type, Config, ip, lease).options), type)
<1> DEFINE t == msgToHdr(BuildLease(type, Config, ip, lease).options)
           b2 == Config.server_ip
           b3 == Config.subnet_mask
           b4 == Config.gateway_ip
           b5 == Config.dns_ip
           b6 == uint32_to_ip(lease)
           L == LeaseList(type, b2, b3, b4, b5, b6)
<1>1. t = msgToHdr(AddAll(L))
  BY DEF BuildLease, LeaseList
<1>2. /\ b2 \in FourBytes /\ b3 \in FourBytes /\ b4 \in FourBytes /\ b5 \in FourBytes
      /\ Len(b2) = 4
      /\ \A j \in 1 .. 4 : b2[j] # DHCP_OPT_END
      /\ OptLen >= 34
  <2>1. b2 \in {b2, b3, b4, b5} /\ b3 \in {b2, b3, b4, b5} /\ b4 \in {b2, b3, b4, b5} /\ b5 \in {b2, b3, b4, b5}
    OBVIOUS
  <2>2. QED
    BY <2>1, ReplyAssumption, Zenon DEF FourBytes
<1>3. b6 \in FourBytes
  BY NumberBytes, Zenon
<1>4. type \in Bytes /\ type # DHCP_OPT_END /\ 1 # DHCP_OPT_END /\ 4 # DHCP_OPT_END
  BY DEF DHCP_OFFER, DHCP_ACK, DHCP_OPT_END, Bytes
<1> HIDE DEF t, b2, b3, b4, b5, b6
<1>5. SixOptions(L, type, b2)
  BY <1>2, <1>3, <1>4, LeaseOptions, Zenon
<1> HIDE DEF L
<1>6. /\ WellFormed(L) /\ Len(L) = 6
      /\ L[1] = <<DHCP_OPT_MESSAGE_TYPE, <<type>>>> /\ L[2] = <<DHCP_OPT_SERVER_ID, b2>>
      /\ Only(L, 1) /\ Only(L, 2)
      /\ \E off : Offsets(L, off) /\ off[6] = 33
  BY <1>5, Zenon DEF SixOptions
<1>7. /\ L[1][1] = DHCP_OPT_MESSAGE_TYPE /\ L[1][2] = <<type>> /\ Len(<<type>>) = 1 /\ <<type>>[1] = type
      /\ L[2][1] = DHCP_OPT_SERVER_ID /\ L[2][2] = b2
  BY <1>6
<1>8. Plain(L[1]) /\ Plain(L[2])
  <2>1. \A j \in 1 .. 1 : j = 1
    OBVIOUS
  <2>2. QED
    BY <2>1, <1>2, <1>4, <1>7, Zenon DEF Plain
<1>9. /\ 1 \in 1 .. 6 /\ 2 \in 1 .. 6
      /\ \A i \in 1 .. 1 : i = 1
      /\ \A i \in 1 .. 2 : i = 1 \/ i = 2
  OBVIOUS
<1>10. PICK off : Offsets(L, off) /\ off[6] = 33
  BY <1>6, Zenon
<1>11. off[Len(L)] + 1 <= OptLen
  <2>1. 33 + 1 <= OptLen
    BY <1>2, AreaSize
  <2>2. QED
    BY <2>1, <1>6, <1>10, Zenon
<1>12. Reads(t, L[1])
  <2>1. \A i \in 1 .. 1 : Plain(L[i])
    BY <1>8, <1>9, Zenon
  <2>2. 1 \in 1 .. Len(L)
    BY <1>6, <1>9, Zenon
  <2>3. QED
    BY <2>1, <2>2, <1>1, <1>6, <1>10, <1>11, SentRead, Zenon
<1>13. Reads(t, L[2])
  <2>1. \A i \in 1 .. 2 : Plain(L[i])
    BY <1>8, <1>9, Zenon
  <2>2. 2 \in 1 .. Len(L)
    BY <1>6, <1>9, Zenon
  <2>3. QED
    BY <2>1, <2>2, <1>1, <1>6, <1>10, <1>11, SentRead, Zenon
<1>14. QED
  BY <1>2, <1>7, <1>12, <1>13, Zenon DEF Reads, Tells, t, b2

\* The client reads the type from a NAK.
LEMMA NakReply ==
  \A none : LastOption(msgToHdr(dhcp_build_nak.options), DHCP_OPT_MESSAGE_TYPE, 1, none) = <<DHCP_NAK>>
<1> DEFINE o == <<DHCP_OPT_MESSAGE_TYPE, <<DHCP_NAK>>>>
           L == <<o>>
<1>1. dhcp_build_nak.options = AddAll(L)
  BY DEF dhcp_build_nak
<1>2. /\ o[1] = DHCP_OPT_MESSAGE_TYPE /\ o[2] = <<DHCP_NAK>>
      /\ Len(<<DHCP_NAK>>) = 1 /\ <<DHCP_NAK>>[1] = DHCP_NAK
  OBVIOUS
<1>3. DHCP_NAK # DHCP_OPT_END /\ 1 # DHCP_OPT_END /\ 1 <= 255 /\ 33 + 1 <= OptLen
  BY ReplyAssumption, AreaSize DEF DHCP_NAK, DHCP_OPT_END
<1>4. o \in Codes \X Seq(Bytes)
  <2>1. DHCP_OPT_MESSAGE_TYPE \in Codes /\ DHCP_NAK \in Bytes
    BY DEF DHCP_OPT_MESSAGE_TYPE, DHCP_NAK, Codes, Bytes
  <2>2. <<DHCP_NAK>> \in Seq(Bytes)
    BY <2>1
  <2>3. \A x \in Codes, b \in Seq(Bytes) : <<x, b>> \in Codes \X Seq(Bytes)
    OBVIOUS
  <2>4. QED
    BY <2>1, <2>2, <2>3, Zenon
<1> HIDE DEF o
<1>5. L \in Seq(Codes \X Seq(Bytes)) /\ Len(L) = 1 /\ DOMAIN L = 1 .. 1 /\ L[1] = o
  BY <1>4
<1> HIDE DEF L
<1>6. \A i \in 1 .. 1 : i = 1
  OBVIOUS
<1>7. 1 \in 1 .. 1
  OBVIOUS
<1>8. WellFormed(L)
  BY <1>2, <1>3, <1>5, <1>6, Zenon DEF WellFormed
<1>9. Only(L, 1) /\ \A i \in 1 .. 1 : Plain(L[i])
  BY <1>2, <1>3, <1>5, <1>6, Zenon DEF Only, Plain
<1>10. PICK off : Offsets(L, off)
  BY <1>8, EncodedLayout, Zenon
<1>11. off[Len(L)] + 1 <= OptLen
  <2>1. off[0] = 0 /\ off[1] = off[1 - 1] + 2 + Len(L[1][2])
    BY <1>5, <1>7, <1>10, Zenon DEF Offsets
  <2>2. 1 - 1 = 0 /\ 0 + 2 + 1 + 1 <= OptLen
    BY <1>3, AreaSize
  <2>3. QED
    BY <2>1, <2>2, <1>2, <1>5, Zenon
<1>12. Reads(msgToHdr(AddAll(L)), L[1])
  <2>1. 1 \in 1 .. Len(L)
    BY <1>5, <1>7, Zenon
  <2>2. QED
    BY <2>1, <1>8, <1>9, <1>10, <1>11, SentRead, Zenon
<1>13. QED
  BY <1>1, <1>2, <1>5, <1>12, Zenon DEF Reads

\* What a reply of the back end looks like: a NAK has no address.
ReplyProper == resp = NoReply \/ resp.type \in {"OFFER", "ACK"} \/ (resp.type = "NAK" /\ resp.ip = 0)

\* The client understands such a reply.
LEMMA ProperUnderstood ==
  ASSUME resp.lease \in Nat, ReplyProper
  PROVE  ReplyUnderstood
<1> DEFINE got == parse_frame(Sent)
<1> SUFFICES ASSUME resp # NoReply
             PROVE  /\ got.dhcp_type = CASE resp.type = "OFFER" -> DHCP_OFFER
                                         [] resp.type = "ACK" -> DHCP_ACK
                                         [] resp.type = "NAK" -> DHCP_NAK
                    /\ got.offered_ip = uint32_to_ip(resp.ip)
                    /\ resp.type # "NAK" => got.server_ip = Config.server_ip
  BY Zenon DEF ReplyUnderstood
<1>1. /\ got.dhcp_type = LastOption(Sent.options, DHCP_OPT_MESSAGE_TYPE, 1, <<0>>)[1]
      /\ got.offered_ip = Sent.yiaddr
      /\ got.server_ip = LastOption(Sent.options, DHCP_OPT_SERVER_ID, 4, Sent.siaddr)
  BY DEF parse_frame
<1>2. Sent.options = msgToHdr(Built.options) /\ Sent.yiaddr = uint32_to_ip(Built.yiaddr)
  BY DEF Sent
<1> HIDE DEF got
<1>3. \A x : <<x>>[1] = x
  OBVIOUS
<1>4. ASSUME NEW type \in {DHCP_OFFER, DHCP_ACK}, Built = BuildLease(type, Config, resp.ip, resp.lease)
      PROVE  /\ got.dhcp_type = type
             /\ got.offered_ip = uint32_to_ip(resp.ip)
             /\ got.server_ip = Config.server_ip
  <2>1. Sent.options = msgToHdr(BuildLease(type, Config, resp.ip, resp.lease).options)
    BY <1>2, <1>4, Zenon
  <2>2. Tells(Sent.options, type)
    BY <2>1, LeaseReply
  <2>3. Built.yiaddr = resp.ip
    BY <1>4 DEF BuildLease
  <2>4. QED
    BY <2>2, <2>3, <1>1, <1>2, <1>3, Zenon DEF Tells
<1>5. CASE resp.type = "OFFER"
  <2>1. Built = BuildLease(DHCP_OFFER, Config, resp.ip, resp.lease)
    BY <1>5 DEF Built, dhcp_build_offer
  <2>2. QED
    BY <2>1, <1>4, <1>5
<1>6. CASE resp.type = "ACK"
  <2>1. Built = BuildLease(DHCP_ACK, Config, resp.ip, resp.lease)
    BY <1>6 DEF Built, dhcp_build_ack
  <2>2. QED
    BY <2>1, <1>4, <1>6
<1>7. CASE resp.type = "NAK" /\ resp.ip = 0
  <2>1. Built = dhcp_build_nak
    BY <1>7 DEF Built
  <2>2. Built.yiaddr = resp.ip
    BY <2>1, <1>7 DEF dhcp_build_nak
  <2>3. got.dhcp_type = DHCP_NAK
    BY <2>1, <1>1, <1>2, <1>3, NakReply, Zenon
  <2>4. QED
    BY <2>2, <2>3, <1>1, <1>2, <1>7
<1>8. QED
  BY <1>5, <1>6, <1>7, Zenon DEF ReplyProper

\* Every handler leaves such a reply.
LEMMA ServedReply ==
  ASSUME NEW f, Served(f)
  PROVE  ReplyProper'
<1>1. \A m, ip, n : Offer(m, ip, n).type = "OFFER" /\ Ack(m, ip, n).type = "ACK"
  BY DEF Offer, Ack
<1>2. \A m : Nak(m).type = "NAK" /\ Nak(m).ip = 0
  BY DEF Nak
<1>3. \/ resp' = NoReply
      \/ \E m, ip, n : resp' = Offer(m, ip, n) \/ resp' = Ack(m, ip, n)
      \/ \E m : resp' = Nak(m)
  <2>1. Ignore \/ DeclineLease(f.chaddr) => resp' = NoReply
    BY Zenon DEF Ignore, DeclineLease
  <2>2. Discover(f.chaddr) => resp' = NoReply \/ \E m, ip, n : resp' = Offer(m, ip, n)
    BY Zenon DEF Discover, OfferOwn, OfferNext, OfferNothing
  <2>3. \A ip : Request(f.chaddr, ip) =>
          (\E m, x, n : resp' = Ack(m, x, n)) \/ \E m : resp' = Nak(m)
    BY Zenon DEF Request, InPool, OutsidePool, Renew, Allocate, Refuse
  <2>4. QED
    BY <2>1, <2>2, <2>3, Zenon DEF Served
<1>4. QED
  BY <1>1, <1>2, <1>3, Zenon DEF ReplyProper
=============================================================================
