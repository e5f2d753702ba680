--------------------------- MODULE DeviceLinkProofs ---------------------------
(***************************************************************************)
(* The stream decoder and the link to the device simulator, for any number *)
(* of devices and connections, any frame size, any damaged writes and any  *)
(* way in which the stream is cut: what a monitor decodes are whole frames *)
(* in their order, no whole frame is lost without a header that announced  *)
(* over it, and nothing that is complete waits.                            *)
(*                                                                         *)
(* The argument in order: recursion over a stream's length has a solution; *)
(* what one turn of the decoder's loop does; where the whole frames are    *)
(* (Layout) and what the loop makes of a part of the stream (Drained); the *)
(* stream that units make and its Layout; one connection's invariant       *)
(* (LinkOK); the steps of the system.                                      *)
(***************************************************************************)
EXTENDS DeviceLink, FiniteSetTheorems, SequenceTheorems, WellFoundedInduction, TLAPS

-----------------------------------------------------------------------------
(* Induction and recursion over the length of a stream *)

LEMMA NatLeast ==
  ASSUME NEW T, T \subseteq Nat, T # {}
  PROVE  \E n \in T : \A m \in T : n <= m
<1> DEFINE R == {ss \in Nat \X Nat : ss[1] < ss[2]}
<1>1. IsWellFoundedOn(R, Nat)
  BY NatLessThanWellFounded DEF OpToRel
<1>2. PICK n \in T : \A m \in T : ~(<<m, n>> \in R)
  <2> HIDE DEF R
  <2> QED BY <1>1, WFMin
<1>3. \A m \in T : n <= m
  <2> SUFFICES ASSUME NEW m \in T, ~(n <= m) PROVE FALSE
    OBVIOUS
  <2>1. m \in Nat /\ n \in Nat /\ m < n
    OBVIOUS
  <2> QED BY <1>2, <2>1
<1> QED BY <1>2, <1>3

(* A set that has a number as soon as it has all smaller ones. *)
LEMMA NatStrong ==
  ASSUME NEW S, \A n \in Nat : (\A m \in Nat : m < n => m \in S) => n \in S
  PROVE  \A n \in Nat : n \in S
<1> DEFINE T == {n \in Nat : n \notin S}
<1> SUFFICES ASSUME T # {} PROVE FALSE
  OBVIOUS
<1>1. T \subseteq Nat
  OBVIOUS
<1>2. PICK n \in T : \A m \in T : n <= m
  <2> HIDE DEF T
  <2> QED BY <1>1, NatLeast
<1>3. \A m \in Nat : m < n => m \in S
  <2> SUFFICES ASSUME NEW m \in Nat, m < n, m \notin S PROVE FALSE
    OBVIOUS
  <2>1. m \in T /\ n \in Nat
    OBVIOUS
  <2>2. n <= m
    BY <1>2, <2>1
  <2> QED BY <2>1, <2>2
<1> QED BY <1>2, <1>3

LEMMA NatUp ==
  ASSUME NEW S, 0 \in S, \A n \in Nat : n \in S => n + 1 \in S
  PROVE  \A n \in Nat : n \in S
<1>1. ASSUME NEW n \in Nat, \A m \in Nat : m < n => m \in S
      PROVE  n \in S
  <2>1. CASE n = 0
    BY <2>1
  <2>2. CASE n # 0
    <3>1. n - 1 \in Nat /\ n - 1 < n /\ (n - 1) + 1 = n
      BY <2>2
    <3>2. n - 1 \in S
      BY <1>1, <3>1
    <3> QED BY <3>1, <3>2
  <2> QED BY <2>1, <2>2
<1> QED BY <1>1, NatStrong

(* A recursive equation whose argument shrinks until it is one of Last. *)
Shrinks(S, R, Last, size, next, base, combine) ==
  /\ Last \in SUBSET S /\ size \in [S -> Nat] /\ next \in [S -> S]
  /\ base \in [S -> R] /\ combine \in [S \X R -> R]
  /\ \A x \in S \ Last : size[next[x]] < size[x]

Solution(F, S, R, Last, next, base, combine) ==
  /\ F \in [S -> R]
  /\ \A x \in S : F[x] = IF x \in Last THEN base[x] ELSE combine[<<x, F[next[x]]>>]

LEMMA RecursiveSolution ==
  ASSUME NEW S, NEW R, NEW Last, NEW size, NEW next, NEW base, NEW combine,
         Shrinks(S, R, Last, size, next, base, combine)
  PROVE  \E F : Solution(F, S, R, Last, next, base, combine)
<1>0. /\ Last \in SUBSET S /\ size \in [S -> Nat] /\ next \in [S -> S]
      /\ base \in [S -> R] /\ combine \in [S \X R -> R]
      /\ \A x \in S \ Last : size[next[x]] < size[x]
  BY DEF Shrinks
<1> USE <1>0
<1> DEFINE Holds(f, x) == f[x] = IF x \in Last THEN base[x] ELSE combine[<<x, f[next[x]]>>]
           Solves(f, n) == \A x \in S : size[x] < n => Holds(f, x)
           Unique(n) == \A f, g \in [S -> R] : Solves(f, n) /\ Solves(g, n) =>
                          \A x \in S : size[x] < n => f[x] = g[x]
           A == {n \in Nat : \E f \in [S -> R] : Solves(f, n)}
           B == {n \in Nat : Unique(n)}
<1>1. 0 \in A
  <2>1. Solves(base, 0)
    OBVIOUS
  <2> QED BY <2>1
<1>2. ASSUME NEW n \in Nat, n \in A
      PROVE  n + 1 \in A
  <2>1. PICK f \in [S -> R] : Solves(f, n)
    BY <1>2
  <2> DEFINE g == [x \in S |-> IF x \in Last THEN base[x] ELSE combine[<<x, f[next[x]]>>]]
  <2>2. \A x \in S : base[x] \in R /\ combine[<<x, f[next[x]]>>] \in R
    OBVIOUS
  <2>3. g \in [S -> R]
    BY <2>2
  <2>4. \A x \in S : g[x] = IF x \in Last THEN base[x] ELSE combine[<<x, f[next[x]]>>]
    OBVIOUS
  <2> HIDE DEF g
  <2>5. \A x \in S : size[x] < n => g[x] = f[x]
    BY <2>1, <2>4
  <2>6. ASSUME NEW x \in S, size[x] < n + 1
        PROVE  Holds(g, x)
    <3>1. CASE x \in Last
      BY <2>4, <3>1
    <3>2. CASE x \notin Last
      <4>1. next[x] \in S /\ size[next[x]] < size[x] /\ size[next[x]] \in Nat /\ size[x] \in Nat
        BY <3>2
      <4>2. size[next[x]] < n
        BY <2>6, <4>1
      <4>3. g[next[x]] = f[next[x]]
        BY <2>5, <4>1, <4>2
      <4> QED BY <2>4, <3>2, <4>3
    <3> QED BY <3>1, <3>2
  <2>7. Solves(g, n + 1)
    BY <2>6
  <2> QED BY <2>3, <2>7
<1>3. \A n \in Nat : n \in A
  <2> HIDE DEF A
  <2> QED BY <1>1, <1>2, NatUp
<1>4. 0 \in B
  <2>1. \A x \in S : ~(size[x] < 0)
    OBVIOUS
  <2> QED BY <2>1
<1>5. ASSUME NEW n \in Nat, n \in B
      PROVE  n + 1 \in B
  <2> SUFFICES ASSUME NEW f \in [S -> R], NEW g \in [S -> R],
                      Solves(f, n + 1), Solves(g, n + 1), NEW x \in S, size[x] < n + 1
               PROVE  f[x] = g[x]
    OBVIOUS
  <2>1. Holds(f, x) /\ Holds(g, x)
    OBVIOUS
  <2>2. CASE x \in Last
    BY <2>1, <2>2
  <2>3. CASE x \notin Last
    <3>1. next[x] \in S /\ size[next[x]] < n
      <4>1. next[x] \in S /\ size[next[x]] \in Nat /\ size[x] \in Nat /\ size[next[x]] < size[x]
        BY <2>3
      <4> QED BY <4>1
    <3>2. Solves(f, n) /\ Solves(g, n)
      <4> SUFFICES ASSUME NEW y \in S, size[y] < n PROVE Holds(f, y) /\ Holds(g, y)
        OBVIOUS
      <4>1. size[y] \in Nat /\ size[y] < n + 1
        OBVIOUS
      <4> QED BY <4>1
    <3>3. f[next[x]] = g[next[x]]
      BY <1>5, <3>1, <3>2
    <3> QED BY <2>1, <2>3, <3>3
  <2> QED BY <2>2, <2>3
<1>6. \A n \in Nat : n \in B
  <2> HIDE DEF B
  <2> QED BY <1>4, <1>5, NatUp
<1> DEFINE Approx(n) == CHOOSE f \in [S -> R] : Solves(f, n)
           F == [x \in S |-> Approx(size[x] + 1)[x]]
<1>7. ASSUME NEW n \in Nat PROVE Approx(n) \in [S -> R] /\ Solves(Approx(n), n)
  <2>1. \E f \in [S -> R] : Solves(f, n)
    BY <1>3
  <2> HIDE DEF Solves
  <2> QED BY <2>1
<1> HIDE DEF Approx
<1>8. \A x \in S : size[x] \in Nat /\ size[x] + 1 \in Nat
  OBVIOUS
<1>9. F \in [S -> R]
  <2> SUFFICES ASSUME NEW x \in S PROVE Approx(size[x] + 1)[x] \in R
    OBVIOUS
  <2> QED BY <1>7, <1>8
<1>10. \A x \in S : F[x] = Approx(size[x] + 1)[x]
  OBVIOUS
<1> HIDE DEF F
<1>11. ASSUME NEW x \in S, NEW n \in Nat, size[x] < n
       PROVE  F[x] = Approx(n)[x]
  <2>1. Solves(Approx(n), size[x] + 1)
    <3> SUFFICES ASSUME NEW y \in S, size[y] < size[x] + 1 PROVE Holds(Approx(n), y)
      OBVIOUS
    <3>1. size[y] < n
      BY <1>8, <1>11
    <3> QED BY <1>7, <3>1
  <2>2. Solves(Approx(size[x] + 1), size[x] + 1)
    BY <1>7, <1>8
  <2>3. Unique(size[x] + 1)
    BY <1>6, <1>8
  <2>4. Approx(n) \in [S -> R] /\ Approx(size[x] + 1) \in [S -> R] /\ size[x] < size[x] + 1
    BY <1>7, <1>8
  <2> HIDE DEF Solves
  <2>5. Approx(n)[x] = Approx(size[x] + 1)[x]
    BY <2>1, <2>2, <2>3, <2>4
  <2> QED BY <1>10, <2>5
<1>12. ASSUME NEW x \in S PROVE Holds(F, x)
  <2>1. Holds(Approx(size[x] + 1), x)
    <3>1. PICK n \in Nat : n = size[x] + 1
      BY <1>8
    <3>2. PICK f : f = Approx(n)
      OBVIOUS
    <3>3. Solves(f, n)
      BY <1>7, <3>2
    <3>4. size[x] < n
      BY <1>8, <3>1
    <3>5. Holds(f, x)
      <4> HIDE DEF Holds
      <4> QED BY <3>3, <3>4
    <3> QED BY <3>1, <3>2, <3>5
  <2>2. CASE x \in Last
    BY <1>10, <2>1, <2>2
  <2>3. CASE x \notin Last
    <3>1. next[x] \in S /\ size[next[x]] < size[x]
      BY <2>3
    <3>2. F[next[x]] = Approx(size[x] + 1)[next[x]]
      BY <1>8, <1>11, <3>1
    <3> QED BY <1>10, <2>1, <2>3, <3>2
  <2> QED BY <2>2, <2>3
<1> QED BY <1>9, <1>12 DEF Solution

-----------------------------------------------------------------------------
(* One turn of the decoder's loop *)

LEMMA SmallestOf ==
  ASSUME NEW S, S \subseteq Nat, S # {}
  PROVE  Smallest(S) \in S /\ \A m \in S : Smallest(S) <= m
BY NatLeast DEF Smallest

LEMMA Sizes ==
  /\ kHeaderSize = 3 /\ kMinFrameSize = 4
  /\ kMaxFrameSize \in Nat /\ kMaxFrameSize >= 4
BY DecoderAssumption DEF kHeaderSize, kMinFrameSize, kCrcSize

(* Where the first magic is. *)
LEMMA MagicFound ==
  ASSUME NEW b \in Seq(Byte), NEW i, i = MagicIndex(b)
  PROVE  \/ i = -1 /\ \A k \in Nat : ~HasMagic(b, k)
         \/ /\ i \in 0..Len(b) /\ HasMagic(b, i)
            /\ \A k \in Nat : k < i => ~HasMagic(b, k)
<1> DEFINE found == {k \in 0..Len(b) : HasMagic(b, k)}
<1>1. \A k \in Nat : HasMagic(b, k) => k \in found
  BY DEF HasMagic
<1>2. CASE found = {}
  BY <1>1, <1>2 DEF MagicIndex
<1>3. CASE found # {}
  <2>1. found \subseteq Nat
    OBVIOUS
  <2>2. i = Smallest(found)
    BY <1>3 DEF MagicIndex
  <2>3. i \in found /\ \A m \in found : i <= m
    <3> HIDE DEF found
    <3> QED BY <1>3, <2>1, <2>2, SmallestOf
  <2> QED BY <1>1, <2>3
<1> QED BY <1>2, <1>3

LEMMA CompleteFits ==
  ASSUME NEW b \in Seq(Byte), NEW k \in Nat, CompleteFrameAt(b, k)
  PROVE  /\ b[k + 3].value \in 4..kMaxFrameSize
         /\ k + b[k + 3].value <= Len(b) /\ k + 4 <= Len(b)
         /\ HasMagic(b, k) /\ Decodes(Mid(b, k, b[k + 3].value))
<1> USE Sizes
<1>1. Len(b) - k >= 3
  BY DEF CompleteFrameAt
<1>2. b[k + 3] \in Byte
  BY <1>1
<1>3. b[k + 3].value \in Nat
  BY <1>2 DEF Byte
<1> QED BY <1>1, <1>3 DEF CompleteFrameAt

(* Where the next whole frame is. *)
LEMMA NextFound ==
  ASSUME NEW b \in Seq(Byte), NEW e \in Int, NEW i, i = FindNextCompleteFrame(b, 1, e)
  PROVE  \/ i = -1 /\ \A k \in 1..e : ~CompleteFrameAt(b, k)
         \/ /\ i \in 1..e /\ CompleteFrameAt(b, i)
            /\ \A k \in 1..(i - 1) : ~CompleteFrameAt(b, k)
<1> DEFINE bound == IF e < Len(b) - kMinFrameSize THEN e ELSE Len(b) - kMinFrameSize
           found == {k \in 1..bound : CompleteFrameAt(b, k)}
<1>0. bound \in Int /\ bound <= e /\ \A k \in Int : k <= e /\ k + 4 <= Len(b) => k <= bound
  BY Sizes
<1>a. i = IF found = {} THEN -1 ELSE Smallest(found)
  BY DEF FindNextCompleteFrame
<1> HIDE DEF bound
<1>1. \A k \in 1..e : CompleteFrameAt(b, k) => k \in found
  BY <1>0, CompleteFits
<1>4. found \subseteq 1..e /\ \A k \in found : CompleteFrameAt(b, k)
  BY <1>0
<1> HIDE DEF found
<1>2. CASE found = {}
  BY <1>1, <1>2, <1>a
<1>3. CASE found # {}
  <2>a. found \subseteq Nat
    BY <1>4
  <2>1. i \in found /\ \A m \in found : i <= m
    BY <1>3, <1>a, <2>a, SmallestOf
  <2>2. i \in 1..e
    BY <1>4, <2>1
  <2>3. ASSUME NEW k \in 1..(i - 1) PROVE ~CompleteFrameAt(b, k)
    <3>1. k \in 1..e /\ ~(i <= k)
      BY <2>2
    <3> QED BY <1>1, <2>1, <3>1
  <2> QED BY <1>4, <2>1, <2>2, <2>3
<1> QED BY <1>2, <1>3

(* The ways out of a turn. *)
Resyncs(b, e, otherwise, removed) ==
  \/ /\ removed \in 1..e /\ CompleteFrameAt(b, removed)
     /\ \A k \in 1..(removed - 1) : ~CompleteFrameAt(b, k)
  \/ removed = otherwise /\ \A k \in 1..e : ~CompleteFrameAt(b, k)

NoneFound(b, removed) ==
  /\ \A k \in Nat : ~HasMagic(b, k)
  /\ removed = IF b[Len(b)].value = kMagicHigh THEN Len(b) - 1 ELSE Len(b)

Skips(b, removed) ==
  /\ removed \in 1..Len(b)
  /\ HasMagic(b, removed) /\ \A k \in Nat : k < removed => ~HasMagic(b, k)

Headed(b) == HasMagic(b, 0) /\ Len(b) >= 3

TooShort(b, removed) == HasMagic(b, 0) /\ Len(b) < 3 /\ removed = 0

BadSize(b, removed) ==
  /\ Headed(b) /\ b[3].value \notin 4..kMaxFrameSize
  /\ Resyncs(b, Len(b), 1, removed)

Incomplete(b, removed) ==
  /\ Headed(b) /\ b[3].value \in 4..kMaxFrameSize /\ Len(b) < b[3].value
  /\ Resyncs(b, b[3].value - 1, 0, removed)

Accepted(b, removed) ==
  /\ Headed(b) /\ b[3].value \in 4..kMaxFrameSize /\ Len(b) >= b[3].value
  /\ Decodes(Mid(b, 0, b[3].value))
  /\ removed = b[3].value

Refused(b, removed) ==
  /\ Headed(b) /\ b[3].value \in 4..kMaxFrameSize /\ Len(b) >= b[3].value
  /\ ~Decodes(Mid(b, 0, b[3].value))
  /\ Resyncs(b, b[3].value - 1, b[3].value, removed)

LEMMA ResynchronizeResult ==
  ASSUME NEW b \in Seq(Byte), NEW e \in Int, NEW n
  PROVE  \E removed : /\ Resynchronize(b, e, Drop(n)) = Drop(removed)
                      /\ Resyncs(b, e, n, removed)
<1> DEFINE next == FindNextCompleteFrame(b, 1, e)
<1>1. \/ next = -1 /\ \A k \in 1..e : ~CompleteFrameAt(b, k)
      \/ /\ next \in 1..e /\ CompleteFrameAt(b, next)
         /\ \A k \in 1..(next - 1) : ~CompleteFrameAt(b, k)
  BY NextFound
<1>2. Resynchronize(b, e, Drop(n)) = IF next > 0 THEN Drop(next) ELSE Drop(n)
  BY DEF Resynchronize
<1> HIDE DEF next
<1>3. CASE next = -1 /\ \A k \in 1..e : ~CompleteFrameAt(b, k)
  <2>1. Resyncs(b, e, n, n)
    BY <1>3 DEF Resyncs
  <2>2. Resynchronize(b, e, Drop(n)) = Drop(n)
    BY <1>2, <1>3
  <2> QED BY <2>1, <2>2
<1>4. CASE /\ next \in 1..e /\ CompleteFrameAt(b, next)
           /\ \A k \in 1..(next - 1) : ~CompleteFrameAt(b, k)
  <2>1. Resyncs(b, e, n, next)
    BY <1>4 DEF Resyncs
  <2>2. Resynchronize(b, e, Drop(n)) = Drop(next)
    BY <1>2, <1>4
  <2> QED BY <2>1, <2>2
<1> QED BY <1>1, <1>3, <1>4

LEMMA TurnOutcome ==
  ASSUME NEW b \in Seq(Byte), b # << >>
  PROVE  \E removed :
           \/ /\ Turn(b) = Drop(removed)
              /\ \/ NoneFound(b, removed) \/ Skips(b, removed) \/ TooShort(b, removed)
                 \/ BadSize(b, removed) \/ Incomplete(b, removed) \/ Refused(b, removed)
           \/ /\ Turn(b) = [removed |-> removed, frame |-> <<b[1].of>>]
              /\ Accepted(b, removed)
<1> DEFINE index == MagicIndex(b)
           size == b[3].value
<1>0. Turn(b) =
        IF index < 0 THEN NoMagic(b)
        ELSE IF index > 0 THEN Drop(index)
        ELSE IF Len(b) < kHeaderSize THEN Wait
        ELSE IF size < kMinFrameSize \/ size > kMaxFrameSize
             THEN Resynchronize(b, Len(b), Drop(1))
        ELSE IF Len(b) < size THEN Resynchronize(b, size - 1, Wait)
        ELSE IF Decodes(Mid(b, 0, size))
             THEN [removed |-> size, frame |-> <<b[1].of>>]
        ELSE Resynchronize(b, size - 1, Drop(size))
  BY DEF Turn, FrameSizeFromHeader
<1>1. \/ index = -1 /\ \A k \in Nat : ~HasMagic(b, k)
      \/ /\ index \in 0..Len(b) /\ HasMagic(b, index)
         /\ \A k \in Nat : k < index => ~HasMagic(b, k)
  BY MagicFound
<1>2. Len(b) \in Nat /\ (Len(b) >= 3 => size \in Nat)
  <2>1. Len(b) >= 3 => b[3] \in Byte
    OBVIOUS
  <2> QED BY <2>1 DEF Byte
<1> HIDE DEF index, size
<1> USE Sizes
<1>3. CASE index = -1 /\ \A k \in Nat : ~HasMagic(b, k)
  <2> DEFINE n == IF b[Len(b)].value = kMagicHigh THEN Len(b) - 1 ELSE Len(b)
  <2>1. Turn(b) = NoMagic(b)
    BY <1>0, <1>3
  <2>2. Turn(b) = Drop(n)
    BY <2>1 DEF NoMagic
  <2>3. NoneFound(b, n)
    BY <1>3 DEF NoneFound
  <2> QED BY <2>2, <2>3
<1>4. CASE /\ index \in 0..Len(b) /\ HasMagic(b, index)
           /\ \A k \in Nat : k < index => ~HasMagic(b, k)
  <2>1. CASE index > 0
    <3>1. Turn(b) = Drop(index)
      BY <1>0, <1>4, <2>1
    <3>2. Skips(b, index)
      BY <1>4, <2>1 DEF Skips
    <3> QED BY <3>1, <3>2
  <2>2. CASE index = 0 /\ Len(b) < 3
    <3>1. Turn(b) = Drop(0)
      BY <1>0, <2>2 DEF Wait
    <3>2. TooShort(b, 0)
      BY <1>4, <2>2 DEF TooShort
    <3> QED BY <3>1, <3>2
  <2>3. CASE index = 0 /\ ~(Len(b) < 3) /\ size \notin 4..kMaxFrameSize
    <3>1. Turn(b) = Resynchronize(b, Len(b), Drop(1))
      BY <1>0, <1>2, <2>3
    <3>2. PICK n : Turn(b) = Drop(n) /\ Resyncs(b, Len(b), 1, n)
      BY <1>2, <3>1, ResynchronizeResult
    <3>3. BadSize(b, n)
      BY <1>2, <1>4, <2>3, <3>2 DEF BadSize, Headed, size
    <3> QED BY <3>2, <3>3
  <2>4. CASE index = 0 /\ ~(Len(b) < 3) /\ size \in 4..kMaxFrameSize /\ Len(b) < size
    <3>1. Turn(b) = Resynchronize(b, size - 1, Drop(0))
      BY <1>0, <1>2, <2>4 DEF Wait
    <3>2. PICK n : Turn(b) = Drop(n) /\ Resyncs(b, size - 1, 0, n)
      BY <1>2, <2>4, <3>1, ResynchronizeResult
    <3>3. Incomplete(b, n)
      BY <1>2, <1>4, <2>4, <3>2 DEF Incomplete, Headed, size
    <3> QED BY <3>2, <3>3
  <2>5. CASE /\ index = 0 /\ ~(Len(b) < 3) /\ size \in 4..kMaxFrameSize /\ ~(Len(b) < size)
             /\ Decodes(Mid(b, 0, size))
    <3>1. Turn(b) = [removed |-> size, frame |-> <<b[1].of>>]
      BY <1>0, <1>2, <2>5
    <3>2. Accepted(b, size)
      BY <1>2, <1>4, <2>5 DEF Accepted, Headed, size
    <3> QED BY <3>1, <3>2
  <2>6. CASE /\ index = 0 /\ ~(Len(b) < 3) /\ size \in 4..kMaxFrameSize /\ ~(Len(b) < size)
             /\ ~Decodes(Mid(b, 0, size))
    <3>1. Turn(b) = Resynchronize(b, size - 1, Drop(size))
      BY <1>0, <1>2, <2>6
    <3>2. PICK n : Turn(b) = Drop(n) /\ Resyncs(b, size - 1, size, n)
      BY <1>2, <2>6, <3>1, ResynchronizeResult
    <3>3. Refused(b, n)
      BY <1>2, <1>4, <2>6, <3>2 DEF Refused, Headed, size
    <3> QED BY <3>2, <3>3
  <2> QED BY <1>4, <2>1, <2>2, <2>3, <2>4, <2>5, <2>6
<1> QED BY <1>1, <1>3, <1>4

-----------------------------------------------------------------------------
(* The loop *)

Result == [rest : Seq(Byte), frames : Seq(Nat)]

LEMMA TurnTyped ==
  ASSUME NEW b \in Seq(Byte), b # << >>
  PROVE  /\ Turn(b).removed \in 0..Len(b)
         /\ Turn(b).frame \in Seq(Nat)
<1> USE Sizes
<1>1. PICK n :
        \/ /\ Turn(b) = Drop(n)
           /\ \/ NoneFound(b, n) \/ Skips(b, n) \/ TooShort(b, n)
              \/ BadSize(b, n) \/ Incomplete(b, n) \/ Refused(b, n)
        \/ /\ Turn(b) = [removed |-> n, frame |-> <<b[1].of>>]
           /\ Accepted(b, n)
  BY TurnOutcome
<1>2. Len(b) \in Nat /\ Len(b) > 0 /\ b[1] \in Byte
  OBVIOUS
<1>3. b[1].of \in Nat
  BY <1>2 DEF Byte
<1>4. ASSUME NEW e \in Int, NEW m \in 0..Len(b), Resyncs(b, e, m, n)
      PROVE  n \in 0..Len(b)
  <2>1. CASE n \in 1..e /\ CompleteFrameAt(b, n)
    <3>1. n \in Nat
      BY <2>1
    <3>2. n + 4 <= Len(b)
      BY <2>1, <3>1, CompleteFits
    <3> QED BY <1>2, <3>1, <3>2
  <2> QED BY <1>4, <2>1 DEF Resyncs
<1>5. Len(b) >= 3 => b[3].value \in Nat
  <2>1. Len(b) >= 3 => b[3] \in Byte
    OBVIOUS
  <2> QED BY <2>1 DEF Byte
<1>6. n \in 0..Len(b)
  <2>1. CASE NoneFound(b, n)
    BY <1>2, <2>1 DEF NoneFound
  <2>2. CASE Skips(b, n)
    BY <2>2 DEF Skips
  <2>3. CASE TooShort(b, n)
    BY <1>2, <2>3 DEF TooShort
  <2>4. CASE BadSize(b, n)
    <3>1. Resyncs(b, Len(b), 1, n) /\ 1 \in 0..Len(b)
      BY <1>2, <2>4 DEF BadSize
    <3> QED BY <1>2, <1>4, <3>1
  <2>5. CASE Incomplete(b, n)
    <3>1. Resyncs(b, b[3].value - 1, 0, n) /\ 0 \in 0..Len(b) /\ b[3].value - 1 \in Int
      BY <1>2, <1>5, <2>5 DEF Incomplete, Headed
    <3> QED BY <1>4, <3>1
  <2>6. CASE Refused(b, n)
    <3>1. /\ Resyncs(b, b[3].value - 1, b[3].value, n) /\ b[3].value \in 0..Len(b)
          /\ b[3].value - 1 \in Int
      BY <1>2, <1>5, <2>6 DEF Refused, Headed
    <3> QED BY <1>4, <3>1
  <2>7. CASE Accepted(b, n)
    BY <1>2, <1>5, <2>7 DEF Accepted, Headed
  <2> QED BY <1>1, <2>1, <2>2, <2>3, <2>4, <2>5, <2>6, <2>7
<1>7. CASE Turn(b) = Drop(n)
  BY <1>6, <1>7 DEF Drop
<1>8. CASE Turn(b) = [removed |-> n, frame |-> <<b[1].of>>]
  <2>1. <<b[1].of>> \in Seq(Nat)
    BY <1>3
  <2> QED BY <1>6, <1>8, <2>1
<1> QED BY <1>1, <1>7, <1>8

Stops(b) == b = << >> \/ Turn(b).removed = 0

DrainBody(D, b) ==
  IF b = << >> THEN [rest |-> << >>, frames |-> << >>]
  ELSE LET turn == Turn(b)
       IN  IF turn.removed = 0 THEN [rest |-> b, frames |-> << >>]
           ELSE LET after == D[SubSeq(b, turn.removed + 1, Len(b))]
                IN  [rest |-> after.rest, frames |-> turn.frame \o after.frames]

Remaining(b) == IF Stops(b) THEN b ELSE SubSeq(b, Turn(b).removed + 1, Len(b))

LEMMA RemainingShorter ==
  ASSUME NEW b \in Seq(Byte)
  PROVE  /\ Remaining(b) \in Seq(Byte)
         /\ ~Stops(b) => Len(Remaining(b)) < Len(b)
<1>1. CASE Stops(b)
  BY <1>1 DEF Remaining
<1>2. CASE ~Stops(b)
  <2>1. PICK n : n = Turn(b).removed
    OBVIOUS
  <2>2. n \in 1..Len(b)
    BY <1>2, <2>1, TurnTyped DEF Stops
  <2>3. Remaining(b) = SubSeq(b, n + 1, Len(b))
    BY <1>2, <2>1 DEF Remaining
  <2>4. SubSeq(b, n + 1, Len(b)) \in Seq(Byte) /\ Len(SubSeq(b, n + 1, Len(b))) < Len(b)
    BY <2>2
  <2> QED BY <2>3, <2>4
<1> QED BY <1>1, <1>2

LEMMA DrainSolution ==
  \E D \in [Seq(Byte) -> Result] : D = [b \in Seq(Byte) |-> DrainBody(D, b)]
<1> DEFINE S == Seq(Byte)
           Last == {b \in S : Stops(b)}
           size == [b \in S |-> Len(b)]
           next == [b \in S |-> Remaining(b)]
           base == [b \in S |-> [rest |-> b, frames |-> << >>]]
           combine == [br \in S \X Result |->
                         IF br[1] \in Last THEN [rest |-> br[1], frames |-> << >>]
                         ELSE [rest |-> br[2].rest, frames |-> Turn(br[1]).frame \o br[2].frames]]
<1>1. Last \in SUBSET S /\ size \in [S -> Nat] /\ next \in [S -> S]
  BY RemainingShorter
<1>2. base \in [S -> Result]
  BY DEF Result
<1>3. combine \in [S \X Result -> Result]
  <2> SUFFICES ASSUME NEW br \in S \X Result
               PROVE  (IF br[1] \in Last THEN [rest |-> br[1], frames |-> << >>]
                       ELSE [rest |-> br[2].rest, frames |-> Turn(br[1]).frame \o br[2].frames])
                         \in Result
    OBVIOUS
  <2>1. CASE br[1] \in Last
    BY <2>1 DEF Result
  <2>2. CASE br[1] \notin Last
    <3>1. br[1] \in Seq(Byte) /\ br[1] # << >>
      BY <2>2 DEF Stops
    <3>2. PICK f \in Seq(Nat) : f = Turn(br[1]).frame
      BY <3>1, TurnTyped
    <3>3. br[2].rest \in Seq(Byte) /\ br[2].frames \in Seq(Nat)
      BY DEF Result
    <3>4. f \o br[2].frames \in Seq(Nat)
      BY <3>2, <3>3
    <3> QED BY <2>2, <3>2, <3>3, <3>4 DEF Result
  <2> QED BY <2>1, <2>2
<1>4. \A b \in S \ Last : size[next[b]] < size[b]
  BY RemainingShorter
<1>5. PICK D \in [S -> Result] :
        \A b \in S : D[b] = IF b \in Last THEN base[b] ELSE combine[<<b, D[next[b]]>>]
  <2> HIDE DEF S, Last, size, next, base, combine
  <2>1. Shrinks(S, Result, Last, size, next, base, combine)
    BY <1>1, <1>2, <1>3, <1>4 DEF Shrinks
  <2>2. PICK D : Solution(D, S, Result, Last, next, base, combine)
    BY <2>1, RecursiveSolution
  <2> QED BY <2>2 DEF Solution
<1>6. ASSUME NEW b \in S PROVE D[b] = DrainBody(D, b)
  <2>1. CASE b = << >>
    BY <1>5, <2>1 DEF DrainBody, Stops
  <2>2. CASE b # << >> /\ Turn(b).removed = 0
    <3>1. D[b] = [rest |-> b, frames |-> << >>]
      BY <1>5, <2>2 DEF Stops
    <3> QED BY <2>2, <3>1 DEF DrainBody
  <2>3. CASE ~Stops(b)
    <3>1. D[next[b]] \in Result
      BY <1>1, <1>5
    <3>2. PICK r \in Result : r = D[next[b]]
      BY <3>1
    <3>3. D[b] = combine[<<b, r>>]
      BY <1>5, <2>3, <3>2
    <3>4. combine[<<b, r>>] = [rest |-> r.rest, frames |-> Turn(b).frame \o r.frames]
      BY <2>3
    <3>5. r = D[SubSeq(b, Turn(b).removed + 1, Len(b))]
      BY <2>3, <3>2 DEF Remaining
    <3>6. DrainBody(D, b) = [rest |-> r.rest, frames |-> Turn(b).frame \o r.frames]
      BY <2>3, <3>5 DEF DrainBody, Stops
    <3> QED BY <3>3, <3>4, <3>6
  <2> QED BY <2>1, <2>2, <2>3 DEF Stops
<1>7. D = [b \in S |-> DrainBody(D, b)]
  BY <1>5, <1>6
<1> QED BY <1>5, <1>7

LEMMA DrainEquation ==
  /\ Drain \in [Seq(Byte) -> Result]
  /\ \A b \in Seq(Byte) : Drain[b] = DrainBody(Drain, b)
<1> DEFINE Eq(D) == D = [b \in Seq(Byte) |-> DrainBody(D, b)]
<1>1. \E D : Eq(D)
  BY DrainSolution
<1>2. Drain = CHOOSE D : Eq(D)
  BY DEF Drain, DrainBody
<1>3. Eq(Drain)
  <2> HIDE DEF Eq
  <2> QED BY <1>1, <1>2
<1>4. \A b \in Seq(Byte) : Drain[b] = DrainBody(Drain, b)
  <2> SUFFICES ASSUME NEW b \in Seq(Byte) PROVE Drain[b] = DrainBody(Drain, b)
    OBVIOUS
  <2> QED BY <1>3
<1> HIDE DEF Eq
<1> DEFINE T == {n \in Nat : \A b \in Seq(Byte) : Len(b) = n => Drain[b] \in Result}
<1>5. ASSUME NEW n \in Nat, \A m \in Nat : m < n => m \in T
      PROVE  n \in T
  <2> SUFFICES ASSUME NEW b \in Seq(Byte), Len(b) = n PROVE Drain[b] \in Result
    OBVIOUS
  <2>1. CASE b = << >>
    <3>1. Drain[b] = [rest |-> << >>, frames |-> << >>]
      BY <1>4, <2>1 DEF DrainBody
    <3> QED BY <3>1 DEF Result
  <2>2. CASE b # << >> /\ Turn(b).removed = 0
    <3>1. Drain[b] = [rest |-> b, frames |-> << >>]
      BY <1>4, <2>2 DEF DrainBody
    <3> QED BY <3>1 DEF Result
  <2>3. CASE b # << >> /\ Turn(b).removed # 0
    <3>1. PICK k \in 0..Len(b), f \in Seq(Nat) : k = Turn(b).removed /\ f = Turn(b).frame
      BY <2>3, TurnTyped
    <3>2. PICK c : c = SubSeq(b, k + 1, Len(b))
      OBVIOUS
    <3>3. c \in Seq(Byte) /\ Len(c) < Len(b)
      BY <2>3, <3>1, <3>2, RemainingShorter DEF Remaining, Stops
    <3>4. Len(c) \in T /\ Len(c) \in Nat
      BY <1>5, <3>3
    <3>5. PICK r \in Result : r = Drain[c]
      BY <3>3, <3>4
    <3>6. Drain[b] = [rest |-> r.rest, frames |-> f \o r.frames]
      BY <1>4, <2>3, <3>1, <3>2, <3>5 DEF DrainBody
    <3>7. r.rest \in Seq(Byte) /\ r.frames \in Seq(Nat)
      BY DEF Result
    <3>8. f \o r.frames \in Seq(Nat)
      BY <3>7
    <3> QED BY <3>6, <3>7, <3>8 DEF Result
  <2> QED BY <2>1, <2>2, <2>3
<1>6. \A n \in Nat : n \in T
  <2> HIDE DEF T
  <2> QED BY <1>5, NatStrong
<1>7. \A b \in Seq(Byte) : Drain[b] \in Result
  <2> SUFFICES ASSUME NEW b \in Seq(Byte) PROVE Drain[b] \in Result
    OBVIOUS
  <2>1. Len(b) \in T
    BY <1>6
  <2> QED BY <2>1
<1>8. Drain \in [Seq(Byte) -> Result]
  <2>1. Drain = [b \in Seq(Byte) |-> Drain[b]]
    BY <1>3 DEF Eq
  <2> QED BY <1>7, <2>1
<1> QED BY <1>4, <1>8

-----------------------------------------------------------------------------
(* Whole frames in a stream *)

(* Bytes that count from 1 to the length n they announce, from place x on. *)
CountedBytes(stream, x, n) ==
  /\ x + n <= Len(stream)
  /\ stream[x + 3].value = n
  /\ \A k \in 1..n : stream[x + k].at = k

(* W says where the whole frames of a stream are: they do not overlap, have *)
(* rising numbers, and nowhere else do bytes count from 1 to a length.      *)
Layout(stream, W) ==
  /\ stream \in Seq(Byte)
  /\ \A w \in W :
       /\ w.start \in Nat /\ w.size \in 4..kMaxFrameSize /\ w.of \in Nat
       /\ w.start + w.size <= Len(stream)
       /\ \A k \in 1..w.size : stream[w.start + k].at = k /\ stream[w.start + k].of = w.of
       /\ stream[w.start + 1].value = kMagicHigh
       /\ stream[w.start + 2].value = kMagicLow
       /\ stream[w.start + 3].value = w.size
  /\ \A v, w \in W : v.start < w.start => v.start + v.size <= w.start /\ v.of < w.of
  /\ \A x \in Nat, n \in 4..kMaxFrameSize :
       CountedBytes(stream, x, n) => \E w \in W : w.start = x /\ w.size = n

(* b is the part of the stream that follows place p. *)
Slice(b, stream, p) ==
  /\ b \in Seq(Byte) /\ p \in Nat
  /\ p + Len(b) <= Len(stream)
  /\ \A k \in 1..Len(b) : b[k] = stream[p + k]

(* A header at x that no whole frame begins with announces over the place.  *)
Announced(stream, W, x, place) ==
  /\ HasMagic(stream, x) /\ stream[x + 3].value \in 4..kMaxFrameSize
  /\ \A w \in W : w.start # x
  /\ x < place /\ place < x + stream[x + 3].value

PassedOver(stream, W, place, taken) ==
  \E x \in Nat : x + 3 <= taken /\ Announced(stream, W, x, place)

LEMMA PartOf ==
  ASSUME NEW S, NEW s \in Seq(S), NEW k \in Nat, NEW n \in Nat, k + n <= Len(s)
  PROVE  /\ SubSeq(s, k + 1, k + n) \in Seq(S) /\ Len(SubSeq(s, k + 1, k + n)) = n
         /\ \A j \in 1..n : SubSeq(s, k + 1, k + n)[j] = s[k + j]
<1>1. PICK d : d = SubSeq(s, k + 1, k + n)
  OBVIOUS
<1>2. Len(s) \in Nat /\ k + n \in Nat /\ (k + n) - (k + 1) + 1 = n
  OBVIOUS
<1>3. d \in Seq(S) /\ Len(d) = n
  BY <1>1, <1>2
<1>4. \A j \in 1..n : d[j] = s[k + j]
  BY <1>1, <1>2
<1> QED BY <1>1, <1>3, <1>4

LEMMA RestOf ==
  ASSUME NEW S, NEW s \in Seq(S), NEW n \in 0..Len(s)
  PROVE  /\ SubSeq(s, n + 1, Len(s)) \in Seq(S)
         /\ Len(SubSeq(s, n + 1, Len(s))) = Len(s) - n
         /\ \A j \in 1..(Len(s) - n) : SubSeq(s, n + 1, Len(s))[j] = s[n + j]
<1>1. PICK m \in Nat : m = Len(s) - n /\ n + m = Len(s) /\ n \in Nat
  OBVIOUS
<1>2. /\ SubSeq(s, n + 1, n + m) \in Seq(S) /\ Len(SubSeq(s, n + 1, n + m)) = m
      /\ \A j \in 1..m : SubSeq(s, n + 1, n + m)[j] = s[n + j]
  BY <1>1, PartOf
<1> QED BY <1>1, <1>2

LEMMA WholeFacts ==
  ASSUME NEW A, NEW W, Layout(A, W), NEW w \in W
  PROVE  /\ w.start \in Nat /\ w.size \in 4..kMaxFrameSize /\ w.of \in Nat
         /\ w.start + w.size <= Len(A)
         /\ A[w.start + 1].value = kMagicHigh
         /\ A[w.start + 2].value = kMagicLow
         /\ A[w.start + 3].value = w.size
BY DEF Layout

LEMMA WholeBytes ==
  ASSUME NEW A, NEW W, Layout(A, W), NEW w \in W, NEW k \in 1..w.size
  PROVE  A[w.start + k].at = k /\ A[w.start + k].of = w.of
BY DEF Layout

LEMMA WholeThere ==
  ASSUME NEW A, NEW W, Layout(A, W), NEW x \in Nat, NEW n \in 4..kMaxFrameSize,
         CountedBytes(A, x, n)
  PROVE  \E w \in W : w.start = x /\ w.size = n
BY DEF Layout

LEMMA WholeOrder ==
  ASSUME NEW A, NEW W, Layout(A, W), NEW v \in W, NEW w \in W, v.start < w.start
  PROVE  v.start + v.size <= w.start /\ v.of < w.of
BY DEF Layout

LEMMA SliceFacts ==
  ASSUME NEW A, NEW W, Layout(A, W), NEW p, NEW b, Slice(b, A, p)
  PROVE  /\ A \in Seq(Byte) /\ Len(A) \in Nat
         /\ b \in Seq(Byte) /\ Len(b) \in Nat /\ p \in Nat
         /\ p + Len(b) <= Len(A)
BY DEF Slice, Layout

LEMMA SliceAt ==
  ASSUME NEW A, NEW p, NEW b, Slice(b, A, p), NEW j \in 1..Len(b), NEW q, q = p + j
  PROVE  b[j] = A[q]
BY DEF Slice

LEMMA ShiftDown ==
  ASSUME NEW x \in Nat, NEW k \in Nat, NEW n \in Nat, NEW l \in Nat,
         (x + k) + n <= x + l
  PROVE  k + n <= l
  OBVIOUS

LEMMA WholeComplete ==
  ASSUME NEW A, NEW W, Layout(A, W), NEW p, NEW b, Slice(b, A, p),
         NEW w \in W, p <= w.start, w.start + w.size <= p + Len(b)
  PROVE  /\ w.start - p \in Nat
         /\ CompleteFrameAt(b, w.start - p)
<1> USE Sizes
<1>0. /\ b \in Seq(Byte) /\ Len(b) \in Nat /\ p \in Nat
      /\ w.start \in Nat /\ w.size \in 4..kMaxFrameSize
  BY SliceFacts, WholeFacts
<1>1. PICK k \in Nat, n \in 4..kMaxFrameSize : k = w.start - p /\ n = w.size
  BY <1>0
<1>2. k + n <= Len(b) /\ n \in Nat /\ w.start = p + k
  <2>1. /\ w.start \in Nat /\ p \in Nat /\ Len(b) \in Nat /\ p <= w.start
        /\ w.start + w.size <= p + Len(b)
    BY <1>0
  <2>2. n \in Nat /\ k = w.start - p /\ n = w.size
    BY <1>1
  <2>3. PICK s \in Nat, l \in Nat : s = w.start /\ l = Len(b)
    BY <2>1
  <2>4. s + n <= p + l /\ p \in Nat /\ k \in Nat /\ k = s - p
    BY <2>1, <2>2, <2>3
  <2>5. s = p + k
    BY <2>3, <2>4
  <2>6. (p + k) + n <= p + l
    BY <2>4, <2>5
  <2>7. k + n <= l
    BY <2>2, <2>3, <2>4, <2>6, ShiftDown
  <2> QED BY <2>2, <2>3, <2>5, <2>7
<1>3. \A j \in 1..n : /\ b[k + j] = A[w.start + j]
                      /\ b[k + j].at = j /\ b[k + j].of = w.of
  <2> SUFFICES ASSUME NEW j \in 1..n
               PROVE  b[k + j] = A[w.start + j] /\ b[k + j].at = j /\ b[k + j].of = w.of
    OBVIOUS
  <2>1. k + j \in 1..Len(b) /\ w.start + j = p + (k + j)
    BY <1>0, <1>2
  <2>2. b[k + j] = A[w.start + j]
    BY <2>1, SliceAt
  <2>3. A[w.start + j].at = j /\ A[w.start + j].of = w.of
    BY <1>1, WholeBytes
  <2> QED BY <2>2, <2>3
<1>a. b[k + 1] = A[w.start + 1] /\ b[k + 2] = A[w.start + 2] /\ b[k + 3] = A[w.start + 3]
  <2>1. 1 \in 1..n /\ 2 \in 1..n /\ 3 \in 1..n
    OBVIOUS
  <2> QED BY <1>3, <2>1
<1>4. b[k + 1].value = kMagicHigh /\ b[k + 2].value = kMagicLow /\ b[k + 3].value = n
  BY <1>1, <1>a, WholeFacts
<1>5. PICK d : d = Mid(b, k, n)
  OBVIOUS
<1>b. d = SubSeq(b, k + 1, k + n)
  BY <1>5 DEF Mid
<1>6. Len(d) = n /\ d \in Seq(Byte) /\ \A j \in 1..n : d[j] = b[k + j]
  <2>1. /\ SubSeq(b, k + 1, k + n) \in Seq(Byte) /\ Len(SubSeq(b, k + 1, k + n)) = n
        /\ \A j \in 1..n : SubSeq(b, k + 1, k + n)[j] = b[k + j]
    BY <1>0, <1>2, PartOf
  <2> QED BY <1>b, <2>1
<1>7. HasMagic(d, 0) /\ FrameSizeFromHeader(d) = Len(d)
  <2>1. d[1] = b[k + 1] /\ d[2] = b[k + 2] /\ d[3] = b[k + 3]
    BY <1>6
  <2> QED BY <1>4, <1>6, <2>1 DEF HasMagic, FrameSizeFromHeader
<1>8. \A j \in DOMAIN d : d[j].at = j /\ d[j].of = d[1].of
  <2>1. DOMAIN d = 1..n /\ 1 \in 1..n
    BY <1>6
  <2>2. \A j \in 1..n : d[j].at = j /\ d[j].of = w.of
    BY <1>3, <1>6
  <2> QED BY <2>1, <2>2
<1>9. Decodes(d)
  BY <1>6, <1>7, <1>8 DEF Decodes
<1>10. HasMagic(b, k) /\ Len(b) - k >= 3
  <2>1. k \in Nat /\ n \in Nat /\ n >= 4 /\ Len(b) \in Nat /\ k + n <= Len(b)
    BY <1>0, <1>2
  <2>2. k + 2 <= Len(b) /\ Len(b) - k >= 3
    BY <2>1
  <2> QED BY <1>4, <2>2 DEF HasMagic
<1>11. CompleteFrameAt(b, k)
  BY <1>0, <1>2, <1>4, <1>5, <1>9, <1>10 DEF CompleteFrameAt
<1> QED BY <1>1, <1>11

LEMMA CompleteWhole ==
  ASSUME NEW A, NEW W, Layout(A, W), NEW p, NEW b, Slice(b, A, p),
         NEW k \in Nat, CompleteFrameAt(b, k)
  PROVE  \E w \in W : w.start = p + k /\ w.size = b[k + 3].value
<1> USE Sizes
<1>1. /\ b \in Seq(Byte) /\ Len(b) \in Nat /\ p \in Nat
      /\ Len(A) \in Nat /\ p + Len(b) <= Len(A)
  BY SliceFacts
<1>2. PICK n \in 4..kMaxFrameSize :
        n = b[k + 3].value /\ k + n <= Len(b) /\ Decodes(Mid(b, k, n))
  BY <1>1, CompleteFits
<1>3. PICK d : d = Mid(b, k, n)
  OBVIOUS
<1>a. d = SubSeq(b, k + 1, k + n)
  BY <1>3 DEF Mid
<1>4. DOMAIN d = 1..n /\ \A j \in 1..n : d[j] = b[k + j]
  <2>1. n \in Nat /\ k + n <= Len(b) /\ b \in Seq(Byte)
    BY <1>1, <1>2
  <2>2. /\ SubSeq(b, k + 1, k + n) \in Seq(Byte) /\ Len(SubSeq(b, k + 1, k + n)) = n
        /\ \A j \in 1..n : SubSeq(b, k + 1, k + n)[j] = b[k + j]
    BY <2>1, PartOf
  <2>3. d \in Seq(Byte) /\ Len(d) = n
    BY <1>a, <2>2
  <2> QED BY <1>a, <2>2, <2>3
<1>5. \A j \in 1..n : d[j].at = j
  BY <1>2, <1>3, <1>4 DEF Decodes
<1>6. \A j \in 1..n : A[(p + k) + j] = b[k + j]
  <2> SUFFICES ASSUME NEW j \in 1..n PROVE A[(p + k) + j] = b[k + j]
    OBVIOUS
  <2>0. n \in Nat /\ k + n <= Len(b) /\ Len(b) \in Nat /\ p \in Nat
    BY <1>1, <1>2
  <2>1. k + j \in 1..Len(b) /\ (p + k) + j = p + (k + j)
    BY <2>0
  <2> QED BY <2>1, SliceAt
<1>7. A[(p + k) + 3].value = n
  <2>1. 3 \in 1..n
    OBVIOUS
  <2> QED BY <1>2, <1>6, <2>1
<1>8. \A j \in 1..n : A[(p + k) + j].at = j
  BY <1>4, <1>5, <1>6
<1>9. p + k \in Nat /\ (p + k) + n <= Len(A)
  <2>1. n \in Nat /\ k + n <= Len(b)
    BY <1>2
  <2>2. p \in Nat /\ Len(b) \in Nat /\ Len(A) \in Nat /\ p + Len(b) <= Len(A)
    BY <1>1
  <2> QED BY <2>1, <2>2
<1>10. PICK x \in Nat : x = p + k
  BY <1>9
<1>11. CountedBytes(A, x, n)
  BY <1>7, <1>8, <1>9, <1>10 DEF CountedBytes
<1>12. \E w \in W : w.start = x /\ w.size = n
  <2>1. n \in 4..kMaxFrameSize /\ x \in Nat
    BY <1>2, <1>10
  <2> QED BY <1>11, <2>1, WholeThere
<1> QED BY <1>2, <1>10, <1>12

(* A whole frame that begins before another one that is complete is it too. *)
LEMMA BeforeComplete ==
  ASSUME NEW A, NEW W, Layout(A, W), NEW p, NEW b, Slice(b, A, p),
         NEW k \in Nat, CompleteFrameAt(b, k),
         NEW w \in W, p <= w.start, w.start < p + k
  PROVE  /\ w.start - p \in 0..(k - 1)
         /\ CompleteFrameAt(b, w.start - p)
<1>1. PICK v \in W : v.start = p + k /\ v.size = b[k + 3].value
  BY CompleteWhole
<1>2. /\ b \in Seq(Byte) /\ Len(b) \in Nat /\ p \in Nat
      /\ w.start \in Nat /\ w.size \in Nat
  <2>1. b \in Seq(Byte) /\ Len(b) \in Nat /\ p \in Nat
    BY SliceFacts
  <2>2. w.start \in Nat /\ w.size \in 4..kMaxFrameSize
    BY WholeFacts
  <2> QED BY <2>1, <2>2, Sizes
<1>3. k + 4 <= Len(b)
  BY <1>2, CompleteFits
<1>4. w.start + w.size <= v.start
  BY <1>1, WholeOrder
<1>5. w.start + w.size <= p + Len(b)
  BY <1>1, <1>2, <1>3, <1>4
<1>6. w.start - p \in Nat /\ CompleteFrameAt(b, w.start - p)
  BY <1>2, <1>5, WholeComplete
<1> QED BY <1>2, <1>6

Idle(b) == Len(b) < kMaxFrameSize /\ \A k \in 0..Len(b) : ~CompleteFrameAt(b, k)

(* A turn skips no whole frame that a header did not announce over, takes a *)
(* frame that is next, and waits only if there is none.                     *)
Skipped(A, W, b, p, n) ==
  \A w \in W : p <= w.start /\ w.start < p + n => PassedOver(A, W, w.start, p + Len(b))

Taken(W, b, p, n, frame) ==
  \E w \in W : w.start = p /\ w.size = n /\ frame = <<w.of>>

LEMMA ResyncSkips ==
  ASSUME NEW A, NEW W, Layout(A, W), NEW p, NEW b, Slice(b, A, p),
         NEW n \in Nat \ {0}, CompleteFrameAt(b, n),
         \A k \in 1..(n - 1) : ~CompleteFrameAt(b, k),
         \A w \in W : w.start = p => ~CompleteFrameAt(b, 0)
  PROVE  Skipped(A, W, b, p, n)
<1> SUFFICES ASSUME NEW w \in W, p <= w.start, w.start < p + n PROVE FALSE
  BY DEF Skipped
<1>1. w.start - p \in 0..(n - 1) /\ CompleteFrameAt(b, w.start - p)
  BY BeforeComplete
<1>2. p \in Nat /\ w.start \in Nat
  BY DEF Slice, Layout
<1>3. CASE w.start = p
  BY <1>1, <1>2, <1>3
<1>4. CASE w.start # p
  BY <1>1, <1>2, <1>4
<1> QED BY <1>3, <1>4

LEMMA TurnStep ==
  ASSUME NEW A, NEW W, Layout(A, W), NEW p, NEW b, Slice(b, A, p), b # << >>,
         NEW n, n = Turn(b).removed
  PROVE  /\ n \in 0..Len(b)
         /\ \/ Turn(b).frame = << >> /\ Skipped(A, W, b, p, n)
            \/ Taken(W, b, p, n, Turn(b).frame)
         /\ n = 0 => Turn(b).frame = << >> /\ Idle(b)
<1> USE Sizes
<1>1. b \in Seq(Byte) /\ Len(b) \in Nat /\ Len(b) > 0 /\ p \in Nat
  BY DEF Slice
<1>2. n \in 0..Len(b)
  BY <1>1, TurnTyped
<1>3. PICK m :
        \/ /\ Turn(b) = Drop(m)
           /\ \/ NoneFound(b, m) \/ Skips(b, m) \/ TooShort(b, m)
              \/ BadSize(b, m) \/ Incomplete(b, m) \/ Refused(b, m)
        \/ /\ Turn(b) = [removed |-> m, frame |-> <<b[1].of>>]
           /\ Accepted(b, m)
  BY <1>1, TurnOutcome
<1>4. m = n
  BY <1>3 DEF Drop
<1>5. \A w \in W : /\ w.start \in Nat /\ w.size \in 4..kMaxFrameSize
                   /\ w.start + w.size <= Len(A)
  BY DEF Layout
<1>6. ASSUME NEW w \in W, p <= w.start, w.start + 2 <= p + Len(b)
      PROVE  HasMagic(b, w.start - p)
  <2>1. PICK k \in Nat : k = w.start - p
    BY <1>1, <1>5, <1>6
  <2>2. k + 2 <= Len(b) /\ w.start = p + k
    BY <1>1, <1>5, <1>6, <2>1
  <2>3. b[k + 1] = A[w.start + 1] /\ b[k + 2] = A[w.start + 2]
    <3>1. /\ k + 1 \in 1..Len(b) /\ k + 2 \in 1..Len(b)
          /\ p + (k + 1) = w.start + 1 /\ p + (k + 2) = w.start + 2
      BY <1>1, <2>2
    <3> QED BY <3>1 DEF Slice
  <2>4. A[w.start + 1].value = kMagicHigh /\ A[w.start + 2].value = kMagicLow
    BY WholeFacts
  <2> QED BY <2>1, <2>2, <2>3, <2>4 DEF HasMagic
<1>7. ASSUME NEW w \in W, w.start = p, Len(b) >= 3
      PROVE  b[3].value = w.size
  <2>1. b[3] = A[w.start + 3]
    BY <1>1, <1>7 DEF Slice
  <2> QED BY <2>1 DEF Layout
<1>8. ASSUME NEW w \in W, w.start = p, w.size <= Len(b)
      PROVE  CompleteFrameAt(b, 0)
  <2>1. p <= w.start /\ w.start + w.size <= p + Len(b) /\ w.start - p = 0
    BY <1>1, <1>5, <1>8
  <2>2. CompleteFrameAt(b, w.start - p)
    BY <2>1, WholeComplete
  <2> QED BY <2>1, <2>2
<1>10. CASE NoneFound(b, n) /\ Turn(b) = Drop(n)
  <2>1. Skipped(A, W, b, p, n)
    <3> SUFFICES ASSUME NEW w \in W, p <= w.start, w.start < p + n PROVE FALSE
      BY DEF Skipped
    <3>1. CASE w.start + 2 <= p + Len(b)
      <4>1. HasMagic(b, w.start - p) /\ w.start - p \in Nat
        BY <1>1, <1>5, <1>6, <3>1
      <4> QED BY <1>10, <4>1 DEF NoneFound
    <3>2. CASE ~(w.start + 2 <= p + Len(b))
      <4>1. w.start = p + Len(b) - 1 /\ n = Len(b)
        <5>1. /\ w.start \in Nat /\ p \in Nat /\ n \in Nat /\ n <= Len(b) /\ Len(b) \in Nat
              /\ p <= w.start /\ w.start < p + n /\ ~(w.start + 2 <= p + Len(b))
          BY <1>1, <1>2, <1>5, <3>2
        <5> QED BY <5>1
      <4>2. b[Len(b)].value # kMagicHigh
        BY <1>1, <1>10, <4>1 DEF NoneFound
      <4>3. b[Len(b)] = A[w.start + 1]
        <5>1. Len(b) \in 1..Len(b) /\ p + Len(b) = w.start + 1
          BY <1>1, <4>1
        <5> QED BY <5>1 DEF Slice
      <4> QED BY <4>2, <4>3 DEF Layout
    <3> QED BY <3>1, <3>2
  <2>2. n = 0 => Idle(b)
    BY <1>1, <1>10 DEF NoneFound, Idle, CompleteFrameAt
  <2> QED BY <1>2, <1>10, <2>1, <2>2 DEF Drop
<1>11. CASE Skips(b, n) /\ Turn(b) = Drop(n)
  <2>1. Skipped(A, W, b, p, n)
    <3> SUFFICES ASSUME NEW w \in W, p <= w.start, w.start < p + n PROVE FALSE
      BY DEF Skipped
    <3>1. n + 2 <= Len(b)
      BY <1>11 DEF Skips, HasMagic
    <3>2. w.start + 2 <= p + Len(b) /\ w.start - p \in Nat /\ w.start - p < n
      BY <1>1, <1>2, <1>5, <3>1
    <3> QED BY <1>6, <1>11, <3>2 DEF Skips
  <2>2. n # 0
    BY <1>11 DEF Skips
  <2> QED BY <1>2, <1>11, <2>1, <2>2 DEF Drop
<1>12. CASE TooShort(b, n) /\ Turn(b) = Drop(n)
  <2>1. Skipped(A, W, b, p, n)
    BY <1>1, <1>5, <1>12 DEF Skipped, TooShort
  <2>2. Idle(b)
    <3>1. \A k \in 0..Len(b) : ~CompleteFrameAt(b, k)
      <4> SUFFICES ASSUME NEW k \in 0..Len(b), CompleteFrameAt(b, k) PROVE FALSE
        OBVIOUS
      <4>1. k + 4 <= Len(b) /\ k \in Nat
        BY <1>1, CompleteFits
      <4> QED BY <1>1, <1>12, <4>1 DEF TooShort
    <3> QED BY <1>1, <1>12, <3>1 DEF TooShort, Idle
  <2> QED BY <1>2, <1>12, <2>1, <2>2 DEF Drop
<1>13. CASE BadSize(b, n) /\ Turn(b) = Drop(n)
  <2>1. \A w \in W : w.start # p
    BY <1>5, <1>7, <1>13 DEF BadSize, Headed
  <2>2. CASE n \in 1..Len(b) /\ CompleteFrameAt(b, n) /\ \A k \in 1..(n - 1) : ~CompleteFrameAt(b, k)
    <3>1. Skipped(A, W, b, p, n)
      BY <2>1, <2>2, ResyncSkips
    <3> QED BY <1>2, <1>13, <2>2, <3>1 DEF Drop
  <2>3. CASE n = 1
    <3>1. Skipped(A, W, b, p, n)
      BY <1>1, <1>5, <2>1, <2>3 DEF Skipped
    <3> QED BY <1>2, <1>13, <2>3, <3>1 DEF Drop
  <2> QED BY <1>13, <2>2, <2>3 DEF BadSize, Resyncs
<1>14. CASE Incomplete(b, n) /\ Turn(b) = Drop(n)
  <2>1. b[3].value \in 4..kMaxFrameSize /\ Len(b) < b[3].value /\ Len(b) >= 3
    BY <1>14 DEF Incomplete, Headed
  <2>2. ~CompleteFrameAt(b, 0)
    <3> SUFFICES ASSUME CompleteFrameAt(b, 0) PROVE FALSE
      OBVIOUS
    <3>1. 0 + b[0 + 3].value <= Len(b)
      BY <1>1, CompleteFits
    <3> QED BY <1>1, <2>1, <3>1
  <2>3. CASE /\ n \in 1..(b[3].value - 1) /\ CompleteFrameAt(b, n)
             /\ \A k \in 1..(n - 1) : ~CompleteFrameAt(b, k)
    <3>0. n \in Nat \ {0}
      BY <2>3
    <3>1. Skipped(A, W, b, p, n)
      BY <2>2, <2>3, <3>0, ResyncSkips
    <3> QED BY <1>2, <1>14, <3>0, <3>1 DEF Drop
  <2>4. CASE n = 0 /\ \A k \in 1..(b[3].value - 1) : ~CompleteFrameAt(b, k)
    <3>1. Skipped(A, W, b, p, n)
      BY <1>1, <1>5, <2>4 DEF Skipped
    <3>2. \A k \in 0..Len(b) : ~CompleteFrameAt(b, k)
      <4> SUFFICES ASSUME NEW k \in 0..Len(b), CompleteFrameAt(b, k) PROVE FALSE
        OBVIOUS
      <4>1. k # 0
        BY <2>2
      <4>2. k + 4 <= Len(b) /\ k \in Nat
        BY <1>1, CompleteFits
      <4>3. k \in 1..(b[3].value - 1)
        BY <1>1, <2>1, <4>1, <4>2
      <4> QED BY <2>4, <4>3
    <3>3. Idle(b)
      BY <1>1, <2>1, <3>2 DEF Idle
    <3> QED BY <1>2, <1>14, <3>1, <3>3 DEF Drop
  <2> QED BY <1>14, <2>3, <2>4 DEF Incomplete, Resyncs
<1>15. CASE Refused(b, n) /\ Turn(b) = Drop(n)
  <2>1. b[3].value \in 4..kMaxFrameSize /\ Len(b) >= b[3].value /\ Len(b) >= 3 /\ HasMagic(b, 0)
    BY <1>15 DEF Refused, Headed
  <2>2. ~CompleteFrameAt(b, 0)
    BY <1>1, <1>15, CompleteFits DEF Refused
  <2>3. \A w \in W : w.start # p
    BY <1>7, <1>8, <2>1, <2>2
  <2>4. CASE /\ n \in 1..(b[3].value - 1) /\ CompleteFrameAt(b, n)
             /\ \A k \in 1..(n - 1) : ~CompleteFrameAt(b, k)
    <3>0. n \in Nat \ {0}
      BY <2>4
    <3>1. Skipped(A, W, b, p, n)
      BY <2>2, <2>4, <3>0, ResyncSkips
    <3> QED BY <1>2, <1>15, <3>0, <3>1 DEF Drop
  <2>5. CASE n = b[3].value
    <3>1. Skipped(A, W, b, p, n)
      <4> SUFFICES ASSUME NEW w \in W, p <= w.start, w.start < p + n
                   PROVE  PassedOver(A, W, w.start, p + Len(b))
        BY DEF Skipped
      <4>1. p < w.start
        BY <1>1, <1>5, <2>3
      <4>2. b[1] = A[p + 1] /\ b[2] = A[p + 2] /\ b[3] = A[p + 3]
        BY <1>1, <2>1 DEF Slice
      <4>3. HasMagic(A, p)
        <5>1. p + 2 <= Len(A)
          BY <1>1, <2>1, SliceFacts
        <5> QED BY <2>1, <4>2, <5>1 DEF HasMagic
      <4>4. A[p + 3].value = n /\ n \in 4..kMaxFrameSize
        BY <2>1, <2>5, <4>2
      <4>5. Announced(A, W, p, w.start)
        BY <2>3, <4>1, <4>3, <4>4 DEF Announced
      <4>6. p + 3 <= p + Len(b)
        BY <1>1, <2>1
      <4> QED BY <1>1, <4>5, <4>6 DEF PassedOver
    <3>2. n # 0
      BY <2>1, <2>5
    <3> QED BY <1>2, <1>15, <3>1, <3>2 DEF Drop
  <2> QED BY <1>15, <2>4, <2>5 DEF Refused, Resyncs
<1>16. CASE Accepted(b, n) /\ Turn(b) = [removed |-> n, frame |-> <<b[1].of>>]
  <2>1. /\ b[3].value \in 4..kMaxFrameSize /\ Len(b) >= b[3].value /\ Len(b) >= 3
        /\ HasMagic(b, 0) /\ Decodes(Mid(b, 0, b[3].value)) /\ n = b[3].value
    BY <1>16 DEF Accepted, Headed
  <2>2. CompleteFrameAt(b, 0)
    BY <1>1, <2>1 DEF CompleteFrameAt
  <2>3. PICK w \in W : w.start = p + 0 /\ w.size = b[0 + 3].value
    BY <2>2, CompleteWhole
  <2>4. w.start = p /\ w.size = n
    BY <1>1, <2>1, <2>3
  <2>5. b[1].of = w.of
    <3>1. b[1] = A[w.start + 1]
      BY <1>1, <2>4 DEF Slice
    <3>2. 1 \in 1..w.size
      BY <2>1, <2>4
    <3> QED BY <3>1, <3>2 DEF Layout
  <2>6. Taken(W, b, p, n, Turn(b).frame)
    BY <1>16, <2>4, <2>5 DEF Taken
  <2>7. n # 0
    BY <2>1
  <2> QED BY <1>2, <2>6, <2>7
<1> QED BY <1>3, <1>4, <1>10, <1>11, <1>12, <1>13, <1>14, <1>15, <1>16

-----------------------------------------------------------------------------
(* What the loop makes of a buffer at place p of the stream: what is left   *)
(* begins at q and is idle, the decoded frames are whole ones between p and *)
(* q, in their order, and the others there were announced over.             *)
Drained(A, W, b, p, r, q) ==
  /\ r \in Result /\ q \in Nat /\ p <= q /\ q + Len(r.rest) = p + Len(b)
  /\ Slice(r.rest, A, q) /\ Idle(r.rest)
  /\ \A i, j \in DOMAIN r.frames : i < j => r.frames[i] < r.frames[j]
  /\ \A i \in DOMAIN r.frames :
       \E w \in W : p <= w.start /\ w.start + w.size <= q /\ r.frames[i] = w.of
  /\ \A w \in W : p <= w.start /\ w.start < q =>
       \/ \E i \in DOMAIN r.frames : r.frames[i] = w.of
       \/ PassedOver(A, W, w.start, p + Len(b))

LEMMA DrainStops ==
  ASSUME NEW A, NEW W, Layout(A, W), NEW p, NEW b, Slice(b, A, p), Idle(b)
  PROVE  Drained(A, W, b, p, [rest |-> b, frames |-> << >>], p)
<1>1. /\ b \in Seq(Byte) /\ Len(b) \in Nat /\ p \in Nat
  BY SliceFacts
<1>2. PICK r : r = [rest |-> b, frames |-> << >>]
  OBVIOUS
<1>3. r \in Result /\ r.rest = b /\ DOMAIN r.frames = {}
  BY <1>1, <1>2 DEF Result
<1>4. \A w \in W : ~(p <= w.start /\ w.start < p)
  BY <1>1, WholeFacts
<1>5. Drained(A, W, b, p, r, p)
  BY <1>1, <1>3, <1>4 DEF Drained
<1> QED BY <1>2, <1>5

LEMMA SliceRest ==
  ASSUME NEW A, NEW p, NEW b, Slice(b, A, p), NEW n \in 1..Len(b)
  PROVE  /\ Slice(SubSeq(b, n + 1, Len(b)), A, p + n)
         /\ Len(SubSeq(b, n + 1, Len(b))) = Len(b) - n
         /\ SubSeq(b, n + 1, Len(b)) \in Seq(Byte)
<1>0. PICK c : c = SubSeq(b, n + 1, Len(b))
  OBVIOUS
<1>1. /\ b \in Seq(Byte) /\ Len(b) \in Nat /\ p \in Nat /\ p + Len(b) <= Len(A)
  BY DEF Slice
<1>2. c \in Seq(Byte) /\ Len(c) = Len(b) - n /\ \A k \in 1..Len(c) : c[k] = b[n + k]
  <2>1. b \in Seq(Byte) /\ n \in 0..Len(b)
    BY <1>1
  <2>2. /\ SubSeq(b, n + 1, Len(b)) \in Seq(Byte)
        /\ Len(SubSeq(b, n + 1, Len(b))) = Len(b) - n
        /\ \A j \in 1..(Len(b) - n) : SubSeq(b, n + 1, Len(b))[j] = b[n + j]
    BY <2>1, RestOf
  <2> QED BY <1>0, <2>2
<1>3. ASSUME NEW k \in 1..Len(c) PROVE c[k] = A[(p + n) + k]
  <2>1. n + k \in 1..Len(b) /\ (p + n) + k = p + (n + k)
    BY <1>1, <1>2
  <2>2. b[n + k] = A[(p + n) + k]
    BY <2>1, SliceAt
  <2> QED BY <1>2, <2>2
<1>4. p + n \in Nat /\ (p + n) + Len(c) <= Len(A)
  BY <1>1, <1>2
<1>5. Slice(c, A, p + n)
  BY <1>2, <1>3, <1>4 DEF Slice
<1> QED BY <1>0, <1>2, <1>5

LEMMA EmptyIdle == Idle(<< >>)
  BY Sizes DEF Idle, CompleteFrameAt, HasMagic

LEMMA TurnSkips ==
  ASSUME NEW A, NEW W, Layout(A, W), NEW p, NEW b, Slice(b, A, p),
         NEW n \in 1..Len(b), Skipped(A, W, b, p, n),
         NEW c \in Seq(Byte), Len(c) = Len(b) - n,
         NEW r, NEW q, Drained(A, W, c, p + n, r, q)
  PROVE  Drained(A, W, b, p, r, q)
<1>1. /\ b \in Seq(Byte) /\ Len(b) \in Nat /\ p \in Nat
  BY SliceFacts
<1>2. Len(c) = Len(b) - n /\ c \in Seq(Byte)
  OBVIOUS
<1>3. /\ r \in Result /\ q \in Nat /\ p + n <= q /\ q + Len(r.rest) = (p + n) + Len(c)
      /\ Slice(r.rest, A, q) /\ Idle(r.rest)
      /\ \A i, j \in DOMAIN r.frames : i < j => r.frames[i] < r.frames[j]
  BY DEF Drained
<1>4. (p + n) + Len(c) = p + Len(b) /\ p <= q /\ p <= p + n
  <2>1. PICK l \in Nat : l = Len(b)
    BY <1>1
  <2>2. p \in Nat /\ n \in Nat /\ Len(c) = l - n
    BY <1>1, <1>2, <2>1
  <2>3. (p + n) + Len(c) = p + Len(b)
    BY <2>1, <2>2
  <2>4. q \in Nat /\ p + n <= q
    BY <1>3
  <2>5. p <= q /\ p <= p + n
    BY <2>2, <2>4
  <2> QED BY <2>1, <2>3, <2>5
<1>5. ASSUME NEW i \in DOMAIN r.frames
      PROVE  \E w \in W : p <= w.start /\ w.start + w.size <= q /\ r.frames[i] = w.of
  <2>1. PICK w \in W : p + n <= w.start /\ w.start + w.size <= q /\ r.frames[i] = w.of
    BY DEF Drained
  <2>2. p <= w.start
    BY <1>1, <2>1, WholeFacts
  <2> QED BY <2>1, <2>2
<1>6. ASSUME NEW w \in W, p <= w.start, w.start < q
      PROVE  \/ \E i \in DOMAIN r.frames : r.frames[i] = w.of
             \/ PassedOver(A, W, w.start, p + Len(b))
  <2>1. w.start \in Nat
    BY WholeFacts
  <2>2. CASE w.start < p + n
    BY <1>6, <2>2 DEF Skipped
  <2>3. CASE p + n <= w.start
    BY <1>4, <1>6, <2>3 DEF Drained
  <2> QED BY <1>1, <2>1, <2>2, <2>3
<1> QED BY <1>3, <1>4, <1>5, <1>6 DEF Drained

LEMMA FramePut ==
  ASSUME NEW f \in Nat, NEW s \in Seq(Nat)
  PROVE  LET t == <<f>> \o s
         IN  /\ t \in Seq(Nat) /\ Len(t) = Len(s) + 1
             /\ t[1] = f /\ \A i \in DOMAIN s : i + 1 \in DOMAIN t /\ t[i + 1] = s[i]
             /\ \A j \in DOMAIN t : j = 1 \/ (j - 1 \in DOMAIN s /\ t[j] = s[j - 1])
<1> DEFINE t == <<f>> \o s
<1>1. <<f>> \in Seq(Nat) /\ Len(<<f>>) = 1 /\ <<f>>[1] = f
  OBVIOUS
<1>2. t \in Seq(Nat) /\ Len(t) = Len(s) + 1
  BY <1>1
<1>3. t[1] = f
  BY <1>1
<1>4. \A i \in 1..Len(s) : t[i + 1] = s[i]
  BY <1>1
<1>5. DOMAIN t = 1..(Len(s) + 1) /\ DOMAIN s = 1..Len(s) /\ Len(s) \in Nat
  BY <1>2
<1>6. ASSUME NEW j \in DOMAIN t, j # 1 PROVE j - 1 \in DOMAIN s /\ t[j] = s[j - 1]
  <2>1. j - 1 \in 1..Len(s) /\ (j - 1) + 1 = j
    BY <1>5, <1>6
  <2> QED BY <1>4, <1>5, <2>1
<1>7. \A i \in DOMAIN s : i + 1 \in DOMAIN t /\ t[i + 1] = s[i]
  BY <1>4, <1>5
<1>8. \A j \in DOMAIN t : j = 1 \/ (j - 1 \in DOMAIN s /\ t[j] = s[j - 1])
  BY <1>6
<1> QED BY <1>2, <1>3, <1>7, <1>8

LEMMA TurnTakes ==
  ASSUME NEW A, NEW W, Layout(A, W), NEW p, NEW b, Slice(b, A, p),
         NEW n \in 1..Len(b), NEW f, Taken(W, b, p, n, f),
         NEW c \in Seq(Byte), Len(c) = Len(b) - n,
         NEW r, NEW q, Drained(A, W, c, p + n, r, q)
  PROVE  Drained(A, W, b, p, [rest |-> r.rest, frames |-> f \o r.frames], q)
<1>1. /\ b \in Seq(Byte) /\ Len(b) \in Nat /\ p \in Nat
  BY SliceFacts
<1>2. Len(c) = Len(b) - n /\ c \in Seq(Byte)
  OBVIOUS
<1>3. /\ r \in Result /\ q \in Nat /\ p + n <= q /\ q + Len(r.rest) = (p + n) + Len(c)
      /\ Slice(r.rest, A, q) /\ Idle(r.rest)
      /\ \A i, j \in DOMAIN r.frames : i < j => r.frames[i] < r.frames[j]
  BY DEF Drained
<1>4. (p + n) + Len(c) = p + Len(b) /\ p <= q /\ p <= p + n
  <2>1. PICK l \in Nat : l = Len(b)
    BY <1>1
  <2>2. p \in Nat /\ n \in Nat /\ Len(c) = l - n
    BY <1>1, <1>2, <2>1
  <2>3. (p + n) + Len(c) = p + Len(b)
    BY <2>1, <2>2
  <2>4. q \in Nat /\ p + n <= q
    BY <1>3
  <2>5. p <= q /\ p <= p + n
    BY <2>2, <2>4
  <2> QED BY <2>1, <2>3, <2>5
<1>5. PICK v \in W : v.start = p /\ v.size = n /\ f = <<v.of>>
  BY DEF Taken
<1>6. v.of \in Nat
  BY WholeFacts
<1>7. r.rest \in Seq(Byte) /\ r.frames \in Seq(Nat)
  BY <1>3 DEF Result
<1>8. PICK t : t = f \o r.frames
  OBVIOUS
<1>9. /\ t \in Seq(Nat) /\ 1 \in DOMAIN t /\ t[1] = v.of
      /\ \A i \in DOMAIN r.frames : i + 1 \in DOMAIN t /\ t[i + 1] = r.frames[i]
      /\ \A j \in DOMAIN t : j = 1 \/ (j - 1 \in DOMAIN r.frames /\ t[j] = r.frames[j - 1])
  <2>1. /\ t \in Seq(Nat) /\ Len(t) = Len(r.frames) + 1 /\ t[1] = v.of
        /\ \A i \in DOMAIN r.frames : i + 1 \in DOMAIN t /\ t[i + 1] = r.frames[i]
        /\ \A j \in DOMAIN t : j = 1 \/ (j - 1 \in DOMAIN r.frames /\ t[j] = r.frames[j - 1])
    <3>1. PICK g \in Nat : g = v.of /\ t = <<g>> \o r.frames
      BY <1>5, <1>6, <1>8
    <3>2. PICK s \in Seq(Nat) : s = r.frames
      BY <1>7
    <3>3. LET u == <<g>> \o s
          IN  /\ u \in Seq(Nat) /\ Len(u) = Len(s) + 1
              /\ u[1] = g /\ \A i \in DOMAIN s : i + 1 \in DOMAIN u /\ u[i + 1] = s[i]
              /\ \A j \in DOMAIN u : j = 1 \/ (j - 1 \in DOMAIN s /\ u[j] = s[j - 1])
      BY FramePut
    <3>4. t = <<g>> \o s
      BY <3>1, <3>2
    <3> QED BY <3>1, <3>2, <3>3, <3>4
  <2> QED BY <1>7, <2>1
<1>10. PICK z : z = [rest |-> r.rest, frames |-> t]
  OBVIOUS
<1>11. z \in Result /\ z.rest = r.rest /\ z.frames = t
  BY <1>7, <1>9, <1>10 DEF Result
<1>12. ASSUME NEW i \in DOMAIN r.frames
       PROVE  \E w \in W : p + n <= w.start /\ w.start + w.size <= q /\ r.frames[i] = w.of
  BY DEF Drained
<1>13. \A i \in DOMAIN r.frames : v.of < r.frames[i]
  <2> SUFFICES ASSUME NEW i \in DOMAIN r.frames PROVE v.of < r.frames[i]
    OBVIOUS
  <2>1. PICK w \in W : p + n <= w.start /\ r.frames[i] = w.of
    BY <1>12
  <2>2. v.start < w.start
    BY <1>1, <1>5, <2>1, WholeFacts
  <2> QED BY <2>1, <2>2, WholeOrder
<1>14. ASSUME NEW i \in DOMAIN t, NEW j \in DOMAIN t, i < j
       PROVE  t[i] < t[j]
  <2>1. i \in Nat /\ j \in Nat /\ i >= 1
    BY <1>9
  <2>2. j # 1 /\ j - 1 \in DOMAIN r.frames /\ t[j] = r.frames[j - 1]
    BY <1>9, <1>14, <2>1
  <2>3. CASE i = 1
    BY <1>9, <1>13, <2>2, <2>3
  <2>4. CASE i # 1
    <3>1. i - 1 \in DOMAIN r.frames /\ t[i] = r.frames[i - 1] /\ i - 1 < j - 1
      BY <1>9, <1>14, <2>1, <2>4
    <3> QED BY <1>3, <2>2, <3>1
  <2> QED BY <2>3, <2>4
<1>15. ASSUME NEW j \in DOMAIN t
       PROVE  \E w \in W : p <= w.start /\ w.start + w.size <= q /\ t[j] = w.of
  <2>1. CASE j = 1
    <3>1. p <= v.start /\ v.start + v.size <= q /\ t[j] = v.of
      BY <1>1, <1>3, <1>5, <1>9, <2>1
    <3> QED BY <3>1
  <2>2. CASE j # 1
    <3>1. j - 1 \in DOMAIN r.frames /\ t[j] = r.frames[j - 1]
      BY <1>9, <2>2
    <3>2. PICK w \in W : p + n <= w.start /\ w.start + w.size <= q /\ t[j] = w.of
      BY <1>12, <3>1
    <3>3. p <= w.start
      BY <1>1, <3>2, WholeFacts
    <3> QED BY <3>2, <3>3
  <2> QED BY <2>1, <2>2
<1>16. ASSUME NEW w \in W, p <= w.start, w.start < q
       PROVE  \/ \E i \in DOMAIN t : t[i] = w.of
              \/ PassedOver(A, W, w.start, p + Len(b))
  <2>1. w.start \in Nat
    BY WholeFacts
  <2>2. CASE w.start = p
    <3>1. w.of = v.of
      <4>1. 1 \in 1..w.size /\ 1 \in 1..v.size
        BY WholeFacts
      <4>2. A[w.start + 1].of = w.of /\ A[v.start + 1].of = v.of
        BY <4>1, WholeBytes
      <4> QED BY <1>5, <2>2, <4>2
    <3> QED BY <1>9, <3>1
  <2>3. CASE p < w.start
    <3>1. p + n <= w.start
      BY <1>5, <2>3, WholeOrder
    <3>2. \/ \E i \in DOMAIN r.frames : r.frames[i] = w.of
          \/ PassedOver(A, W, w.start, p + Len(b))
      BY <1>4, <1>16, <3>1 DEF Drained
    <3>3. (\E i \in DOMAIN r.frames : r.frames[i] = w.of) => \E i \in DOMAIN t : t[i] = w.of
      BY <1>9
    <3> QED BY <3>2, <3>3
  <2> QED BY <1>1, <1>16, <2>1, <2>2, <2>3
<1>17. Drained(A, W, b, p, z, q)
  BY <1>3, <1>4, <1>11, <1>14, <1>15, <1>16 DEF Drained
<1> QED BY <1>8, <1>10, <1>17

LEMMA DrainStep ==
  ASSUME NEW A, NEW W, Layout(A, W), NEW p, NEW b, Slice(b, A, p)
  PROVE  \E q : Drained(A, W, b, p, Drain[b], q)
<1> DEFINE T == {n \in Nat : \A c, x : Slice(c, A, x) /\ Len(c) = n
                               => \E q : Drained(A, W, c, x, Drain[c], q)}
<1>1. ASSUME NEW n \in Nat, \A m \in Nat : m < n => m \in T
      PROVE  n \in T
  <2> SUFFICES ASSUME NEW c, NEW x, Slice(c, A, x), Len(c) = n
               PROVE  \E q : Drained(A, W, c, x, Drain[c], q)
    OBVIOUS
  <2> HIDE DEF T
  <2>1. c \in Seq(Byte) /\ x \in Nat
    BY DEF Slice
  <2>2. Drain[c] = DrainBody(Drain, c)
    BY <2>1, DrainEquation
  <2>3. CASE c = << >>
    <3>1. Drain[c] = [rest |-> c, frames |-> << >>]
      BY <2>2, <2>3 DEF DrainBody
    <3>2. Idle(c)
      BY <2>3, EmptyIdle
    <3> QED BY <3>1, <3>2, DrainStops
  <2>4. CASE c # << >>
    <3>1. PICK k, f : k = Turn(c).removed /\ f = Turn(c).frame
      OBVIOUS
    <3>2. /\ k \in 0..Len(c)
          /\ (f = << >> /\ Skipped(A, W, c, x, k)) \/ Taken(W, c, x, k, f)
          /\ k = 0 => f = << >> /\ Idle(c)
      BY <2>4, <3>1, TurnStep
    <3>3. CASE k = 0
      <4>1. Drain[c] = [rest |-> c, frames |-> << >>]
        BY <2>2, <2>4, <3>1, <3>3 DEF DrainBody
      <4> QED BY <3>2, <3>3, <4>1, DrainStops
    <3>4. CASE k # 0
      <4>1. PICK d : d = SubSeq(c, k + 1, Len(c))
        OBVIOUS
      <4>2. k \in 1..Len(c)
        BY <2>1, <3>2, <3>4
      <4>3. Slice(d, A, x + k) /\ Len(d) = Len(c) - k /\ d \in Seq(Byte)
        <5>1. /\ Slice(SubSeq(c, k + 1, Len(c)), A, x + k)
              /\ Len(SubSeq(c, k + 1, Len(c))) = Len(c) - k
              /\ SubSeq(c, k + 1, Len(c)) \in Seq(Byte)
          BY <4>2, SliceRest
        <5> QED BY <4>1, <5>1
      <4>4. Len(d) \in Nat /\ Len(d) < n
        BY <2>1, <4>2, <4>3
      <4>5. Len(d) \in T
        BY <1>1, <4>4
      <4>6. PICK r, q : r = Drain[d] /\ Drained(A, W, d, x + k, r, q)
        BY <4>3, <4>5 DEF T
      <4>7. Drain[c] = [rest |-> r.rest, frames |-> f \o r.frames]
        BY <2>2, <2>4, <3>1, <3>4, <4>1, <4>6 DEF DrainBody
      <4>8. CASE f = << >> /\ Skipped(A, W, c, x, k)
        <5>1. r.frames \in Seq(Nat) /\ r = [rest |-> r.rest, frames |-> r.frames]
          BY <4>6 DEF Drained, Result
        <5>2. Drain[c] = r
          BY <4>7, <4>8, <5>1
        <5>3. Drained(A, W, c, x, r, q)
          <6>1. d \in Seq(Byte) /\ Len(d) = Len(c) - k /\ k \in 1..Len(c)
            BY <4>2, <4>3
          <6>2. Drained(A, W, d, x + k, r, q) /\ Skipped(A, W, c, x, k)
            BY <4>6, <4>8
          <6> QED BY <6>1, <6>2, TurnSkips
        <5> QED BY <5>2, <5>3
      <4>9. CASE Taken(W, c, x, k, f)
        <5>1. Drained(A, W, c, x, [rest |-> r.rest, frames |-> f \o r.frames], q)
          <6>1. d \in Seq(Byte) /\ Len(d) = Len(c) - k /\ k \in 1..Len(c)
            BY <4>2, <4>3
          <6>2. Drained(A, W, d, x + k, r, q) /\ Taken(W, c, x, k, f)
            BY <4>6, <4>9
          <6> QED BY <6>1, <6>2, TurnTakes
        <5> QED BY <4>7, <5>1
      <4> QED BY <3>2, <4>8, <4>9
    <3> QED BY <3>3, <3>4
  <2> QED BY <2>3, <2>4
<1>2. \A n \in Nat : n \in T
  <2> HIDE DEF T
  <2> QED BY <1>1, NatStrong
<1>3. Len(b) \in T
  BY <1>2 DEF Slice
<1> QED BY <1>3

-----------------------------------------------------------------------------
(* The stream that is made of units *)

Cut(u, k) == SubSeq(u, 1, k)

LEMMA CutFacts ==
  ASSUME NEW S, NEW u \in Seq(S), NEW k \in 0..Len(u)
  PROVE  /\ Cut(u, k) \in Seq(S) /\ Len(Cut(u, k)) = k
         /\ \A j \in 1..k : Cut(u, k)[j] = u[j]
         /\ \A j \in 0..k : Cut(Cut(u, k), j) = Cut(u, j)
         /\ Cut(u, 0) = << >> /\ Cut(u, Len(u)) = u
<1>1. \A m \in 0..Len(u) : /\ Cut(u, m) \in Seq(S) /\ Len(Cut(u, m)) = m
                           /\ \A j \in 1..m : Cut(u, m)[j] = u[j]
  BY DEF Cut
<1>2. ASSUME NEW j \in 0..k PROVE Cut(Cut(u, k), j) = Cut(u, j)
  <2>1. PICK c \in Seq(S) : c = Cut(u, k) /\ Len(c) = k /\ \A i \in 1..k : c[i] = u[i]
    BY <1>1
  <2>2. Cut(c, j) \in Seq(S) /\ Len(Cut(c, j)) = j /\ \A i \in 1..j : Cut(c, j)[i] = c[i]
    BY <2>1 DEF Cut
  <2>3. j \in 0..Len(u)
    OBVIOUS
  <2>4. \A i \in 1..j : Cut(c, j)[i] = Cut(u, j)[i]
    BY <1>1, <2>1, <2>2, <2>3
  <2>5. Cut(c, j) = Cut(u, j)
    BY <1>1, <2>2, <2>3, <2>4, SeqEqual
  <2> QED BY <2>1, <2>5
<1>3. Cut(u, 0) = << >>
  BY <1>1
<1>4. Cut(u, Len(u)) = u
  <2>1. Len(u) \in 0..Len(u)
    OBVIOUS
  <2>2. \A i \in 1..Len(u) : Cut(u, Len(u))[i] = u[i]
    BY <1>1, <2>1
  <2> QED BY <1>1, <2>1, <2>2, SeqEqual
<1> QED BY <1>1, <1>2, <1>3, <1>4

LEMMA UnitBytes ==
  ASSUME NEW u \in Seq(Unit), NEW k \in 1..Len(u)
  PROVE  /\ u[k].bytes \in Seq(Byte) /\ u[k].frame \in BOOLEAN
         /\ Len(u[k].bytes) \in Nat
<1>1. u[k] \in Unit
  OBVIOUS
<1>2. u[k].bytes \in Seq(Byte) /\ u[k].frame \in BOOLEAN
  BY <1>1 DEF Unit
<1> QED BY <1>2

BytesBody(F, u) ==
  IF u = << >> THEN << >>
  ELSE F[SubSeq(u, 1, Len(u) - 1)] \o u[Len(u)].bytes

LEMMA BytesSolution ==
  \E F \in [Seq(Unit) -> Seq(Byte)] : F = [u \in Seq(Unit) |-> BytesBody(F, u)]
<1> DEFINE S == Seq(Unit)
           R == Seq(Byte)
           Last == {<< >>}
           size == [u \in S |-> Len(u)]
           next == [u \in S |-> IF u = << >> THEN << >> ELSE SubSeq(u, 1, Len(u) - 1)]
           base == [u \in S |-> << >>]
           combine == [ur \in S \X R |->
                         IF ur[1] = << >> THEN << >> ELSE ur[2] \o ur[1][Len(ur[1])].bytes]
<1>1. ASSUME NEW u \in S, u # << >>
      PROVE  /\ SubSeq(u, 1, Len(u) - 1) \in S
             /\ Len(SubSeq(u, 1, Len(u) - 1)) < Len(u)
  <2>1. Len(u) - 1 \in 0..Len(u)
    BY <1>1
  <2>2. Cut(u, Len(u) - 1) \in S /\ Len(Cut(u, Len(u) - 1)) = Len(u) - 1
    BY <2>1, CutFacts
  <2> QED BY <1>1, <2>2 DEF Cut
<1>2. Last \in SUBSET S /\ size \in [S -> Nat] /\ base \in [S -> R] /\ next \in [S -> S]
  BY <1>1
<1>3. combine \in [S \X R -> R]
  <2> SUFFICES ASSUME NEW ur \in S \X R
               PROVE  (IF ur[1] = << >> THEN << >> ELSE ur[2] \o ur[1][Len(ur[1])].bytes) \in R
    OBVIOUS
  <2>1. PICK u \in S, r \in R : u = ur[1] /\ r = ur[2]
    OBVIOUS
  <2>2. CASE u = << >>
    BY <2>1, <2>2
  <2>3. CASE u # << >>
    <3>1. Len(u) \in 1..Len(u)
      BY <2>3
    <3>2. PICK x \in Seq(Byte) : x = u[Len(u)].bytes
      BY <3>1, UnitBytes
    <3>3. r \o x \in Seq(Byte)
      OBVIOUS
    <3> QED BY <2>1, <2>3, <3>2, <3>3
  <2> QED BY <2>2, <2>3
<1>4. \A u \in S \ Last : size[next[u]] < size[u]
  BY <1>1
<1>5. PICK F \in [S -> R] :
        \A u \in S : F[u] = IF u \in Last THEN base[u] ELSE combine[<<u, F[next[u]]>>]
  <2> HIDE DEF S, R, Last, size, next, base, combine
  <2>1. Shrinks(S, R, Last, size, next, base, combine)
    BY <1>2, <1>3, <1>4 DEF Shrinks
  <2>2. PICK F : Solution(F, S, R, Last, next, base, combine)
    BY <2>1, RecursiveSolution
  <2> QED BY <2>2 DEF Solution
<1>6. ASSUME NEW u \in S PROVE F[u] = BytesBody(F, u)
  <2>1. CASE u = << >>
    BY <1>5, <2>1 DEF BytesBody
  <2>2. CASE u # << >>
    <3>1. PICK v \in S : v = SubSeq(u, 1, Len(u) - 1) /\ v = next[u]
      BY <1>1, <2>2
    <3>2. PICK r \in R : r = F[v]
      BY <1>5
    <3>3. F[u] = combine[<<u, r>>]
      BY <1>5, <2>2, <3>1, <3>2
    <3>4. combine[<<u, r>>] = r \o u[Len(u)].bytes
      BY <2>2
    <3>5. BytesBody(F, u) = r \o u[Len(u)].bytes
      BY <2>2, <3>1, <3>2 DEF BytesBody
    <3> QED BY <3>3, <3>4, <3>5
  <2> QED BY <2>1, <2>2
<1>7. F = [u \in S |-> BytesBody(F, u)]
  BY <1>5, <1>6
<1> QED BY <1>5, <1>7

LEMMA BytesEquation ==
  ASSUME NEW u \in Seq(Unit)
  PROVE  /\ BytesOf[u] = BytesBody(BytesOf, u)
         /\ BytesOf[u] \in Seq(Byte)
<1> DEFINE Eq(F) == F = [v \in Seq(Unit) |-> BytesBody(F, v)]
<1>1. \E F : Eq(F)
  BY BytesSolution
<1>2. BytesOf = CHOOSE F : Eq(F)
  BY DEF BytesOf, BytesBody
<1>3. Eq(BytesOf)
  <2> HIDE DEF Eq
  <2> QED BY <1>1, <1>2
<1>4. \A v \in Seq(Unit) : BytesOf[v] = BytesBody(BytesOf, v)
  <2> SUFFICES ASSUME NEW v \in Seq(Unit) PROVE BytesOf[v] = BytesBody(BytesOf, v)
    OBVIOUS
  <2> QED BY <1>3
<1> HIDE DEF Eq
<1> DEFINE T == {n \in Nat : \A v \in Seq(Unit) : Len(v) = n => BytesOf[v] \in Seq(Byte)}
<1>5. ASSUME NEW n \in Nat, \A m \in Nat : m < n => m \in T
      PROVE  n \in T
  <2> SUFFICES ASSUME NEW v \in Seq(Unit), Len(v) = n PROVE BytesOf[v] \in Seq(Byte)
    OBVIOUS
  <2>1. CASE v = << >>
    <3>1. BytesOf[v] = << >>
      BY <1>4, <2>1 DEF BytesBody
    <3> QED BY <3>1
  <2>2. CASE v # << >>
    <3>1. Len(v) - 1 \in 0..Len(v) /\ Len(v) \in 1..Len(v) /\ Len(v) - 1 < n /\ Len(v) - 1 \in Nat
      BY <2>2
    <3>2. PICK c \in Seq(Unit) : c = SubSeq(v, 1, Len(v) - 1) /\ Len(c) = Len(v) - 1
      <4>1. Cut(v, Len(v) - 1) \in Seq(Unit) /\ Len(Cut(v, Len(v) - 1)) = Len(v) - 1
        BY <3>1, CutFacts
      <4> QED BY <4>1 DEF Cut
    <3>3. BytesOf[c] \in Seq(Byte)
      BY <1>5, <3>1, <3>2
    <3>4. PICK x \in Seq(Byte) : x = v[Len(v)].bytes
      BY <3>1, UnitBytes
    <3>5. BytesOf[v] = BytesOf[c] \o x
      BY <1>4, <2>2, <3>2, <3>4 DEF BytesBody
    <3> QED BY <3>3, <3>5
  <2> QED BY <2>1, <2>2
<1>6. \A n \in Nat : n \in T
  <2> HIDE DEF T
  <2> QED BY <1>5, NatStrong
<1>7. BytesOf[u] \in Seq(Byte)
  <2>1. Len(u) \in T
    BY <1>6
  <2> QED BY <2>1
<1> QED BY <1>4, <1>7

LEMMA BytesEmpty == BytesOf[<< >>] = << >>
<1>1. << >> \in Seq(Unit)
  OBVIOUS
<1>2. BytesOf[<< >>] = BytesBody(BytesOf, << >>)
  BY <1>1, BytesEquation
<1> QED BY <1>2 DEF BytesBody

LEMMA BytesStep ==
  ASSUME NEW u \in Seq(Unit), NEW k \in 1..Len(u)
  PROVE  /\ BytesOf[Cut(u, k - 1)] \in Seq(Byte)
         /\ BytesOf[Cut(u, k)] = BytesOf[Cut(u, k - 1)] \o u[k].bytes
<1>1. k - 1 \in 0..Len(u) /\ k \in 0..Len(u) /\ k - 1 \in 0..k /\ k \in 1..k
  OBVIOUS
<1>2. PICK c \in Seq(Unit) :
        c = Cut(u, k) /\ Len(c) = k /\ c[k] = u[k] /\ Cut(c, k - 1) = Cut(u, k - 1)
  BY <1>1, CutFacts
<1>3. c # << >>
  BY <1>2
<1>4. BytesOf[c] = BytesOf[SubSeq(c, 1, Len(c) - 1)] \o c[Len(c)].bytes
  BY <1>3, BytesEquation DEF BytesBody
<1>5. BytesOf[c] = BytesOf[Cut(u, k - 1)] \o u[k].bytes
  BY <1>2, <1>4 DEF Cut
<1>6. Cut(u, k - 1) \in Seq(Unit)
  BY <1>1, CutFacts
<1> QED BY <1>2, <1>5, <1>6, BytesEquation

LEMMA Places ==
  ASSUME NEW u \in Seq(Unit)
  PROVE  /\ \A k \in 1..Len(u) : StartOf(u, k) = EndOf(u, k - 1)
         /\ \A k \in 0..Len(u) : EndOf(u, k) \in Nat
         /\ EndOf(u, 0) = 0 /\ EndOf(u, Len(u)) = Len(BytesOf[u])
         /\ \A k \in 1..Len(u) : EndOf(u, k) = StartOf(u, k) + Len(u[k].bytes)
<1>1. /\ \A k : EndOf(u, k) = Len(BytesOf[Cut(u, k)])
      /\ \A k : StartOf(u, k) = Len(BytesOf[Cut(u, k - 1)])
      /\ \A k : StartOf(u, k) = EndOf(u, k - 1)
  BY DEF EndOf, StartOf, Cut
<1>2. ASSUME NEW k \in 0..Len(u) PROVE EndOf(u, k) \in Nat
  <2>1. Cut(u, k) \in Seq(Unit)
    BY CutFacts
  <2>2. BytesOf[Cut(u, k)] \in Seq(Byte)
    BY <2>1, BytesEquation
  <2>3. EndOf(u, k) = Len(BytesOf[Cut(u, k)])
    BY <1>1
  <2> QED BY <2>2, <2>3
<1>3. EndOf(u, 0) = 0 /\ EndOf(u, Len(u)) = Len(BytesOf[u])
  <2>1. 0 \in 0..Len(u) /\ Len(u) \in 0..Len(u)
    OBVIOUS
  <2>2. Cut(u, 0) = << >> /\ Cut(u, Len(u)) = u
    BY <2>1, CutFacts
  <2>3. EndOf(u, 0) = Len(BytesOf[Cut(u, 0)]) /\ EndOf(u, Len(u)) = Len(BytesOf[Cut(u, Len(u))])
    BY <1>1
  <2>4. Len(BytesOf[<< >>]) = 0
    BY BytesEmpty
  <2> QED BY <2>2, <2>3, <2>4
<1>4. ASSUME NEW k \in 1..Len(u) PROVE EndOf(u, k) = StartOf(u, k) + Len(u[k].bytes)
  <2>1. PICK x \in Seq(Byte), y \in Seq(Byte) : x = BytesOf[Cut(u, k - 1)] /\ y = u[k].bytes
    BY BytesStep, UnitBytes
  <2>2. BytesOf[Cut(u, k)] = x \o y
    BY <2>1, BytesStep
  <2>3. Len(x \o y) = Len(x) + Len(y)
    OBVIOUS
  <2>4. EndOf(u, k) = Len(BytesOf[Cut(u, k)]) /\ StartOf(u, k) = Len(BytesOf[Cut(u, k - 1)])
    BY <1>1
  <2> QED BY <2>1, <2>2, <2>3, <2>4
<1> QED BY <1>1, <1>2, <1>3, <1>4

(* Every cut is a prefix of the later ones, and every byte is in a unit.    *)
IsPrefixOf(s, t) == Len(s) <= Len(t) /\ \A q \in 1..Len(s) : t[q] = s[q]

InSomeUnit(u, k, x) == \E j \in 1..k : StartOf(u, j) < x /\ x <= EndOf(u, j)

LEMMA CutPrefix ==
  ASSUME NEW u \in Seq(Unit), NEW k \in 0..Len(u), NEW j \in 0..k
  PROVE  IsPrefixOf(BytesOf[Cut(u, j)], BytesOf[Cut(u, k)])
<1> DEFINE T == {n \in Nat : j <= n /\ n <= Len(u) =>
                   IsPrefixOf(BytesOf[Cut(u, j)], BytesOf[Cut(u, n)])}
<1>1. ASSUME NEW n \in Nat, \A m \in Nat : m < n => m \in T
      PROVE  n \in T
  <2> SUFFICES ASSUME j <= n, n <= Len(u)
               PROVE  IsPrefixOf(BytesOf[Cut(u, j)], BytesOf[Cut(u, n)])
    OBVIOUS
  <2>0. j \in Nat /\ j \in 0..Len(u) /\ Len(u) \in Nat
    OBVIOUS
  <2>a. PICK s \in Seq(Byte) : s = BytesOf[Cut(u, j)]
    BY <2>0, CutFacts, BytesEquation
  <2>1. CASE n = j
    BY <2>1, <2>a DEF IsPrefixOf
  <2>2. CASE n # j
    <3>1. n \in 1..Len(u) /\ n - 1 \in Nat /\ n - 1 < n /\ j <= n - 1 /\ n - 1 <= Len(u)
      BY <2>0, <2>2
    <3>2. PICK x \in Seq(Byte), y \in Seq(Byte) :
            x = BytesOf[Cut(u, n - 1)] /\ y = u[n].bytes
      BY <3>1, BytesStep, UnitBytes
    <3>3. BytesOf[Cut(u, n)] = x \o y
      BY <3>1, <3>2, BytesStep
    <3>4. IsPrefixOf(s, x)
      BY <1>1, <2>a, <3>1, <3>2
    <3>5. IsPrefixOf(s, x \o y)
      BY <3>4 DEF IsPrefixOf
    <3> QED BY <2>a, <3>3, <3>5
  <2> QED BY <2>1, <2>2
<1>2. \A n \in Nat : n \in T
  <2> HIDE DEF T
  <2> QED BY <1>1, NatStrong
<1>3. k \in T
  BY <1>2
<1> QED BY <1>3

LEMMA Covered ==
  ASSUME NEW u \in Seq(Unit), NEW x \in 1..Len(BytesOf[u])
  PROVE  \E j \in 1..Len(u) : StartOf(u, j) < x /\ x <= EndOf(u, j)
<1> DEFINE T == {n \in Nat : n <= Len(u) =>
                   \A y \in Nat \ {0} : y <= EndOf(u, n) => InSomeUnit(u, n, y)}
<1>0. Len(u) \in Nat
  OBVIOUS
<1>1. 0 \in T
  <2>1. EndOf(u, 0) = 0
    BY Places
  <2> QED BY <2>1
<1>2. ASSUME NEW n \in Nat, n \in T
      PROVE  n + 1 \in T
  <2> SUFFICES ASSUME n + 1 <= Len(u), NEW y \in Nat \ {0}, y <= EndOf(u, n + 1)
               PROVE  InSomeUnit(u, n + 1, y)
    OBVIOUS
  <2>1. n + 1 \in 1..Len(u) /\ n \in 0..Len(u) /\ (n + 1) - 1 = n /\ n <= Len(u)
    BY <1>0
  <2>2. StartOf(u, n + 1) = EndOf(u, n) /\ EndOf(u, n) \in Nat
    BY <2>1, Places
  <2>3. CASE y <= EndOf(u, n)
    <3>1. InSomeUnit(u, n, y)
      BY <1>2, <2>1, <2>3
    <3> QED BY <2>1, <3>1 DEF InSomeUnit
  <2>4. CASE ~(y <= EndOf(u, n))
    <3>1. StartOf(u, n + 1) < y
      BY <2>2, <2>4
    <3>2. n + 1 \in 1..(n + 1)
      OBVIOUS
    <3> QED BY <3>1, <3>2 DEF InSomeUnit
  <2> QED BY <2>3, <2>4
<1>3. \A n \in Nat : n \in T
  <2> HIDE DEF T
  <2> QED BY <1>1, <1>2, NatUp
<1>4. EndOf(u, Len(u)) = Len(BytesOf[u])
  BY Places
<1>5. Len(u) \in T
  BY <1>0, <1>3
<1>6. x \in Nat \ {0} /\ x <= EndOf(u, Len(u))
  BY <1>4
<1>7. InSomeUnit(u, Len(u), x)
  BY <1>0, <1>5, <1>6
<1> QED BY <1>7 DEF InSomeUnit

LEMMA EndsRise ==
  ASSUME NEW u \in Seq(Unit), NEW k \in 0..Len(u), NEW j \in 0..k
  PROVE  EndOf(u, j) <= EndOf(u, k)
BY CutPrefix DEF IsPrefixOf, EndOf, Cut

(* The units lie in the stream one after the other. *)
LEMMA UnitInStream ==
  ASSUME NEW u \in Seq(Unit), NEW k \in 1..Len(u)
  PROVE  /\ StartOf(u, k) \in Nat /\ EndOf(u, k) \in Nat
         /\ EndOf(u, k) = StartOf(u, k) + Len(u[k].bytes)
         /\ EndOf(u, k) <= Len(BytesOf[u])
         /\ \A q \in 1..Len(u[k].bytes) : BytesOf[u][StartOf(u, k) + q] = u[k].bytes[q]
<1>1. k - 1 \in 0..Len(u) /\ k \in 0..Len(u) /\ Len(u) \in 0..Len(u) /\ k \in 0..Len(u)
  OBVIOUS
<1>2. /\ StartOf(u, k) \in Nat /\ EndOf(u, k) \in Nat
      /\ EndOf(u, k) = StartOf(u, k) + Len(u[k].bytes)
      /\ EndOf(u, Len(u)) = Len(BytesOf[u])
  BY <1>1, Places
<1>3. EndOf(u, k) <= Len(BytesOf[u])
  BY <1>1, <1>2, EndsRise
<1>4. PICK x \in Seq(Byte), y \in Seq(Byte) :
        x = BytesOf[Cut(u, k - 1)] /\ y = u[k].bytes
  BY BytesStep, UnitBytes
<1>5. BytesOf[Cut(u, k)] = x \o y
  BY <1>4, BytesStep
<1>6. StartOf(u, k) = Len(x)
  BY <1>4 DEF StartOf, Cut
<1>7. Cut(u, Len(u)) = u
  BY <1>1, CutFacts
<1>8. IsPrefixOf(x \o y, BytesOf[u])
  <2>1. IsPrefixOf(BytesOf[Cut(u, k)], BytesOf[Cut(u, Len(u))])
    BY <1>1, CutPrefix
  <2> QED BY <1>5, <1>7, <2>1
<1>9. ASSUME NEW q \in 1..Len(u[k].bytes)
      PROVE  BytesOf[u][StartOf(u, k) + q] = u[k].bytes[q]
  <2>1. q \in 1..Len(y)
    BY <1>4
  <2>2. Len(x) + q \in 1..Len(x \o y) /\ (x \o y)[Len(x) + q] = y[q]
    BY <2>1
  <2>3. BytesOf[u][Len(x) + q] = (x \o y)[Len(x) + q]
    BY <1>8, <2>2 DEF IsPrefixOf
  <2> QED BY <1>4, <1>6, <2>2, <2>3
<1> QED BY <1>2, <1>3, <1>9

LEMMA UnitsApart ==
  ASSUME NEW u \in Seq(Unit), NEW k \in 1..Len(u), NEW j \in 1..Len(u), j < k
  PROVE  EndOf(u, j) <= StartOf(u, k)
<1>1. j \in 0..(k - 1) /\ k - 1 \in 0..Len(u)
  OBVIOUS
<1>2. EndOf(u, j) <= EndOf(u, k - 1)
  BY <1>1, EndsRise
<1> QED BY <1>2, Places

(* What is written later leaves the units before it where they are.         *)
LEMMA CutOfConcat ==
  ASSUME NEW S, NEW u \in Seq(S), NEW v \in Seq(S), NEW k \in 0..Len(u)
  PROVE  Cut(u \o v, k) = Cut(u, k)
<1>1. PICK w \in Seq(S) : w = u \o v
  BY ConcatProperties
<1>2. Len(w) = Len(u) + Len(v) /\ \A i \in 1..Len(u) : w[i] = u[i]
  BY <1>1
<1>3. k \in 0..Len(w)
  BY <1>2
<1>4. Cut(w, k) \in Seq(S) /\ Len(Cut(w, k)) = k /\ \A j \in 1..k : Cut(w, k)[j] = w[j]
  BY <1>3, CutFacts
<1>5. Cut(u, k) \in Seq(S) /\ Len(Cut(u, k)) = k /\ \A j \in 1..k : Cut(u, k)[j] = u[j]
  BY CutFacts
<1>6. ASSUME NEW j \in 1..k PROVE Cut(w, k)[j] = Cut(u, k)[j]
  <2>1. j \in 1..Len(u)
    OBVIOUS
  <2>2. Cut(w, k)[j] = w[j] /\ Cut(u, k)[j] = u[j]
    BY <1>4, <1>5
  <2> QED BY <1>2, <2>1, <2>2
<1>7. Cut(w, k) = Cut(u, k)
  BY <1>4, <1>5, <1>6, SeqEqual
<1> QED BY <1>1, <1>7

LEMMA PlacesKept ==
  ASSUME NEW u \in Seq(Unit), NEW v \in Seq(Unit), NEW k \in 1..Len(u)
  PROVE  StartOf(u \o v, k) = StartOf(u, k) /\ EndOf(u \o v, k) = EndOf(u, k)
<1>1. k \in 0..Len(u) /\ k - 1 \in 0..Len(u)
  OBVIOUS
<1>2. Cut(u \o v, k) = Cut(u, k) /\ Cut(u \o v, k - 1) = Cut(u, k - 1)
  BY <1>1, CutOfConcat
<1> QED BY <1>2 DEF StartOf, EndOf, Cut

LEMMA ThreeStreams ==
  ASSUME NEW x \in Seq(Byte), NEW y \in Seq(Byte), NEW z \in Seq(Byte)
  PROVE  (x \o y) \o z = x \o (y \o z)
BY ConcatAssociative

LEMMA BytesConcat ==
  ASSUME NEW u \in Seq(Unit), NEW v \in Seq(Unit)
  PROVE  BytesOf[u \o v] = BytesOf[u] \o BytesOf[v]
<1>1. PICK w \in Seq(Unit) : w = u \o v
  BY ConcatProperties
<1>2. /\ Len(w) = Len(u) + Len(v) /\ Len(u) \in Nat /\ Len(v) \in Nat
      /\ \A i \in 1..Len(v) : w[Len(u) + i] = v[i]
  BY <1>1
<1>3. PICK a \in Seq(Byte) : a = BytesOf[u]
  BY BytesEquation
<1> DEFINE T == {n \in Nat : n <= Len(v) =>
                   BytesOf[Cut(w, Len(u) + n)] = a \o BytesOf[Cut(v, n)]}
<1>4. 0 \in T
  <2>1. Len(u) \in 0..Len(u) /\ Len(u) + 0 = Len(u) /\ 0 \in 0..Len(v)
    BY <1>2
  <2>2. Cut(w, Len(u)) = u
    BY <1>1, <2>1, CutOfConcat, CutFacts
  <2>3. BytesOf[Cut(v, 0)] = << >>
    BY <2>1, CutFacts, BytesEmpty
  <2>4. a \o << >> = a
    BY <1>3
  <2> QED BY <1>1, <1>3, <2>1, <2>2, <2>3, <2>4
<1>5. ASSUME NEW n \in Nat, n \in T
      PROVE  n + 1 \in T
  <2> SUFFICES ASSUME n + 1 <= Len(v)
               PROVE  BytesOf[Cut(w, Len(u) + (n + 1))] = a \o BytesOf[Cut(v, n + 1)]
    OBVIOUS
  <2>1. /\ n + 1 \in 1..Len(v) /\ (n + 1) - 1 = n /\ n <= Len(v)
        /\ Len(u) + (n + 1) \in 1..Len(w) /\ (Len(u) + (n + 1)) - 1 = Len(u) + n
    BY <1>2
  <2>2. PICK x \in Seq(Byte), y \in Seq(Byte) : x = BytesOf[Cut(v, n)] /\ y = v[n + 1].bytes
    BY <2>1, BytesStep, UnitBytes
  <2>3. BytesOf[Cut(v, n + 1)] = x \o y
    BY <2>1, <2>2, BytesStep
  <2>4. BytesOf[Cut(w, Len(u) + n)] = a \o x
    BY <1>1, <1>3, <1>5, <2>1, <2>2
  <2>5. w[Len(u) + (n + 1)].bytes = y
    BY <1>2, <2>1, <2>2
  <2>6. BytesOf[Cut(w, Len(u) + (n + 1))] = (a \o x) \o y
    BY <2>1, <2>4, <2>5, BytesStep
  <2>7. (a \o x) \o y = a \o (x \o y)
    BY ThreeStreams
  <2> QED BY <2>3, <2>6, <2>7
<1>6. \A n \in Nat : n \in T
  <2> HIDE DEF T
  <2> QED BY <1>4, <1>5, NatUp
<1>7. BytesOf[Cut(w, Len(u) + Len(v))] = a \o BytesOf[Cut(v, Len(v))]
  <2>1. Len(v) \in T
    BY <1>2, <1>6
  <2> QED BY <1>2, <2>1
<1>8. Len(w) \in 0..Len(w) /\ Len(v) \in 0..Len(v)
  OBVIOUS
<1>9. Cut(w, Len(w)) = w /\ Cut(v, Len(v)) = v
  BY <1>8, CutFacts
<1> QED BY <1>1, <1>2, <1>3, <1>7, <1>9

-----------------------------------------------------------------------------
(* What is written *)

Numbers == 0..MaxSequence

WholeBytesOf(bytes) == \E n \in 4..kMaxFrameSize, f \in Numbers : bytes = Encode(n, f)

DamagedBytes(bytes) ==
  \/ \A k \in DOMAIN bytes : bytes[k].at = 0
  \/ \E n \in 4..kMaxFrameSize, f \in Numbers : bytes = WithBadCrc(Encode(n, f))

UnitOK(un) ==
  /\ un \in Unit
  /\ un.frame => WholeBytesOf(un.bytes)
  /\ ~un.frame => DamagedBytes(un.bytes)

NumberOf(un) == un.bytes[1].of

StreamOK(u) ==
  /\ u \in Seq(Unit)
  /\ \A k \in DOMAIN u : UnitOK(u[k])
  /\ \A j, k \in DOMAIN u : j < k /\ u[j].frame /\ u[k].frame
                             => NumberOf(u[j]) < NumberOf(u[k])

LEMMA Encoded ==
  ASSUME NEW n \in 4..kMaxFrameSize, NEW f \in Numbers
  PROVE  /\ f \in Nat /\ Encode(n, f) \in Seq(Byte) /\ Len(Encode(n, f)) = n
         /\ \A k \in 1..n : Encode(n, f)[k].at = k /\ Encode(n, f)[k].of = f
         /\ Encode(n, f)[1].value = kMagicHigh /\ Encode(n, f)[2].value = kMagicLow
         /\ Encode(n, f)[3].value = n
<1> DEFINE v(k) == CASE k = 1 -> kMagicHigh
                     [] k = 2 -> kMagicLow
                     [] k = 3 -> n
                     [] OTHER -> Contents[f][k]
<1>1. n \in Nat /\ n >= 4 /\ kMagicHigh \in Nat /\ kMagicLow \in Nat /\ kMaxFrameSize \in Nat
  BY DecoderAssumption, Sizes
<1>0. f \in Nat /\ \A k \in 1..n : Contents[f][k] \in Nat
  <2>1. f \in Nat /\ f \in 0..MaxSequence
    BY LinkAssumption DEF Numbers
  <2>2. PICK c : c = Contents[f]
    OBVIOUS
  <2>3. c \in [1..kMaxFrameSize -> Nat]
    BY <2>1, <2>2, LinkAssumption
  <2>4. \A k \in 1..n : k \in 1..kMaxFrameSize
    BY <1>1
  <2> QED BY <2>1, <2>2, <2>3, <2>4
<1>2. \A k \in 1..n : v(k) \in Nat
  BY <1>0, <1>1
<1>3. v(1) = kMagicHigh /\ v(2) = kMagicLow /\ v(3) = n
  OBVIOUS
<1> HIDE DEF v
<1>4. PICK e : e = [k \in 1..n |-> [value |-> v(k), of |-> f, at |-> k]]
  OBVIOUS
<1>5. e = Encode(n, f)
  BY <1>4 DEF Encode, v
<1>6. \A k \in 1..n : e[k] = [value |-> v(k), of |-> f, at |-> k]
  BY <1>4
<1>7. \A k \in 1..n : [value |-> v(k), of |-> f, at |-> k] \in Byte
  BY <1>0, <1>1, <1>2 DEF Byte
<1>8. e \in [1..n -> Byte]
  BY <1>4, <1>7
<1>9. e \in Seq(Byte) /\ Len(e) = n
  BY <1>1, <1>8
<1>10. 1 \in 1..n /\ 2 \in 1..n /\ 3 \in 1..n
  BY <1>1
<1> QED BY <1>0, <1>3, <1>5, <1>6, <1>9, <1>10

LEMMA BadCrc ==
  ASSUME NEW n \in 4..kMaxFrameSize, NEW f \in Numbers
  PROVE  LET d == WithBadCrc(Encode(n, f))
         IN  /\ d \in Seq(Byte) /\ Len(d) = n
             /\ \A k \in 1..n : d[k].at \in {0, k}
             /\ d[3].value = n /\ d[n].at = 0
<1>1. PICK e \in Seq(Byte) : e = Encode(n, f)
  BY Encoded
<1>2. Len(e) = n /\ \A k \in 1..n : e[k].at = k
  BY <1>1, Encoded
<1>3. n \in Nat /\ n >= 4 /\ n \in 1..n /\ 3 \in 1..n /\ n # 3 /\ kMaxFrameSize \in Nat
  BY Sizes
<1>4. PICK y : y = [e[n] EXCEPT !.at = 0]
  OBVIOUS
<1>5. e[n] \in Byte
  BY <1>2, <1>3
<1>6. y \in Byte /\ y.at = 0
  <2>1. PICK x \in Byte : x = e[n]
    BY <1>5
  <2>2. y = [x EXCEPT !.at = 0] /\ 0 \in 0..kMaxFrameSize
    BY <1>3, <1>4, <2>1
  <2> QED BY <2>2 DEF Byte
<1>7. PICK d : d = [e EXCEPT ![n] = y]
  OBVIOUS
<1>8. d = WithBadCrc(Encode(n, f))
  BY <1>1, <1>2, <1>4, <1>7 DEF WithBadCrc
<1>9. d \in Seq(Byte) /\ Len(d) = n /\ d[n] = y /\ \A k \in 1..n : k # n => d[k] = e[k]
  BY <1>2, <1>3, <1>6, <1>7
<1>10. e[3].value = n
  BY <1>1, Encoded
<1>11. d[3].value = n
  BY <1>3, <1>9, <1>10
<1>12. \A k \in 1..n : d[k].at \in {0, k}
  BY <1>2, <1>6, <1>9
<1> QED BY <1>6, <1>8, <1>9, <1>11, <1>12

LEMMA RawBytes ==
  ASSUME NEW values \in Seq(Nat)
  PROVE  /\ Raw(values) \in Seq(Byte) /\ Len(Raw(values)) = Len(values)
         /\ \A k \in DOMAIN Raw(values) : Raw(values)[k].at = 0
<1>1. PICK r : r = [k \in DOMAIN values |-> [value |-> values[k], of |-> 0, at |-> 0]]
  OBVIOUS
<1>2. \A k \in DOMAIN values : [value |-> values[k], of |-> 0, at |-> 0] \in Byte
  BY Sizes DEF Byte
<1>3. r \in [1..Len(values) -> Byte]
  BY <1>1, <1>2
<1>4. r \in Seq(Byte) /\ Len(r) = Len(values)
  BY <1>3
<1> QED BY <1>1, <1>4 DEF Raw

FramesOf(u) ==
  {[start |-> StartOf(u, k), size |-> Len(u[k].bytes), of |-> NumberOf(u[k])] :
     k \in {k \in DOMAIN u : u[k].frame}}

LEMMA FrameOfUnit ==
  ASSUME NEW u, StreamOK(u), NEW k \in 1..Len(u), u[k].frame
  PROVE  /\ Len(u[k].bytes) \in 4..kMaxFrameSize
         /\ NumberOf(u[k]) \in Nat
         /\ \A q \in 1..Len(u[k].bytes) : u[k].bytes[q].at = q /\ u[k].bytes[q].of = NumberOf(u[k])
         /\ u[k].bytes[1].value = kMagicHigh /\ u[k].bytes[2].value = kMagicLow
         /\ u[k].bytes[3].value = Len(u[k].bytes)
<1>1. WholeBytesOf(u[k].bytes)
  BY DEF StreamOK, UnitOK
<1>2. PICK n \in 4..kMaxFrameSize, f \in Numbers : u[k].bytes = Encode(n, f)
  BY <1>1 DEF WholeBytesOf
<1>3. PICK e : e = Encode(n, f)
  OBVIOUS
<1>4. /\ f \in Nat /\ Len(e) = n /\ \A q \in 1..n : e[q].at = q /\ e[q].of = f
      /\ e[1].value = kMagicHigh /\ e[2].value = kMagicLow /\ e[3].value = n
  BY <1>3, Encoded
<1>5. NumberOf(u[k]) = f
  BY <1>2, <1>3, <1>4 DEF NumberOf
<1> QED BY <1>2, <1>3, <1>4, <1>5

LEMMA StreamLayout ==
  ASSUME NEW u, StreamOK(u)
  PROVE  Layout(BytesOf[u], FramesOf(u))
<1> USE Sizes
<1>1. PICK A : A = BytesOf[u]
  OBVIOUS
<1>2. PICK W : W = FramesOf(u)
  OBVIOUS
<1>3. u \in Seq(Unit) /\ A \in Seq(Byte) /\ DOMAIN u = 1..Len(u)
  BY <1>1, BytesEquation DEF StreamOK
<1>4. ASSUME NEW w \in W
      PROVE  \E k \in 1..Len(u) :
               /\ u[k].frame /\ w.start = StartOf(u, k) /\ w.size = Len(u[k].bytes)
               /\ w.of = NumberOf(u[k])
  BY <1>2, <1>3 DEF FramesOf
<1>5. ASSUME NEW w \in W
      PROVE  /\ w.start \in Nat /\ w.size \in 4..kMaxFrameSize /\ w.of \in Nat
             /\ w.start + w.size <= Len(A)
             /\ \A q \in 1..w.size : A[w.start + q].at = q /\ A[w.start + q].of = w.of
             /\ A[w.start + 1].value = kMagicHigh
             /\ A[w.start + 2].value = kMagicLow
             /\ A[w.start + 3].value = w.size
  <2>1. PICK k \in 1..Len(u) :
               /\ u[k].frame /\ w.start = StartOf(u, k) /\ w.size = Len(u[k].bytes)
               /\ w.of = NumberOf(u[k])
    BY <1>4
  <2>2. PICK y : y = u[k].bytes
    OBVIOUS
  <2>3. /\ w.start \in Nat /\ w.start + w.size <= Len(A)
        /\ \A q \in 1..w.size : A[w.start + q] = y[q]
    <3>1. /\ StartOf(u, k) \in Nat /\ EndOf(u, k) = StartOf(u, k) + Len(u[k].bytes)
          /\ EndOf(u, k) <= Len(BytesOf[u])
          /\ \A q \in 1..Len(u[k].bytes) : BytesOf[u][StartOf(u, k) + q] = u[k].bytes[q]
      BY <1>3, UnitInStream
    <3> QED BY <1>1, <2>1, <2>2, <3>1
  <2>4. /\ w.size \in 4..kMaxFrameSize /\ w.of \in Nat
        /\ \A q \in 1..w.size : y[q].at = q /\ y[q].of = w.of
        /\ y[1].value = kMagicHigh /\ y[2].value = kMagicLow /\ y[3].value = w.size
    BY <2>1, <2>2, FrameOfUnit
  <2>5. 1 \in 1..w.size /\ 2 \in 1..w.size /\ 3 \in 1..w.size
    BY <2>4
  <2>6. /\ A[w.start + 1] = y[1] /\ A[w.start + 2] = y[2] /\ A[w.start + 3] = y[3]
    BY <2>3, <2>5
  <2> QED BY <2>3, <2>4, <2>6
<1>6. ASSUME NEW v \in W, NEW w \in W, v.start < w.start
      PROVE  v.start + v.size <= w.start /\ v.of < w.of
  <2>1. PICK j \in 1..Len(u) :
               /\ u[j].frame /\ v.start = StartOf(u, j) /\ v.size = Len(u[j].bytes)
               /\ v.of = NumberOf(u[j])
    BY <1>4
  <2>2. PICK k \in 1..Len(u) :
               /\ u[k].frame /\ w.start = StartOf(u, k) /\ w.size = Len(u[k].bytes)
               /\ w.of = NumberOf(u[k])
    BY <1>4
  <2>a. /\ EndOf(u, j) = StartOf(u, j) + Len(u[j].bytes)
        /\ EndOf(u, k) = StartOf(u, k) + Len(u[k].bytes)
    BY <1>3, UnitInStream
  <2>b. v.start \in Nat /\ v.size \in Nat /\ w.start \in Nat /\ w.size \in Nat
    <3>1. v.start \in Nat /\ v.size \in 4..kMaxFrameSize
      BY <1>5
    <3>2. w.start \in Nat /\ w.size \in 4..kMaxFrameSize
      BY <1>5
    <3> QED BY <3>1, <3>2
  <2>3. /\ EndOf(u, j) = v.start + v.size /\ EndOf(u, k) = w.start + w.size
        /\ v.start \in Nat /\ w.start \in Nat /\ v.size \in Nat /\ w.size \in Nat
    BY <2>1, <2>2, <2>a, <2>b
  <2>4. j < k
    <3>1. ~(k < j)
      <4> SUFFICES ASSUME k < j PROVE FALSE
        OBVIOUS
      <4>1. EndOf(u, k) <= StartOf(u, j)
        BY <1>3, UnitsApart
      <4> QED BY <1>6, <2>1, <2>3, <4>1
    <3>2. j # k
      BY <1>6, <2>1, <2>2, <2>3
    <3> QED BY <1>3, <3>1, <3>2
  <2>5. EndOf(u, j) <= StartOf(u, k)
    BY <1>3, <2>4, UnitsApart
  <2>6. NumberOf(u[j]) < NumberOf(u[k])
    BY <1>3, <2>1, <2>2, <2>4 DEF StreamOK
  <2> QED BY <2>1, <2>2, <2>3, <2>5, <2>6
<1>7. ASSUME NEW x \in Nat, NEW n \in 4..kMaxFrameSize, CountedBytes(A, x, n)
      PROVE  \E w \in W : w.start = x /\ w.size = n
  <2>1. /\ x + n <= Len(A) /\ A[x + 3].value = n
        /\ \A k \in 1..n : A[x + k].at = k
    BY <1>7 DEF CountedBytes
  <2>2. Len(A) \in Nat /\ n \in Nat /\ n >= 4
    BY <1>3
  <2>3. x + 1 \in 1..Len(A)
    BY <2>1, <2>2
  <2>4. PICK j \in 1..Len(u) : StartOf(u, j) < x + 1 /\ x + 1 <= EndOf(u, j)
    BY <1>1, <1>3, <2>3, Covered
  <2>5. PICK y \in Seq(Byte) : y = u[j].bytes
    BY <1>3, UnitBytes
  <2>6. PICK s \in Nat : s = StartOf(u, j) /\ EndOf(u, j) = s + Len(y)
    BY <1>3, <2>5, UnitInStream
  <2>7. \A q \in 1..Len(y) : A[s + q] = y[q]
    BY <1>1, <1>3, <2>5, <2>6, UnitInStream
  <2>8. PICK q \in 1..Len(y) : x + 1 = s + q
    <3>1. (x + 1) - s \in 1..Len(y) /\ x + 1 = s + ((x + 1) - s)
      BY <2>4, <2>6
    <3> QED BY <3>1
  <2>9. y[q].at = 1
    <3>1. 1 \in 1..n
      BY <2>2
    <3>2. A[x + 1].at = 1
      BY <2>1, <3>1
    <3> QED BY <2>7, <2>8, <3>2
  <2>10. UnitOK(u[j])
    BY <1>3 DEF StreamOK
  <2>11. CASE u[j].frame
    <3>1. PICK m \in 4..kMaxFrameSize, f \in Numbers : y = Encode(m, f)
      BY <2>5, <2>10, <2>11 DEF UnitOK, WholeBytesOf
    <3>2. Len(y) = m /\ y[q].at = q /\ y[3].value = m
      BY <2>8, <3>1, Encoded
    <3>3. q = 1 /\ x = s
      BY <2>8, <2>9, <3>2
    <3>4. 3 \in 1..Len(y)
      BY <3>2
    <3>5. A[x + 3] = y[3]
      BY <2>7, <3>3, <3>4
    <3>6. m = n
      BY <2>1, <3>2, <3>5
    <3>7. PICK w : w = [start |-> StartOf(u, j), size |-> Len(u[j].bytes), of |-> NumberOf(u[j])]
      OBVIOUS
    <3>8. w \in W
      BY <1>2, <1>3, <2>11, <3>7 DEF FramesOf
    <3>9. w.start = x /\ w.size = n
      BY <2>5, <2>6, <3>2, <3>3, <3>6, <3>7
    <3> QED BY <3>8, <3>9
  <2>12. CASE ~u[j].frame
    <3>1. \E m \in 4..kMaxFrameSize, f \in Numbers : y = WithBadCrc(Encode(m, f))
      BY <2>5, <2>8, <2>9, <2>10, <2>12 DEF UnitOK, DamagedBytes
    <3>2. PICK m \in 4..kMaxFrameSize, f \in Numbers : y = WithBadCrc(Encode(m, f))
      BY <3>1
    <3>3. Len(y) = m /\ y[q].at \in {0, q} /\ y[3].value = m /\ y[m].at = 0
      BY <2>8, <3>2, BadCrc
    <3>4. q = 1 /\ x = s
      BY <2>8, <2>9, <3>3
    <3>5. 3 \in 1..Len(y) /\ m \in 1..Len(y)
      BY <3>3
    <3>6. A[x + 3] = y[3] /\ A[x + m] = y[m]
      BY <2>7, <3>4, <3>5
    <3>7. m = n
      BY <2>1, <3>3, <3>6
    <3>8. A[x + n].at = n
      <4>1. n \in 1..n
        BY <2>2
      <4> QED BY <2>1, <4>1
    <3> QED BY <2>2, <3>3, <3>6, <3>7, <3>8
  <2> QED BY <2>11, <2>12
<1>8. Layout(A, W)
  BY <1>3, <1>5, <1>6, <1>7 DEF Layout
<1> QED BY <1>1, <1>2, <1>8

-----------------------------------------------------------------------------
(* What one end of a stream has made of the bytes that it took              *)

Decoded(A, W, r, taken, p) ==
  /\ r \in Result /\ taken \in Nat /\ p \in Nat /\ p + Len(r.rest) = taken
  /\ Slice(r.rest, A, p) /\ Idle(r.rest)
  /\ \A i, j \in DOMAIN r.frames : i < j => r.frames[i] < r.frames[j]
  /\ \A i \in DOMAIN r.frames :
       \E w \in W : w.start + w.size <= p /\ r.frames[i] = w.of
  /\ \A w \in W : w.start < p =>
       \/ \E i \in DOMAIN r.frames : r.frames[i] = w.of
       \/ PassedOver(A, W, w.start, taken)

LEMMA NothingDecoded ==
  Decoded(BytesOf[<< >>], FramesOf(<< >>), [rest |-> << >>, frames |-> << >>], 0, 0)
<1>1. BytesOf[<< >>] = << >>
  BY BytesEmpty
<1>2. FramesOf(<< >>) = {}
  BY DEF FramesOf
<1>3. PICK r : r = [rest |-> << >>, frames |-> << >>]
  OBVIOUS
<1>4. r \in Result /\ r.rest = << >> /\ DOMAIN r.frames = {} /\ Len(r.rest) = 0
  BY <1>3 DEF Result
<1>5. Slice(<< >>, << >>, 0)
  BY DEF Slice
<1>6. Decoded(<< >>, {}, r, 0, 0)
  BY <1>4, <1>5, EmptyIdle DEF Decoded
<1> QED BY <1>1, <1>2, <1>3, <1>6

LEMMA SlicesJoin ==
  ASSUME NEW A, NEW p, NEW b, Slice(b, A, p), NEW c, Slice(c, A, p + Len(b))
  PROVE  Slice(b \o c, A, p) /\ Len(b \o c) = Len(b) + Len(c)
<1>1. /\ b \in Seq(Byte) /\ Len(b) \in Nat /\ p \in Nat
      /\ c \in Seq(Byte) /\ Len(c) \in Nat /\ p + Len(b) + Len(c) <= Len(A)
  BY DEF Slice
<1>2. PICK d : d = b \o c
  OBVIOUS
<1>3. /\ d \in Seq(Byte) /\ Len(d) = Len(b) + Len(c)
      /\ \A k \in 1..Len(d) : d[k] = IF k <= Len(b) THEN b[k] ELSE c[k - Len(b)]
  BY <1>1, <1>2
<1>4. ASSUME NEW k \in 1..Len(d) PROVE d[k] = A[p + k]
  <2>1. CASE k <= Len(b)
    <3>1. k \in 1..Len(b)
      BY <1>1, <1>3, <2>1
    <3> QED BY <1>3, <2>1, <3>1 DEF Slice
  <2>2. CASE ~(k <= Len(b))
    <3>1. k - Len(b) \in 1..Len(c) /\ p + Len(b) + (k - Len(b)) = p + k
      BY <1>1, <1>3, <2>2
    <3>2. c[k - Len(b)] = A[p + Len(b) + (k - Len(b))]
      BY <3>1 DEF Slice
    <3> QED BY <1>3, <2>2, <3>1, <3>2
  <2> QED BY <2>1, <2>2
<1>5. Slice(d, A, p)
  BY <1>1, <1>3, <1>4 DEF Slice
<1> QED BY <1>2, <1>3, <1>5

LEMMA Appended ==
  ASSUME NEW S, NEW s \in Seq(S), NEW t \in Seq(S)
  PROVE  /\ s \o t \in Seq(S) /\ Len(s \o t) = Len(s) + Len(t)
         /\ \A i \in 1..Len(s) : i \in DOMAIN (s \o t) /\ (s \o t)[i] = s[i]
         /\ \A i \in 1..Len(t) : Len(s) + i \in DOMAIN (s \o t) /\ (s \o t)[Len(s) + i] = t[i]
         /\ \A j \in DOMAIN (s \o t) :
              \/ j \in 1..Len(s) /\ (s \o t)[j] = s[j]
              \/ j - Len(s) \in 1..Len(t) /\ (s \o t)[j] = t[j - Len(s)]
<1>1. PICK d : d = s \o t
  OBVIOUS
<1>2. /\ d \in Seq(S) /\ Len(d) = Len(s) + Len(t) /\ DOMAIN d = 1..Len(d)
      /\ \A k \in 1..Len(d) : d[k] = IF k <= Len(s) THEN s[k] ELSE t[k - Len(s)]
      /\ Len(s) \in Nat /\ Len(t) \in Nat
  BY <1>1
<1>3. \A i \in 1..Len(s) : i \in DOMAIN d /\ d[i] = s[i]
  BY <1>2
<1>4. ASSUME NEW i \in 1..Len(t) PROVE Len(s) + i \in DOMAIN d /\ d[Len(s) + i] = t[i]
  <2>1. Len(s) + i \in 1..Len(d) /\ ~(Len(s) + i <= Len(s)) /\ (Len(s) + i) - Len(s) = i
    BY <1>2
  <2> QED BY <1>2, <2>1
<1>5. ASSUME NEW j \in DOMAIN d
      PROVE  \/ j \in 1..Len(s) /\ d[j] = s[j]
             \/ j - Len(s) \in 1..Len(t) /\ d[j] = t[j - Len(s)]
  BY <1>2
<1> QED BY <1>1, <1>2, <1>3, <1>4, <1>5

LEMMA PassedStays ==
  ASSUME NEW A, NEW W, NEW place, NEW m \in Nat, NEW n \in Nat, m <= n,
         PassedOver(A, W, place, m)
  PROVE  PassedOver(A, W, place, n)
BY DEF PassedOver

(* The decoder takes the next bytes of the stream.                          *)
LEMMA DecodesMore ==
  ASSUME NEW A, NEW W, Layout(A, W), NEW r, NEW taken, NEW p, Decoded(A, W, r, taken, p),
         NEW c, Slice(c, A, taken)
  PROVE  LET s == Drain[r.rest \o c]
         IN  \E q : Decoded(A, W, [rest |-> s.rest, frames |-> r.frames \o s.frames],
                            taken + Len(c), q)
<1>1. /\ r \in Result /\ taken \in Nat /\ p \in Nat /\ p + Len(r.rest) = taken
      /\ Slice(r.rest, A, p)
  BY DEF Decoded
<1>2. c \in Seq(Byte) /\ Len(c) \in Nat
  BY DEF Slice
<1>3. PICK b : b = r.rest \o c
  OBVIOUS
<1>4. Slice(b, A, p) /\ Len(b) = Len(r.rest) + Len(c)
  <2>1. Slice(c, A, p + Len(r.rest))
    BY <1>1
  <2>2. Slice(r.rest, A, p)
    BY <1>1
  <2>3. /\ Slice(r.rest \o c, A, p)
        /\ Len(r.rest \o c) = Len(r.rest) + Len(c)
    BY <2>1, <2>2, SlicesJoin
  <2> QED BY <1>3, <2>3
<1>5. PICK s : s = Drain[b]
  OBVIOUS
<1>6. PICK q : Drained(A, W, b, p, s, q)
  BY <1>4, <1>5, DrainStep
<1>7. /\ s \in Result /\ q \in Nat /\ p <= q /\ q + Len(s.rest) = p + Len(b)
      /\ Slice(s.rest, A, q) /\ Idle(s.rest)
      /\ \A i, j \in DOMAIN s.frames : i < j => s.frames[i] < s.frames[j]
  BY <1>6 DEF Drained
<1>8. /\ r.rest \in Seq(Byte) /\ r.frames \in Seq(Nat)
      /\ s.rest \in Seq(Byte) /\ s.frames \in Seq(Nat)
  BY <1>1, <1>7 DEF Result
<1>9. p + Len(b) = taken + Len(c) /\ taken + Len(c) \in Nat /\ taken <= taken + Len(c)
  <2>1. Len(r.rest) \in Nat
    BY <1>8
  <2> QED BY <1>1, <1>2, <1>4, <2>1
<1>10. PICK t : t = r.frames \o s.frames
  OBVIOUS
<1>11. PICK m \in Nat : m = Len(r.frames)
  BY <1>8
<1>12. /\ t \in Seq(Nat)
       /\ \A i \in 1..m : i \in DOMAIN t /\ t[i] = r.frames[i]
       /\ \A i \in 1..Len(s.frames) : m + i \in DOMAIN t /\ t[m + i] = s.frames[i]
       /\ \A j \in DOMAIN t :
              \/ j \in 1..m /\ t[j] = r.frames[j]
              \/ j - m \in 1..Len(s.frames) /\ t[j] = s.frames[j - m]
  <2>1. PICK x \in Seq(Nat), y \in Seq(Nat) : x = r.frames /\ y = s.frames
    BY <1>8
  <2>2. /\ x \o y \in Seq(Nat)
        /\ \A i \in 1..Len(x) : i \in DOMAIN (x \o y) /\ (x \o y)[i] = x[i]
        /\ \A i \in 1..Len(y) : Len(x) + i \in DOMAIN (x \o y) /\ (x \o y)[Len(x) + i] = y[i]
        /\ \A j \in DOMAIN (x \o y) :
              \/ j \in 1..Len(x) /\ (x \o y)[j] = x[j]
              \/ j - Len(x) \in 1..Len(y) /\ (x \o y)[j] = y[j - Len(x)]
    BY Appended
  <2>3. t = x \o y /\ m = Len(x)
    BY <1>10, <1>11, <2>1
  <2> QED BY <2>1, <2>2, <2>3
<1>13. DOMAIN r.frames = 1..m /\ DOMAIN s.frames = 1..Len(s.frames) /\ DOMAIN t = 1..Len(t)
       /\ Len(s.frames) \in Nat
  BY <1>8, <1>11, <1>12
<1>14. PICK z : z = [rest |-> s.rest, frames |-> t]
  OBVIOUS
<1>15. z \in Result /\ z.rest = s.rest /\ z.frames = t
  BY <1>8, <1>12, <1>14 DEF Result
<1>16. \A i \in 1..m : \E w \in W : w.start + w.size <= p /\ r.frames[i] = w.of
  BY <1>13 DEF Decoded
<1>17. \A i \in 1..Len(s.frames) :
         \E w \in W : p <= w.start /\ w.start + w.size <= q /\ s.frames[i] = w.of
  BY <1>6, <1>13 DEF Drained
<1>18. ASSUME NEW i \in 1..m, NEW j \in 1..Len(s.frames)
       PROVE  r.frames[i] < s.frames[j]
  <2>1. PICK v \in W : v.start + v.size <= p /\ r.frames[i] = v.of
    BY <1>16
  <2>2. PICK w \in W : p <= w.start /\ w.start + w.size <= q /\ s.frames[j] = w.of
    BY <1>17
  <2>3. v.start \in Nat /\ v.size \in 4..kMaxFrameSize /\ w.start \in Nat
    BY WholeFacts
  <2>4. v.start < w.start
    BY <1>1, <2>1, <2>2, <2>3, Sizes
  <2>5. v.of < w.of
    BY <2>4, WholeOrder
  <2> QED BY <2>1, <2>2, <2>5
<1>19. ASSUME NEW i \in DOMAIN t, NEW j \in DOMAIN t, i < j
       PROVE  t[i] < t[j]
  <2>1. i \in Int /\ j \in Int
    BY <1>13
  <2>2. CASE j \in 1..m
    <3>1. i \in 1..m
      BY <1>13, <1>19, <2>1, <2>2
    <3>2. t[i] = r.frames[i] /\ t[j] = r.frames[j]
      BY <1>12, <2>2, <3>1
    <3>3. r.frames[i] < r.frames[j]
      BY <1>13, <1>19, <2>2, <3>1 DEF Decoded
    <3> QED BY <3>2, <3>3
  <2>3. CASE i \in 1..m /\ j \notin 1..m
    BY <1>12, <1>18, <2>3
  <2>4. CASE i \notin 1..m /\ j \notin 1..m
    <3>1. /\ i - m \in 1..Len(s.frames) /\ t[i] = s.frames[i - m]
          /\ j - m \in 1..Len(s.frames) /\ t[j] = s.frames[j - m]
      BY <1>12, <2>4
    <3>2. i - m < j - m
      BY <1>19, <2>1
    <3> QED BY <1>7, <1>13, <3>1, <3>2
  <2> QED BY <2>2, <2>3, <2>4
<1>20. ASSUME NEW j \in DOMAIN t
       PROVE  \E w \in W : w.start + w.size <= q /\ t[j] = w.of
  <2>1. CASE j \in 1..m /\ t[j] = r.frames[j]
    <3>1. PICK w \in W : w.start + w.size <= p /\ r.frames[j] = w.of
      BY <1>16, <2>1
    <3>2. w.start \in Nat /\ w.size \in 4..kMaxFrameSize
      BY WholeFacts
    <3>3. w.start + w.size <= q
      BY <1>1, <1>7, <3>1, <3>2, Sizes
    <3> QED BY <2>1, <3>1, <3>3
  <2>2. CASE j - m \in 1..Len(s.frames) /\ t[j] = s.frames[j - m]
    BY <1>17, <2>2
  <2> QED BY <1>12, <2>1, <2>2
<1>21. ASSUME NEW w \in W, w.start < q
       PROVE  \/ \E j \in DOMAIN t : t[j] = w.of
              \/ PassedOver(A, W, w.start, taken + Len(c))
  <2>1. w.start \in Nat
    BY WholeFacts
  <2>2. CASE w.start < p
    <3>1. \/ \E i \in DOMAIN r.frames : r.frames[i] = w.of
          \/ PassedOver(A, W, w.start, taken)
      BY <2>2 DEF Decoded
    <3>2. CASE PassedOver(A, W, w.start, taken)
      BY <1>1, <1>9, <3>2, PassedStays
    <3>3. CASE \E i \in DOMAIN r.frames : r.frames[i] = w.of
      BY <1>12, <1>13, <3>3
    <3> QED BY <3>1, <3>2, <3>3
  <2>3. CASE p <= w.start
    <3>1. \/ \E i \in DOMAIN s.frames : s.frames[i] = w.of
          \/ PassedOver(A, W, w.start, p + Len(b))
      BY <1>6, <1>21, <2>3 DEF Drained
    <3>2. CASE \E i \in DOMAIN s.frames : s.frames[i] = w.of
      BY <1>12, <1>13, <3>2
    <3> QED BY <1>9, <3>1, <3>2
  <2> QED BY <1>1, <2>1, <2>2, <2>3
<1>22. q + Len(s.rest) = taken + Len(c)
  BY <1>7, <1>9
<1>23. Decoded(A, W, z, taken + Len(c), q)
  BY <1>7, <1>9, <1>15, <1>19, <1>20, <1>21, <1>22 DEF Decoded
<1> QED BY <1>3, <1>5, <1>10, <1>14, <1>23

-----------------------------------------------------------------------------
(* More is written to the stream                                            *)

Grows(A, W, B, V) ==
  /\ IsPrefixOf(A, B) /\ Len(A) \in Nat
  /\ W \subseteq V
  /\ \A w \in V : w \in W \/ (w.start \in Nat /\ w.start >= Len(A))

LEMMA InFramesOf ==
  ASSUME NEW u \in Seq(Unit), NEW w
  PROVE  w \in FramesOf(u) <=>
           \E k \in 1..Len(u) : /\ u[k].frame
             /\ w = [start |-> StartOf(u, k), size |-> Len(u[k].bytes), of |-> NumberOf(u[k])]
<1>1. DOMAIN u = 1..Len(u)
  OBVIOUS
<1> QED BY <1>1 DEF FramesOf

LEMMA StreamGrows ==
  ASSUME NEW u \in Seq(Unit), NEW v \in Seq(Unit)
  PROVE  Grows(BytesOf[u], FramesOf(u), BytesOf[u \o v], FramesOf(u \o v))
<1>1. PICK x \in Seq(Unit) : /\ x = u \o v /\ Len(x) = Len(u) + Len(v)
                             /\ \A k \in 1..Len(u) : x[k] = u[k]
  <2>1. PICK y : y = u \o v
    OBVIOUS
  <2>2. u \o v \in Seq(Unit) /\ Len(u \o v) = Len(u) + Len(v)
        /\ \A k \in 1..Len(u) : (u \o v)[k] = u[k]
    BY Appended
  <2> QED BY <2>2
<1>2. BytesOf[u] \in Seq(Byte) /\ BytesOf[v] \in Seq(Byte) /\ BytesOf[x] \in Seq(Byte)
  BY BytesEquation
<1>3. BytesOf[x] = BytesOf[u] \o BytesOf[v]
  BY <1>1, BytesConcat
<1>4. IsPrefixOf(BytesOf[u], BytesOf[x])
  <2>1. PICK a \in Seq(Byte), b \in Seq(Byte) : a = BytesOf[u] /\ b = BytesOf[v]
    BY <1>2
  <2>2. IsPrefixOf(a, a \o b)
    BY DEF IsPrefixOf
  <2> QED BY <1>3, <2>1, <2>2
<1>5. \A k \in 1..Len(u) : StartOf(x, k) = StartOf(u, k)
  BY <1>1, PlacesKept
<1>6. ASSUME NEW w \in FramesOf(u) PROVE w \in FramesOf(x)
  <2>1. PICK k \in 1..Len(u) : /\ u[k].frame
          /\ w = [start |-> StartOf(u, k), size |-> Len(u[k].bytes), of |-> NumberOf(u[k])]
    BY InFramesOf
  <2>2. k \in 1..Len(x) /\ x[k] = u[k]
    BY <1>1
  <2>3. w = [start |-> StartOf(x, k), size |-> Len(x[k].bytes), of |-> NumberOf(x[k])]
    BY <1>5, <2>1, <2>2
  <2> QED BY <2>1, <2>2, <2>3, InFramesOf
<1>7. ASSUME NEW w \in FramesOf(x) 
      PROVE  w \in FramesOf(u) \/ (w.start \in Nat /\ w.start >= Len(BytesOf[u]))
  <2>1. PICK k \in 1..Len(x) : /\ x[k].frame
          /\ w = [start |-> StartOf(x, k), size |-> Len(x[k].bytes), of |-> NumberOf(x[k])]
    BY InFramesOf
  <2>2. CASE k \in 1..Len(u)
    <3>1. w = [start |-> StartOf(u, k), size |-> Len(u[k].bytes), of |-> NumberOf(u[k])]
      BY <1>1, <1>5, <2>1, <2>2
    <3>2. u[k].frame /\ k \in 1..Len(u)
      BY <1>1, <2>1, <2>2
    <3> QED BY <3>1, <3>2, InFramesOf
  <2>3. CASE k \notin 1..Len(u)
    <3>1. Len(u) \in 0..(k - 1) /\ k - 1 \in 0..Len(x) /\ Len(u) \in 0..Len(x)
      BY <1>1, <2>3
    <3>2. EndOf(x, Len(u)) <= EndOf(x, k - 1)
      BY <3>1, EndsRise
    <3>3. StartOf(x, k) = EndOf(x, k - 1)
      BY Places
    <3>4. EndOf(x, Len(u)) = Len(BytesOf[u])
      <4>1. Cut(x, Len(u)) = Cut(u, Len(u))
        <5>1. Len(u) \in 0..Len(u)
          OBVIOUS
        <5> QED BY <1>1, <5>1, CutOfConcat
      <4>2. Cut(u, Len(u)) = u
        BY CutFacts
      <4> QED BY <4>1, <4>2 DEF EndOf, Cut
    <3>5. w.start = StartOf(x, k)
      BY <2>1
    <3>a. \A i \in 0..Len(x) : EndOf(x, i) \in Nat
      BY Places
    <3>6. Len(BytesOf[u]) \in Nat /\ EndOf(x, k - 1) \in Nat
      BY <1>2, <3>1, <3>a
    <3> QED BY <3>2, <3>3, <3>4, <3>5, <3>6
  <2> QED BY <2>2, <2>3
<1>8. Len(BytesOf[u]) \in Nat
  BY <1>2
<1>9. FramesOf(u) \subseteq FramesOf(x)
  BY <1>6
<1>10. \A w \in FramesOf(x) :
         w \in FramesOf(u) \/ (w.start \in Nat /\ w.start >= Len(BytesOf[u]))
  BY <1>7
<1> QED BY <1>1, <1>4, <1>8, <1>9, <1>10 DEF Grows

LEMMA SliceGrows ==
  ASSUME NEW A, NEW W, NEW B, NEW V, Grows(A, W, B, V), NEW b, NEW p, Slice(b, A, p)
  PROVE  Slice(b, B, p)
<1>1. /\ b \in Seq(Byte) /\ Len(b) \in Nat /\ p \in Nat /\ p + Len(b) <= Len(A)
      /\ \A k \in 1..Len(b) : b[k] = A[p + k]
  BY DEF Slice
<1>2. Len(A) \in Nat /\ Len(A) <= Len(B) /\ Len(B) \in Nat /\ \A k \in 1..Len(A) : B[k] = A[k]
  BY DEF Grows, IsPrefixOf
<1>3. ASSUME NEW k \in 1..Len(b) PROVE b[k] = B[p + k]
  <2>1. p + k \in 1..Len(A)
    BY <1>1, <1>2
  <2> QED BY <1>1, <1>2, <2>1
<1> QED BY <1>1, <1>2, <1>3 DEF Slice

LEMMA PassedGrows ==
  ASSUME NEW A, NEW W, NEW B, NEW V, Grows(A, W, B, V), NEW place, NEW taken \in Nat,
         taken <= Len(A), PassedOver(A, W, place, taken)
  PROVE  PassedOver(B, V, place, taken)
<1>1. Len(A) \in Nat /\ Len(A) <= Len(B) /\ Len(B) \in Nat /\ \A k \in 1..Len(A) : B[k] = A[k]
  BY DEF Grows, IsPrefixOf
<1>2. PICK x \in Nat : x + 3 <= taken /\ Announced(A, W, x, place)
  BY DEF PassedOver
<1>3. x + 1 \in 1..Len(A) /\ x + 2 \in 1..Len(A) /\ x + 3 \in 1..Len(A)
  BY <1>1, <1>2
<1>4. B[x + 1] = A[x + 1] /\ B[x + 2] = A[x + 2] /\ B[x + 3] = A[x + 3] /\ x + 2 <= Len(B)
  BY <1>1, <1>3
<1>5. HasMagic(B, x)
  BY <1>2, <1>4 DEF Announced, HasMagic
<1>6. \A w \in V : w.start # x
  <2> SUFFICES ASSUME NEW w \in V PROVE w.start # x
    OBVIOUS
  <2>1. w \in W \/ (w.start \in Nat /\ w.start >= Len(A))
    BY DEF Grows
  <2>2. w \in W => w.start # x
    BY <1>2 DEF Announced
  <2>3. w.start \in Nat /\ w.start >= Len(A) => w.start # x
    BY <1>1, <1>3
  <2> QED BY <2>1, <2>2, <2>3
<1>7. Announced(B, V, x, place)
  BY <1>2, <1>4, <1>5, <1>6 DEF Announced
<1> QED BY <1>2, <1>7 DEF PassedOver

LEMMA DecodedGrows ==
  ASSUME NEW A, NEW W, NEW B, NEW V, Grows(A, W, B, V),
         NEW r, NEW taken, NEW p, Decoded(A, W, r, taken, p)
  PROVE  Decoded(B, V, r, taken, p)
<1>1. /\ r \in Result /\ taken \in Nat /\ p \in Nat /\ p + Len(r.rest) = taken
      /\ Slice(r.rest, A, p) /\ Idle(r.rest)
      /\ \A i, j \in DOMAIN r.frames : i < j => r.frames[i] < r.frames[j]
  BY DEF Decoded
<1>2. Slice(r.rest, B, p)
  BY <1>1, SliceGrows
<1>3. taken <= Len(A) /\ Len(A) \in Nat /\ p <= Len(A)
  <2>1. Len(r.rest) \in Nat
    BY <1>1 DEF Result
  <2> QED BY <1>1, <2>1 DEF Slice, Grows
<1>4. ASSUME NEW i \in DOMAIN r.frames
      PROVE  \E w \in V : w.start + w.size <= p /\ r.frames[i] = w.of
  BY DEF Decoded, Grows
<1>5. ASSUME NEW w \in V, w.start < p
      PROVE  \/ \E i \in DOMAIN r.frames : r.frames[i] = w.of
             \/ PassedOver(B, V, w.start, taken)
  <2>1. w \in W \/ (w.start \in Nat /\ w.start >= Len(A))
    BY DEF Grows
  <2>2. CASE w \in W
    <3>1. \/ \E i \in DOMAIN r.frames : r.frames[i] = w.of
          \/ PassedOver(A, W, w.start, taken)
      BY <1>5, <2>2 DEF Decoded
    <3>2. PassedOver(A, W, w.start, taken) => PassedOver(B, V, w.start, taken)
      BY <1>1, <1>3, PassedGrows
    <3> QED BY <3>1, <3>2
  <2>3. CASE w.start \in Nat /\ w.start >= Len(A)
    BY <1>1, <1>3, <1>5, <2>3
  <2> QED BY <2>1, <2>2, <2>3
<1> QED BY <1>1, <1>2, <1>4, <1>5 DEF Decoded

-----------------------------------------------------------------------------
(* What a tick of the timer writes                                          *)

LEMMA WritersSize == Cardinality(Writers) \in 0..DeviceCount
<1>1. DeviceCount \in Nat
  BY LinkAssumption
<1>2. IsFiniteSet(Devices) /\ Cardinality(Devices) = DeviceCount
  <2>1. IsFiniteSet(1..DeviceCount)
        /\ Cardinality(1..DeviceCount) = IF 1 > DeviceCount THEN 0 ELSE DeviceCount - 1 + 1
    BY <1>1, FS_Interval
  <2> QED BY <1>1, <2>1 DEF Devices
<1>3. Writers \subseteq Devices
  BY DEF Writers
<1>4. IsFiniteSet(Writers) /\ Cardinality(Writers) <= Cardinality(Devices)
  BY <1>2, <1>3, FS_Subset
<1>5. Cardinality(Writers) \in Nat
  BY <1>4, FS_CardinalityType
<1> QED BY <1>1, <1>2, <1>4, <1>5

LEMMA DamagedOK ==
  ASSUME NEW bytes \in Seq(Byte), DamagedBytes(bytes)
  PROVE  UnitOK(Damaged(bytes)) /\ ~Damaged(bytes).frame
<1>1. PICK un : un = [frame |-> FALSE, bytes |-> bytes]
  OBVIOUS
<1>2. un \in Unit /\ ~un.frame /\ un.bytes = bytes
  BY <1>1 DEF Unit
<1>3. UnitOK(un)
  BY <1>2 DEF UnitOK
<1> QED BY <1>1, <1>2, <1>3 DEF Damaged

LEMMA RawOK ==
  ASSUME NEW values \in Seq(Nat)
  PROVE  UnitOK(Damaged(Raw(values))) /\ ~Damaged(Raw(values)).frame
<1>1. PICK r \in Seq(Byte) : r = Raw(values)
  BY RawBytes
<1>2. \A k \in DOMAIN r : r[k].at = 0
  BY <1>1, RawBytes
<1>3. DamagedBytes(r)
  BY <1>2 DEF DamagedBytes
<1>4. UnitOK(Damaged(r)) /\ ~Damaged(r).frame
  BY <1>3, DamagedOK
<1> QED BY <1>1, <1>4

LEMMA BadCrcOK ==
  ASSUME NEW n \in 4..kMaxFrameSize, NEW f \in Numbers
  PROVE  UnitOK(Damaged(WithBadCrc(Encode(n, f)))) /\ ~Damaged(WithBadCrc(Encode(n, f))).frame
<1>1. PICK r : r = WithBadCrc(Encode(n, f))
  OBVIOUS
<1>2. r \in Seq(Byte)
  BY <1>1, BadCrc
<1>3. DamagedBytes(r)
  BY <1>1 DEF DamagedBytes
<1>4. UnitOK(Damaged(r)) /\ ~Damaged(r).frame
  BY <1>2, <1>3, DamagedOK
<1> QED BY <1>1, <1>4

LEMMA FrameOK ==
  ASSUME NEW n \in 4..kMaxFrameSize, NEW f \in Numbers
  PROVE  UnitOK(Frame(Encode(n, f))) /\ NumberOf(Frame(Encode(n, f))) = f
<1>1. PICK e : e = Encode(n, f)
  OBVIOUS
<1>2. e \in Seq(Byte) /\ Len(e) = n /\ \A k \in 1..n : e[k].of = f
  BY <1>1, Encoded
<1>3. WholeBytesOf(e)
  BY <1>1 DEF WholeBytesOf
<1>4. PICK un : un = [frame |-> TRUE, bytes |-> e]
  OBVIOUS
<1>5. un \in Unit /\ un.frame /\ un.bytes = e
  BY <1>2, <1>4 DEF Unit
<1>6. UnitOK(un)
  BY <1>3, <1>5 DEF UnitOK
<1>7. 1 \in 1..n
  BY Sizes
<1>8. NumberOf(un) = f
  BY <1>2, <1>5, <1>7 DEF NumberOf
<1> QED BY <1>1, <1>4, <1>6, <1>8 DEF Frame

LEMMA UnitOfOK ==
  ASSUME NEW d, NEW n \in Numbers
  PROVE  /\ UnitOK(UnitOf(d, n))
         /\ UnitOf(d, n).frame => wireFormat # "JsonLines" /\ NumberOf(UnitOf(d, n)) = n
<1>1. HeartbeatSize \in 4..kMaxFrameSize /\ TelemetrySize \in 4..kMaxFrameSize
  BY Sizes, LinkAssumption DEF HeartbeatSize, TelemetrySize
<1>2. CASE wireFormat = "JsonLines"
  <2>1. <<0>> \in Seq(Nat)
    OBVIOUS
  <2>2. UnitOK(Damaged(Raw(<<0>>))) /\ ~Damaged(Raw(<<0>>)).frame
    BY <2>1, RawOK
  <2> QED BY <1>2, <2>2 DEF UnitOf
<1>3. CASE wireFormat # "JsonLines" /\ ~running[d]
  <2>1. UnitOK(Frame(Encode(HeartbeatSize, n))) /\ NumberOf(Frame(Encode(HeartbeatSize, n))) = n
    BY <1>1, FrameOK
  <2> QED BY <1>3, <2>1 DEF UnitOf
<1>4. CASE wireFormat # "JsonLines" /\ running[d] /\ scenario[d] = "BadCrc"
  <2>1. /\ UnitOK(Damaged(WithBadCrc(Encode(TelemetrySize, n))))
        /\ ~Damaged(WithBadCrc(Encode(TelemetrySize, n))).frame
    BY <1>1, BadCrcOK
  <2> QED BY <1>4, <2>1 DEF UnitOf
<1>5. CASE wireFormat # "JsonLines" /\ running[d] /\ scenario[d] # "BadCrc"
  <2>1. UnitOK(Frame(Encode(TelemetrySize, n))) /\ NumberOf(Frame(Encode(TelemetrySize, n))) = n
    BY <1>1, FrameOK
  <2> QED BY <1>5, <2>1 DEF UnitOf
<1> QED BY <1>2, <1>3, <1>4, <1>5

(* Units that may follow a stream with frames below number n, to a new m.   *)
Follows(v, n, m) ==
  /\ v \in Seq(Unit)
  /\ \A k \in 1..Len(v) : UnitOK(v[k])
  /\ \A k \in 1..Len(v) : v[k].frame => n <= NumberOf(v[k]) /\ NumberOf(v[k]) < m
  /\ \A j, k \in 1..Len(v) : j < k /\ v[j].frame /\ v[k].frame
                               => NumberOf(v[j]) < NumberOf(v[k])

LEMMA UnitsFollow ==
  ASSUME m_sequence \in Nat, wireFormat \in {"ProtocolV1", "JsonLines"},
         m_sequence + DeviceCount <= MaxSequence, NEW m \in Nat,
         m = IF wireFormat = "ProtocolV1" THEN m_sequence + Len(Units) ELSE m_sequence
  PROVE  Units \in Seq(Unit) /\ Len(Units) \in 0..DeviceCount /\ Follows(Units, m_sequence, m)
<1>1. PICK size \in 0..DeviceCount : size = Cardinality(Writers)
  BY WritersSize
<1>2. size \in Nat
  BY <1>1, LinkAssumption
<1> DEFINE D(k) == CHOOSE d \in Writers : Cardinality({e \in Writers : e < d}) = k - 1
<1>3. PICK v : v = [k \in 1..size |-> UnitOf(D(k), m_sequence + k - 1)]
  OBVIOUS
<1>4. v = Units
  BY <1>1, <1>3 DEF Units
<1> HIDE DEF D
<1>5. ASSUME NEW k \in 1..size
      PROVE  /\ UnitOK(v[k]) /\ v[k] \in Unit
             /\ v[k].frame => wireFormat # "JsonLines" /\ NumberOf(v[k]) = m_sequence + k - 1
  <2>1. PICK n \in Numbers : n = m_sequence + k - 1
    BY <1>2, LinkAssumption DEF Numbers
  <2>2. /\ UnitOK(UnitOf(D(k), n))
        /\ UnitOf(D(k), n).frame => wireFormat # "JsonLines" /\ NumberOf(UnitOf(D(k), n)) = n
    BY UnitOfOK
  <2>3. v[k] = UnitOf(D(k), n)
    BY <1>3, <2>1
  <2> QED BY <2>1, <2>2, <2>3 DEF UnitOK
<1>6. v \in Seq(Unit) /\ Len(v) = size
  <2>1. v \in [1..size -> Unit]
    BY <1>3, <1>5
  <2> QED BY <1>2, <2>1
<1>7. ASSUME NEW k \in 1..size, v[k].frame
      PROVE  m_sequence <= NumberOf(v[k]) /\ NumberOf(v[k]) < m
  <2>1. m = m_sequence + size
    BY <1>4, <1>5, <1>6, <1>7
  <2> QED BY <1>2, <1>5, <1>7, <2>1
<1>8. ASSUME NEW j \in 1..size, NEW k \in 1..size, j < k, v[j].frame, v[k].frame
      PROVE  NumberOf(v[j]) < NumberOf(v[k])
  BY <1>2, <1>5, <1>8
<1>9. Follows(v, m_sequence, m)
  BY <1>5, <1>6, <1>7, <1>8 DEF Follows
<1> QED BY <1>1, <1>4, <1>6, <1>9

-----------------------------------------------------------------------------
(* The invariant of one connection, when the next frame has number n        *)

ResultOf(l) == [rest |-> l.buffer, frames |-> l.frames]

LinkOK(l, n) ==
  /\ l \in Link
  /\ StreamOK(l.written)
  /\ \A k \in DOMAIN l.written : l.written[k].frame => NumberOf(l.written[k]) < n
  /\ Slice(l.channel, BytesOf[l.written], l.taken)
  /\ l.state \in {"pending", "open"}
       => l.taken + Len(l.channel) = Len(BytesOf[l.written])
  /\ \E p : Decoded(BytesOf[l.written], FramesOf(l.written), ResultOf(l), l.taken, p)

LEMMA LinkLater ==
  ASSUME NEW l, NEW n \in Nat, NEW m \in Nat, n <= m, LinkOK(l, n)
  PROVE  LinkOK(l, m)
<1>1. ASSUME NEW k \in DOMAIN l.written, l.written[k].frame
      PROVE  NumberOf(l.written[k]) < m
  <2>1. l.written \in Seq(Unit)
    BY DEF LinkOK, StreamOK
  <2>2. NumberOf(l.written[k]) < n
    BY <1>1 DEF LinkOK
  <2>3. NumberOf(l.written[k]) \in Nat
    <3>1. PICK u : u = l.written
      OBVIOUS
    <3>2. StreamOK(u) /\ k \in 1..Len(u) /\ u[k].frame
      BY <1>1, <2>1, <3>1 DEF LinkOK
    <3>3. NumberOf(u[k]) \in Nat
      BY <3>2, FrameOfUnit
    <3> QED BY <3>1, <3>3
  <2> QED BY <2>2, <2>3
<1> QED BY <1>1 DEF LinkOK

LEMMA EmptyOK ==
  ASSUME NEW n \in Nat, NEW z \in Link, z.written = << >>, z.channel = << >>,
         z.taken = 0, z.buffer = << >>, z.frames = << >>
  PROVE  LinkOK(z, n)
<1>1. BytesOf[<< >>] = << >> /\ Len(<< >>) = 0 /\ DOMAIN << >> = {}
  BY BytesEmpty
<1>2. StreamOK(<< >>)
  BY DEF StreamOK
<1>3. Slice(<< >>, << >>, 0)
  BY DEF Slice
<1>4. Decoded(BytesOf[<< >>], FramesOf(<< >>), ResultOf(z), 0, 0)
  BY NothingDecoded DEF ResultOf
<1>5. z.taken + Len(z.channel) = Len(BytesOf[z.written])
  BY <1>1
<1>6. \E p : Decoded(BytesOf[z.written], FramesOf(z.written), ResultOf(z), z.taken, p)
  BY <1>4
<1> QED BY <1>1, <1>2, <1>3, <1>5, <1>6 DEF LinkOK

(* The server's end changes its state, or loses the end of what was sent.   *)
LEMMA EndChanges ==
  ASSUME NEW n, NEW l, LinkOK(l, n), NEW z \in Link,
         z.written = l.written, z.taken = l.taken, z.buffer = l.buffer, z.frames = l.frames,
         \/ /\ z.channel = l.channel
            /\ z.state \in {"pending", "open"} => l.state \in {"pending", "open"}
         \/ /\ z.state \notin {"pending", "open"}
            /\ \E m \in 0..Len(l.channel) : z.channel = SubSeq(l.channel, 1, m)
  PROVE  LinkOK(z, n)
<1>1. ResultOf(z) = ResultOf(l)
  BY DEF ResultOf
<1>2. Slice(z.channel, BytesOf[l.written], l.taken)
  <2>1. CASE z.channel = l.channel
    BY <2>1 DEF LinkOK
  <2>2. CASE \E m \in 0..Len(l.channel) : z.channel = SubSeq(l.channel, 1, m)
    <3>1. PICK m \in 0..Len(l.channel) : z.channel = SubSeq(l.channel, 1, m)
      BY <2>2
    <3>2. PICK c : c = l.channel
      OBVIOUS
    <3>3. PICK A : A = BytesOf[l.written]
      OBVIOUS
    <3>4. PICK t : t = l.taken
      OBVIOUS
    <3>5. Slice(c, A, t)
      BY <3>2, <3>3, <3>4 DEF LinkOK
    <3>6. c \in Seq(Byte) /\ Len(c) \in Nat /\ t \in Nat /\ t + Len(c) <= Len(A)
          /\ m \in 0..Len(c)
      BY <3>1, <3>2, <3>5 DEF Slice
    <3>7. PICK d : d = SubSeq(c, 1, m)
      OBVIOUS
    <3>8. d \in Seq(Byte) /\ Len(d) = m /\ \A k \in 1..m : d[k] = c[k]
      BY <3>6, <3>7
    <3>9. Len(A) \in Nat
      <4>1. l.written \in Seq(Unit)
        BY DEF LinkOK, StreamOK
      <4>2. BytesOf[l.written] \in Seq(Byte)
        BY <4>1, BytesEquation
      <4> QED BY <3>3, <4>2
    <3>10. t + Len(d) <= Len(A)
      BY <3>6, <3>8, <3>9
    <3>a. \A k \in 1..Len(c) : c[k] = A[t + k]
      BY <3>5 DEF Slice
    <3>11. ASSUME NEW k \in 1..Len(d) PROVE d[k] = A[t + k]
      <4>1. k \in 1..m /\ k \in 1..Len(c)
        BY <3>6, <3>8
      <4> QED BY <3>8, <3>a, <4>1
    <3>12. Slice(d, A, t)
      BY <3>6, <3>8, <3>10, <3>11 DEF Slice
    <3> QED BY <3>1, <3>2, <3>3, <3>4, <3>7, <3>12
  <2> QED BY <2>1, <2>2
<1>3. z.state \in {"pending", "open"} => z.taken + Len(z.channel) = Len(BytesOf[z.written])
  BY DEF LinkOK
<1> QED BY <1>1, <1>2, <1>3 DEF LinkOK

LEMMA StreamJoins ==
  ASSUME NEW n \in Nat, NEW m \in Nat, n <= m, NEW u, StreamOK(u),
         \A k \in DOMAIN u : u[k].frame => NumberOf(u[k]) < n,
         NEW v, Follows(v, n, m)
  PROVE  /\ StreamOK(u \o v)
         /\ \A k \in DOMAIN (u \o v) : (u \o v)[k].frame => NumberOf((u \o v)[k]) < m
<1>1. u \in Seq(Unit) /\ v \in Seq(Unit) /\ Len(u) \in Nat /\ Len(v) \in Nat
  BY DEF StreamOK, Follows
<1>2. PICK t : t = u \o v
  OBVIOUS
<1>3. /\ t \in Seq(Unit) /\ DOMAIN t = 1..Len(t)
      /\ \A j \in DOMAIN t :
           \/ j \in 1..Len(u) /\ t[j] = u[j]
           \/ j - Len(u) \in 1..Len(v) /\ t[j] = v[j - Len(u)]
  <2>1. /\ u \o v \in Seq(Unit)
        /\ \A j \in DOMAIN (u \o v) :
              \/ j \in 1..Len(u) /\ (u \o v)[j] = u[j]
              \/ j - Len(u) \in 1..Len(v) /\ (u \o v)[j] = v[j - Len(u)]
    BY <1>1, Appended
  <2>2. t \in Seq(Unit)
    BY <1>2, <2>1
  <2> QED BY <1>2, <2>1, <2>2
<1>4. \A k \in 1..Len(u) : UnitOK(u[k]) /\ (u[k].frame => NumberOf(u[k]) < n)
  BY <1>1 DEF StreamOK
<1>5. \A k \in 1..Len(v) :
        UnitOK(v[k]) /\ (v[k].frame => n <= NumberOf(v[k]) /\ NumberOf(v[k]) < m)
  BY DEF Follows
<1>6. \A k \in 1..Len(u) : u[k].frame => NumberOf(u[k]) \in Nat
  BY FrameOfUnit
<1>7. \A k \in 1..Len(v) : v[k].frame => NumberOf(v[k]) \in Nat
  <2> SUFFICES ASSUME NEW k \in 1..Len(v), v[k].frame PROVE NumberOf(v[k]) \in Nat
    OBVIOUS
  <2>1. PICK i \in 4..kMaxFrameSize, f \in Numbers : v[k].bytes = Encode(i, f)
    BY <1>5 DEF UnitOK, WholeBytesOf
  <2>2. 1 \in 1..i
    BY Sizes
  <2>3. Encode(i, f)[1].of = f /\ f \in Nat
    BY <2>2, Encoded
  <2> QED BY <2>1, <2>3 DEF NumberOf
<1>8. ASSUME NEW k \in DOMAIN t
      PROVE  UnitOK(t[k]) /\ (t[k].frame => NumberOf(t[k]) < m)
  <2>1. CASE k \in 1..Len(u) /\ t[k] = u[k]
    <3>1. t[k].frame => NumberOf(u[k]) < n /\ NumberOf(u[k]) \in Nat
      BY <1>4, <1>6, <2>1
    <3>2. t[k].frame => NumberOf(u[k]) < m
      BY <3>1
    <3> QED BY <1>4, <2>1, <3>2
  <2>2. CASE k - Len(u) \in 1..Len(v) /\ t[k] = v[k - Len(u)]
    BY <1>5, <2>2
  <2> QED BY <1>3, <2>1, <2>2
<1>9. ASSUME NEW j \in DOMAIN t, NEW k \in DOMAIN t, j < k, t[j].frame, t[k].frame
      PROVE  NumberOf(t[j]) < NumberOf(t[k])
  <2>0. j \in Int /\ k \in Int
    BY <1>3
  <2>1. CASE k \in 1..Len(u) /\ t[k] = u[k]
    <3>1. j \in 1..Len(u) /\ t[j] = u[j]
      <4>1. ~(j - Len(u) \in 1..Len(v))
        BY <1>1, <1>9, <2>0, <2>1
      <4> QED BY <1>3, <4>1
    <3> QED BY <1>1, <1>9, <2>1, <3>1 DEF StreamOK
  <2>2. CASE k - Len(u) \in 1..Len(v) /\ t[k] = v[k - Len(u)]
    <3>1. CASE j \in 1..Len(u) /\ t[j] = u[j]
      <4>1. NumberOf(t[j]) < n /\ NumberOf(t[j]) \in Nat
        BY <1>4, <1>6, <1>9, <3>1
      <4>2. n <= NumberOf(t[k]) /\ NumberOf(t[k]) \in Nat
        BY <1>5, <1>7, <1>9, <2>2
      <4> QED BY <4>1, <4>2
    <3>2. CASE j - Len(u) \in 1..Len(v) /\ t[j] = v[j - Len(u)]
      <4>1. j - Len(u) < k - Len(u)
        BY <1>1, <1>9, <2>0
      <4> QED BY <1>9, <2>2, <3>2, <4>1 DEF Follows
    <3> QED BY <1>3, <3>1, <3>2
  <2> QED BY <1>3, <2>1, <2>2
<1>10. StreamOK(t)
  BY <1>3, <1>8, <1>9 DEF StreamOK
<1> QED BY <1>2, <1>8, <1>10

(* The server writes units to an open connection.                           *)
LEMMA Writes ==
  ASSUME NEW n \in Nat, NEW m \in Nat, n <= m, NEW l, LinkOK(l, n), l.state = "open",
         NEW v, Follows(v, n, m),
         NEW z \in Link, z.written = l.written \o v, z.channel = l.channel \o BytesOf[v],
         z.taken = l.taken, z.buffer = l.buffer, z.frames = l.frames
  PROVE  LinkOK(z, m)
<1>1. PICK u \in Seq(Unit) : u = l.written
  BY DEF LinkOK, StreamOK
<1>2. v \in Seq(Unit)
  BY DEF Follows
<1>3. /\ StreamOK(z.written)
      /\ \A k \in DOMAIN z.written : z.written[k].frame => NumberOf(z.written[k]) < m
  <2>1. StreamOK(u) /\ \A k \in DOMAIN u : u[k].frame => NumberOf(u[k]) < n
    BY <1>1 DEF LinkOK
  <2>2. /\ StreamOK(u \o v)
        /\ \A k \in DOMAIN (u \o v) : (u \o v)[k].frame => NumberOf((u \o v)[k]) < m
    BY <2>1, StreamJoins
  <2> QED BY <1>1, <2>2
<1>4. PICK A \in Seq(Byte), C \in Seq(Byte), B \in Seq(Byte) :
        /\ A = BytesOf[u] /\ C = BytesOf[v] /\ B = BytesOf[u \o v] /\ B = A \o C
  <2>1. u \o v \in Seq(Unit)
    BY <1>2
  <2>2. BytesOf[u] \in Seq(Byte) /\ BytesOf[v] \in Seq(Byte) /\ BytesOf[u \o v] \in Seq(Byte)
    BY <1>2, <2>1, BytesEquation
  <2>3. BytesOf[u \o v] = BytesOf[u] \o BytesOf[v]
    BY <1>2, BytesConcat
  <2> QED BY <2>2, <2>3
<1>5. PICK V, W : V = FramesOf(u) /\ W = FramesOf(u \o v)
  OBVIOUS
<1>6. Grows(A, V, B, W)
  BY <1>2, <1>4, <1>5, StreamGrows
<1>7. BytesOf[z.written] = B /\ FramesOf(z.written) = W
  BY <1>1, <1>4, <1>5
<1>8. PICK c, t : c = l.channel /\ t = l.taken
  OBVIOUS
<1>9. Slice(c, A, t) /\ t + Len(c) = Len(A)
  BY <1>1, <1>4, <1>8 DEF LinkOK
<1>10. Slice(c, B, t)
  BY <1>6, <1>9, SliceGrows
<1>11. c \in Seq(Byte) /\ Len(c) \in Nat /\ t \in Nat
  BY <1>9 DEF Slice
<1>12. Slice(C, B, t + Len(c))
  <2>1. /\ Len(B) = Len(A) + Len(C) /\ Len(A) \in Nat /\ Len(C) \in Nat
        /\ \A k \in 1..Len(C) : C[k] = B[Len(A) + k]
    <3>1. /\ Len(A \o C) = Len(A) + Len(C)
          /\ \A i \in 1..Len(C) : /\ Len(A) + i \in DOMAIN (A \o C)
                                   /\ (A \o C)[Len(A) + i] = C[i]
      BY Appended
    <3>2. B = A \o C
      BY <1>4
    <3>3. Len(A) \in Nat /\ Len(C) \in Nat
      OBVIOUS
    <3>4. Len(B) = Len(A) + Len(C)
      BY <3>1, <3>2
    <3>5. \A k \in 1..Len(C) : C[k] = B[Len(A) + k]
      BY <3>1, <3>2
    <3> QED BY <3>3, <3>4, <3>5
  <2>2. Slice(C, B, Len(A))
    BY <2>1 DEF Slice
  <2> QED BY <1>9, <2>2
<1>13. Slice(c \o C, B, t) /\ Len(c \o C) = Len(c) + Len(C)
  BY <1>10, <1>12, SlicesJoin
<1>14. Slice(z.channel, B, z.taken)
  BY <1>4, <1>8, <1>13
<1>15. z.taken + Len(z.channel) = Len(B)
  <2>1. Len(B) = Len(A) + Len(C) /\ Len(A) \in Nat /\ Len(C) \in Nat
    BY <1>4
  <2>2. z.channel = c \o C /\ z.taken = t
    BY <1>4, <1>8
  <2>3. Len(z.channel) = Len(c) + Len(C)
    BY <1>13, <2>2
  <2>4. t + Len(c) = Len(A) /\ Len(c) \in Nat /\ t \in Nat
    BY <1>9, <1>11
  <2>5. t + (Len(c) + Len(C)) = Len(B)
    BY <2>1, <2>4
  <2> QED BY <2>2, <2>3, <2>5
<1>16. PICK p : Decoded(A, V, ResultOf(l), l.taken, p)
  BY <1>1, <1>4, <1>5 DEF LinkOK
<1>17. Decoded(B, W, ResultOf(l), l.taken, p)
  BY <1>6, <1>16, DecodedGrows
<1>18. ResultOf(z) = ResultOf(l)
  BY DEF ResultOf
<1>19. \E q : Decoded(B, W, ResultOf(z), z.taken, q)
  BY <1>17, <1>18
<1> QED BY <1>3, <1>7, <1>14, <1>15, <1>19 DEF LinkOK

(* The monitor reads.                                                       *)
LEMMA Reads ==
  ASSUME NEW n, NEW l, LinkOK(l, n), NEW m \in 0..Len(l.channel),
         NEW s, s = Drain[l.buffer \o SubSeq(l.channel, 1, m)],
         NEW z, z.state = l.state, z.written = l.written, z.taken = l.taken + m,
         z.channel = SubSeq(l.channel, m + 1, Len(l.channel)),
         z.buffer = s.rest, z.frames = l.frames \o s.frames, z \in Link
  PROVE  LinkOK(z, n)
<1>1. PICK A, W, c, t : /\ A = BytesOf[l.written] /\ W = FramesOf(l.written)
                        /\ c = l.channel /\ t = l.taken
  OBVIOUS
<1>2. StreamOK(l.written) /\ Slice(c, A, t)
  BY <1>1 DEF LinkOK
<1>3. Layout(A, W)
  BY <1>1, <1>2, StreamLayout
<1>4. c \in Seq(Byte) /\ Len(c) \in Nat /\ t \in Nat /\ m \in 0..Len(c) /\ m \in Nat
  BY <1>1, <1>2 DEF Slice
<1>5. PICK d : d = SubSeq(c, 1, m)
  OBVIOUS
<1>6. d \in Seq(Byte) /\ Len(d) = m /\ \A k \in 1..m : d[k] = c[k]
  BY <1>4, <1>5
<1>7. Len(A) \in Nat /\ t + Len(c) <= Len(A)
  BY <1>2, <1>3 DEF Slice, Layout
<1>8. Slice(d, A, t)
  <2>1. t + Len(d) <= Len(A)
    BY <1>4, <1>6, <1>7
  <2>2. ASSUME NEW k \in 1..Len(d) PROVE d[k] = A[t + k]
    <3>1. k \in 1..m /\ k \in 1..Len(c)
      BY <1>4, <1>6
    <3>2. c[k] = A[t + k]
      BY <1>2, <3>1 DEF Slice
    <3> QED BY <1>6, <3>1, <3>2
  <2> QED BY <1>4, <1>6, <2>1, <2>2 DEF Slice
<1>9. PICK e : e = SubSeq(c, m + 1, Len(c))
  OBVIOUS
<1>10. e \in Seq(Byte) /\ Len(e) = Len(c) - m /\ \A k \in 1..Len(e) : e[k] = c[m + k]
  BY <1>4, <1>9
<1>11. Slice(e, A, t + m)
  <2>1. t + m \in Nat /\ (t + m) + Len(e) <= Len(A)
    BY <1>4, <1>7, <1>10
  <2>2. ASSUME NEW k \in 1..Len(e) PROVE e[k] = A[(t + m) + k]
    <3>1. m + k \in 1..Len(c) /\ t + (m + k) = (t + m) + k
      BY <1>4, <1>10
    <3>2. c[m + k] = A[t + (m + k)]
      BY <1>2, <3>1 DEF Slice
    <3> QED BY <1>10, <3>1, <3>2
  <2> QED BY <1>10, <2>1, <2>2 DEF Slice
<1>12. PICK r : r = ResultOf(l)
  OBVIOUS
<1>13. r.rest = l.buffer /\ r.frames = l.frames
  BY <1>12 DEF ResultOf
<1>14. PICK p : Decoded(A, W, r, t, p)
  BY <1>1, <1>12 DEF LinkOK
<1>15. PICK x : x = Drain[r.rest \o d]
  OBVIOUS
<1>16. PICK q : Decoded(A, W, [rest |-> x.rest, frames |-> r.frames \o x.frames], t + Len(d), q)
  BY <1>3, <1>8, <1>14, <1>15, DecodesMore
<1>17. x = s
  BY <1>1, <1>5, <1>13, <1>15
<1>18. ResultOf(z) = [rest |-> x.rest, frames |-> r.frames \o x.frames]
  BY <1>13, <1>17 DEF ResultOf
<1>19. \E y : Decoded(A, W, ResultOf(z), z.taken, y)
  BY <1>1, <1>6, <1>16, <1>18
<1>20. Slice(z.channel, A, z.taken)
  BY <1>1, <1>9, <1>11
<1>21. z.state \in {"pending", "open"} => z.taken + Len(z.channel) = Len(A)
  <2>1. z.taken + Len(z.channel) = t + Len(c)
    <3>1. z.channel = e /\ z.taken = t + m
      BY <1>1, <1>9
    <3>2. Len(z.channel) = Len(c) - m
      BY <1>10, <3>1
    <3> QED BY <1>4, <3>1, <3>2
  <2>2. l.state \in {"pending", "open"} => t + Len(c) = Len(A)
    BY <1>1 DEF LinkOK
  <2> QED BY <2>1, <2>2
<1> QED BY <1>1, <1>19, <1>20, <1>21 DEF LinkOK

-----------------------------------------------------------------------------
(* The invariant of the system                                              *)

IInv == TypeOK /\ \A c \in Clients : LinkOK(link[c], m_sequence)

LEMMA LinkFields ==
  ASSUME NEW l \in Link
  PROVE  /\ l.state \in {"none", "pending", "open", "closing", "closed"}
         /\ l.written \in Seq(Unit) /\ l.channel \in Seq(Byte) /\ l.taken \in Nat
         /\ l.buffer \in Seq(Byte) /\ l.frames \in Seq(Nat)
BY DEF Link

LEMMA StateChanged ==
  ASSUME NEW n, NEW l, LinkOK(l, n),
         NEW state \in {"none", "pending", "open", "closing", "closed"},
         state \in {"pending", "open"} => l.state \in {"pending", "open"}
  PROVE  LinkOK([l EXCEPT !.state = state], n)
<1>1. l \in Link
  BY DEF LinkOK
<1>2. PICK z : z = [l EXCEPT !.state = state]
  OBVIOUS
<1>3. /\ z \in Link /\ z.state = state /\ z.written = l.written /\ z.channel = l.channel
      /\ z.taken = l.taken /\ z.buffer = l.buffer /\ z.frames = l.frames
  BY <1>1, <1>2 DEF Link
<1>4. LinkOK(z, n)
  BY <1>3, EndChanges
<1> QED BY <1>2, <1>4

LEMMA StateEmpty ==
  ASSUME NEW n \in Nat, NEW state \in {"none", "pending", "open", "closing", "closed"}
  PROVE  LinkOK([NoLink EXCEPT !.state = state], n)
<1>1. PICK z : z = [NoLink EXCEPT !.state = state]
  OBVIOUS
<1>2. << >> \in Seq(Unit) /\ << >> \in Seq(Byte) /\ << >> \in Seq(Nat)
  OBVIOUS
<1>3. /\ z \in Link /\ z.written = << >> /\ z.channel = << >> /\ z.taken = 0
      /\ z.buffer = << >> /\ z.frames = << >>
  BY <1>1, <1>2 DEF NoLink, Link
<1>4. LinkOK(z, n)
  BY <1>3, EmptyOK
<1> QED BY <1>1, <1>4

LEMMA NoLinkOK == ASSUME NEW n \in Nat PROVE LinkOK(NoLink, n)
<1>1. << >> \in Seq(Unit) /\ << >> \in Seq(Byte) /\ << >> \in Seq(Nat)
  OBVIOUS
<1>2. PICK z : z = NoLink
  OBVIOUS
<1>3. /\ z \in Link /\ z.written = << >> /\ z.channel = << >> /\ z.taken = 0
      /\ z.buffer = << >> /\ z.frames = << >>
  BY <1>1, <1>2 DEF NoLink, Link
<1>4. LinkOK(z, n)
  BY <1>3, EmptyOK
<1> QED BY <1>2, <1>4

LEMMA Cuts ==
  ASSUME NEW n, NEW l, LinkOK(l, n), NEW m \in 0..Len(l.channel)
  PROVE  LinkOK([l EXCEPT !.state = "closed", !.channel = SubSeq(@, 1, m)], n)
<1>1. l \in Link
  BY DEF LinkOK
<1>2. PICK z : z = [l EXCEPT !.state = "closed", !.channel = SubSeq(@, 1, m)]
  OBVIOUS
<1>3. PICK d : d = SubSeq(l.channel, 1, m)
  OBVIOUS
<1>4. d \in Seq(Byte)
  <2>1. PICK c \in Seq(Byte) : c = l.channel
    BY <1>1, LinkFields
  <2>2. SubSeq(c, 1, m) \in Seq(Byte)
    BY <2>1
  <2> QED BY <1>3, <2>1, <2>2
<1>5. z = [l EXCEPT !.state = "closed", !.channel = d]
  BY <1>2, <1>3
<1>6. /\ z \in Link /\ z.state = "closed" /\ z.written = l.written /\ z.channel = d
      /\ z.taken = l.taken /\ z.buffer = l.buffer /\ z.frames = l.frames
  BY <1>1, <1>4, <1>5 DEF Link
<1>7. LinkOK(z, n)
  BY <1>3, <1>6, EndChanges
<1> QED BY <1>2, <1>7

LEMMA WritesUnits ==
  ASSUME NEW n \in Nat, NEW m \in Nat, n <= m, NEW l, LinkOK(l, n), l.state = "open",
         NEW v, Follows(v, n, m)
  PROVE  LinkOK(Write(l, v), m)
<1>1. l \in Link /\ v \in Seq(Unit)
  BY DEF LinkOK, Follows
<1>2. PICK z : z = [l EXCEPT !.written = @ \o v, !.channel = @ \o BytesOf[v]]
  OBVIOUS
<1>3. PICK w \in Seq(Unit) : w = l.written \o v
  <2>1. PICK x \in Seq(Unit) : x = l.written
    BY <1>1, LinkFields
  <2>2. x \o v \in Seq(Unit)
    BY <1>1
  <2> QED BY <2>1, <2>2
<1>4. PICK c \in Seq(Byte) : c = l.channel \o BytesOf[v]
  <2>1. PICK x \in Seq(Byte) : x = l.channel
    BY <1>1, LinkFields
  <2>2. PICK y \in Seq(Byte) : y = BytesOf[v]
    BY <1>1, BytesEquation
  <2>3. x \o y \in Seq(Byte)
    OBVIOUS
  <2> QED BY <2>1, <2>2, <2>3
<1>5. z = [l EXCEPT !.written = w, !.channel = c]
  BY <1>2, <1>3, <1>4
<1>6. /\ z \in Link /\ z.written = w /\ z.channel = c
      /\ z.taken = l.taken /\ z.buffer = l.buffer /\ z.frames = l.frames
  BY <1>1, <1>5 DEF Link
<1>7. z.written = l.written \o v /\ z.channel = l.channel \o BytesOf[v]
  BY <1>3, <1>4, <1>6
<1>8. LinkOK(z, m)
  BY <1>6, <1>7, Writes
<1> QED BY <1>2, <1>8 DEF Write

LEMMA ReadsBytes ==
  ASSUME NEW n, NEW l, LinkOK(l, n), NEW m \in 0..Len(l.channel)
  PROVE  LET drained == Drain[l.buffer \o SubSeq(l.channel, 1, m)]
         IN  LinkOK([l EXCEPT !.channel = SubSeq(@, m + 1, Len(@)), !.taken = @ + m,
                              !.buffer = drained.rest,
                              !.frames = @ \o drained.frames], n)
<1>1. l \in Link
  BY DEF LinkOK
<1>2. PICK c \in Seq(Byte), b \in Seq(Byte), f \in Seq(Nat), t \in Nat :
        c = l.channel /\ b = l.buffer /\ f = l.frames /\ t = l.taken
  BY <1>1, LinkFields
<1>3. m \in 0..Len(c)
  BY <1>2
<1>4. PICK e \in Seq(Byte) : e = SubSeq(c, m + 1, Len(c))
  <2>1. SubSeq(c, m + 1, Len(c)) \in Seq(Byte)
    BY <1>3
  <2> QED BY <2>1
<1>5. PICK x \in Seq(Byte) : x = b \o SubSeq(c, 1, m)
  <2>1. SubSeq(c, 1, m) \in Seq(Byte)
    BY <1>3
  <2>2. b \o SubSeq(c, 1, m) \in Seq(Byte)
    BY <2>1
  <2> QED BY <2>2
<1>6. PICK s : s = Drain[x]
  OBVIOUS
<1>7. s \in Result
  BY <1>6, DrainEquation
<1>8. s.rest \in Seq(Byte) /\ s.frames \in Seq(Nat)
  BY <1>7 DEF Result
<1>9. PICK g \in Seq(Nat) : g = f \o s.frames
  <2>1. f \o s.frames \in Seq(Nat)
    BY <1>8
  <2> QED BY <2>1
<1>10. t + m \in Nat
  BY <1>3
<1>11. PICK z : z = [l EXCEPT !.channel = e, !.taken = t + m, !.buffer = s.rest, !.frames = g]
  OBVIOUS
<1>12. /\ z \in Link /\ z.state = l.state /\ z.written = l.written /\ z.channel = e
       /\ z.taken = t + m /\ z.buffer = s.rest /\ z.frames = g
  BY <1>1, <1>8, <1>10, <1>11 DEF Link
<1>13. s = Drain[l.buffer \o SubSeq(l.channel, 1, m)]
  BY <1>2, <1>5, <1>6
<1>14. /\ z.taken = l.taken + m /\ z.channel = SubSeq(l.channel, m + 1, Len(l.channel))
       /\ z.frames = l.frames \o s.frames
  BY <1>2, <1>4, <1>9, <1>12
<1>15. LinkOK(z, n)
  BY <1>12, <1>13, <1>14, Reads
<1>16. z = [l EXCEPT !.channel = SubSeq(@, m + 1, Len(@)), !.taken = @ + m,
                     !.buffer = s.rest, !.frames = @ \o s.frames]
  BY <1>2, <1>4, <1>9, <1>11
<1> QED BY <1>13, <1>15, <1>16

LEMMA InvFacts ==
  ASSUME IInv
  PROVE  /\ m_sequence \in Nat /\ MaxSequence \in Nat
         /\ \A c \in Clients : link[c] \in Link
BY LinkAssumption DEF IInv, TypeOK

(* A step that leaves the sequence number alone and every connection sound. *)
LEMMA LinksStay ==
  ASSUME IInv, m_sequence' \in Nat,
         link' = [c \in Clients |-> link'[c]],
         \A c \in Clients : LinkOK(link'[c], m_sequence')
  PROVE  /\ link' \in [Clients -> Link]
         /\ \A c \in Clients : LinkOK(link'[c], m_sequence')
<1>1. \A c \in Clients : link'[c] \in Link
  BY DEF LinkOK
<1> QED BY <1>1

LEMMA OneChanges ==
  ASSUME IInv, m_sequence' = m_sequence, NEW c \in Clients, NEW z,
         LinkOK(z, m_sequence), link' = [link EXCEPT ![c] = z]
  PROVE  /\ link' \in [Clients -> Link]
         /\ \A e \in Clients : LinkOK(link'[e], m_sequence')
<1>1. link \in [Clients -> Link]
  BY DEF IInv, TypeOK
<1>2. \A e \in Clients : link'[e] = IF e = c THEN z ELSE link[e]
  BY <1>1
<1>3. ASSUME NEW e \in Clients PROVE LinkOK(link'[e], m_sequence')
  <2>1. LinkOK(link[e], m_sequence)
    BY DEF IInv
  <2> QED BY <1>2, <2>1
<1>4. z \in Link
  BY DEF LinkOK
<1> QED BY <1>1, <1>3, <1>4

LEMMA Initially == Init => IInv
<1> SUFFICES ASSUME Init PROVE IInv
  OBVIOUS
<1>1. LinkOK(NoLink, 0)
  BY NoLinkOK
<1>2. NoLink \in Link
  BY <1>1 DEF LinkOK
<1>3. \A c \in Clients : link[c] = NoLink
  BY DEF Init
<1>4. TypeOK
  <2>1. "Normal" \in Scenarios /\ 0 \in 0..MaxSequence
    BY LinkAssumption
  <2> QED BY <1>2, <2>1 DEF Init, TypeOK
<1>5. \A c \in Clients : LinkOK(link[c], m_sequence)
  BY <1>1, <1>3 DEF Init
<1> QED BY <1>4, <1>5 DEF IInv

LEMMA StopKeeps == ASSUME IInv, Stop PROVE IInv'
<1>1. PICK length \in [Clients -> 0..MaxBytes] :
        /\ \A c \in Clients : length[c] <= Len(link[c].channel)
        /\ link' = [c \in Clients |-> Dropped(c, length[c])]
  BY DEF Stop
<1>2. /\ listening' = FALSE /\ m_clients' = {}
      /\ wireFormat' = wireFormat /\ running' = running /\ scenario' = scenario
      /\ m_sequence' = m_sequence /\ m_sequence \in Nat
  BY InvFacts DEF Stop
<1>3. ASSUME NEW c \in Clients PROVE LinkOK(link'[c], m_sequence)
  <2>1. LinkOK(link[c], m_sequence)
    BY DEF IInv
  <2>2. link'[c] = Dropped(c, length[c])
    BY <1>1
  <2>3. length[c] \in 0..Len(link[c].channel)
    <3>1. length[c] \in 0..MaxBytes /\ length[c] <= Len(link[c].channel)
      BY <1>1
    <3>2. MaxBytes \in Nat
      BY LinkAssumption, Sizes DEF MaxBytes
    <3>3. Len(link[c].channel) \in Nat
      <4>1. PICK l \in Link : l = link[c]
        BY InvFacts
      <4>2. l.channel \in Seq(Byte)
        BY LinkFields
      <4> QED BY <4>1, <4>2
    <3> QED BY <3>1, <3>2, <3>3
  <2>4. CASE c \in m_clients /\ link[c].state \in {"open", "closing"}
    <3>1. LinkOK([link[c] EXCEPT !.state = "closed", !.channel = SubSeq(@, 1, length[c])],
                 m_sequence)
      BY <2>1, <2>3, Cuts
    <3> QED BY <2>2, <2>4, <3>1 DEF Dropped
  <2>5. CASE ~(c \in m_clients /\ link[c].state \in {"open", "closing"})
             /\ link[c].state = "pending"
    <3>1. LinkOK(NoLink, m_sequence)
      BY <1>2, NoLinkOK
    <3> QED BY <2>2, <2>5, <3>1 DEF Dropped
  <2>6. CASE ~(c \in m_clients /\ link[c].state \in {"open", "closing"})
             /\ link[c].state # "pending"
    BY <2>1, <2>2, <2>6 DEF Dropped
  <2> QED BY <2>4, <2>5, <2>6
<1>4. link' = [c \in Clients |-> link'[c]]
  BY <1>1
<1>5. /\ link' \in [Clients -> Link]
      /\ \A c \in Clients : LinkOK(link'[c], m_sequence')
  BY <1>2, <1>3, <1>4, LinksStay
<1>6. TypeOK'
  BY <1>2, <1>5 DEF IInv, TypeOK
<1> QED BY <1>5, <1>6 DEF IInv

LEMMA AcceptKeeps == ASSUME IInv, HandleNewConnection PROVE IInv'
<1> DEFINE pending == {c \in Clients : link[c].state = "pending"}
<1>1. /\ m_clients' = m_clients \cup pending
      /\ link' = [c \in Clients |-> IF c \in pending
                                    THEN [link[c] EXCEPT !.state = "open"] ELSE link[c]]
      /\ listening' = listening /\ wireFormat' = wireFormat /\ running' = running
      /\ scenario' = scenario /\ m_sequence' = m_sequence /\ m_sequence \in Nat
  BY InvFacts DEF HandleNewConnection
<1>2. ASSUME NEW c \in Clients PROVE LinkOK(link'[c], m_sequence)
  <2>1. LinkOK(link[c], m_sequence)
    BY DEF IInv
  <2>2. CASE link[c].state = "pending"
    <3>1. LinkOK([link[c] EXCEPT !.state = "open"], m_sequence)
      BY <2>1, <2>2, StateChanged
    <3> QED BY <1>1, <2>2, <3>1
  <2>3. CASE link[c].state # "pending"
    BY <1>1, <2>1, <2>3
  <2> QED BY <2>2, <2>3
<1>3. link' = [c \in Clients |-> link'[c]]
  BY <1>1
<1>4. /\ link' \in [Clients -> Link]
      /\ \A c \in Clients : LinkOK(link'[c], m_sequence')
  BY <1>1, <1>2, <1>3, LinksStay
<1>5. TypeOK'
  BY <1>1, <1>4 DEF IInv, TypeOK
<1> QED BY <1>4, <1>5 DEF IInv

LEMMA TelemetryKeeps == ASSUME IInv, SendTelemetry PROVE IInv'
<1>1. /\ listening' = listening /\ wireFormat' = wireFormat /\ running' = running
      /\ scenario' = scenario /\ m_clients' = m_clients
      /\ m_sequence + DeviceCount <= MaxSequence
      /\ m_sequence' = IF wireFormat = "ProtocolV1" THEN m_sequence + Len(Units)
                       ELSE m_sequence
  BY DEF SendTelemetry
<1>2. link' = [c \in Clients |->
                 IF Writable(c)
                 THEN [Write(link[c], Units) EXCEPT !.state = IF Disconnects THEN "closing" ELSE @]
                 ELSE link[c]]
  BY DEF SendTelemetry
<1>3. m_sequence \in Nat /\ wireFormat \in {"ProtocolV1", "JsonLines"}
  BY InvFacts DEF IInv, TypeOK
<1>4. PICK m \in Nat : m = IF wireFormat = "ProtocolV1" THEN m_sequence + Len(Units)
                           ELSE m_sequence
  <2>1. Len(Units) \in Nat
    <3>1. Len(Units) \in 0..DeviceCount
      BY <1>1, <1>3, UnitsFollow
    <3> QED BY <3>1, LinkAssumption
  <2> QED BY <1>3, <2>1
<1>5. Len(Units) \in 0..DeviceCount /\ Follows(Units, m_sequence, m)
  BY <1>1, <1>3, <1>4, UnitsFollow
<1>6. m = m_sequence' /\ m \in 0..MaxSequence /\ m_sequence <= m
  BY <1>1, <1>3, <1>4, <1>5, LinkAssumption
<1>7. ASSUME NEW c \in Clients PROVE LinkOK(link'[c], m)
  <2>1. LinkOK(link[c], m_sequence)
    BY DEF IInv
  <2>2. CASE Writable(c)
    <3>1. link[c].state = "open"
      BY <2>2 DEF Writable
    <3>2. LinkOK(Write(link[c], Units), m)
      BY <1>3, <1>5, <1>6, <2>1, <3>1, WritesUnits
    <3>3. PICK l : l = Write(link[c], Units)
      OBVIOUS
    <3>4. CASE Disconnects
      <4>1. LinkOK([l EXCEPT !.state = "closing"], m)
        BY <3>2, <3>3, StateChanged
      <4> QED BY <1>2, <2>2, <3>3, <3>4, <4>1
    <3>5. CASE ~Disconnects
      <4>1. l.state \in {"none", "pending", "open", "closing", "closed"}
        BY <3>2, <3>3, LinkFields DEF LinkOK
      <4>2. LinkOK([l EXCEPT !.state = l.state], m)
        BY <3>2, <3>3, <4>1, StateChanged
      <4>3. link'[c] = [l EXCEPT !.state = l.state]
        BY <1>2, <2>2, <3>3, <3>5
      <4> QED BY <4>2, <4>3
    <3> QED BY <3>4, <3>5
  <2>3. CASE ~Writable(c)
    <3>1. link'[c] = link[c]
      BY <1>2, <2>3
    <3>2. LinkOK(link[c], m)
      BY <1>3, <1>6, <2>1, LinkLater
    <3> QED BY <3>1, <3>2
  <2> QED BY <2>2, <2>3
<1>8. link' = [c \in Clients |-> link'[c]]
  BY <1>2
<1>9. /\ link' \in [Clients -> Link]
      /\ \A c \in Clients : LinkOK(link'[c], m_sequence')
  BY <1>6, <1>7, <1>8, LinksStay
<1>10. TypeOK'
  BY <1>1, <1>6, <1>9 DEF IInv, TypeOK
<1> QED BY <1>9, <1>10 DEF IInv

(* A step that changes one connection and at most the list of the clients.  *)
LEMMA OneKeeps ==
  ASSUME IInv, NEW c \in Clients, NEW z, LinkOK(z, m_sequence),
         link' = [link EXCEPT ![c] = z], m_clients' \subseteq m_clients,
         UNCHANGED <<listening, wireFormat, running, scenario, m_sequence>>
  PROVE  IInv'
<1>1. m_sequence' = m_sequence
  OBVIOUS
<1>2. /\ link' \in [Clients -> Link]
      /\ \A e \in Clients : LinkOK(link'[e], m_sequence')
  BY <1>1, OneChanges
<1>3. TypeOK'
  BY <1>2 DEF IInv, TypeOK
<1> QED BY <1>2, <1>3 DEF IInv

LEMMA DisconnectedKeeps ==
  ASSUME IInv, NEW c \in Clients, HandleClientDisconnected(c) PROVE IInv'
<1>1. /\ m_clients' \subseteq m_clients
      /\ UNCHANGED <<listening, wireFormat, running, scenario, m_sequence>>
      /\ link' = IF link[c].state = "closing" THEN [link EXCEPT ![c].state = "closed"] ELSE link
  BY DEF HandleClientDisconnected
<1>2. LinkOK(link[c], m_sequence) /\ link \in [Clients -> Link]
  BY DEF IInv, TypeOK
<1>3. CASE link[c].state = "closing"
  <2>1. LinkOK([link[c] EXCEPT !.state = "closed"], m_sequence)
    BY <1>2, StateChanged
  <2>2. link' = [link EXCEPT ![c] = [link[c] EXCEPT !.state = "closed"]]
    BY <1>1, <1>3
  <2> QED BY <1>1, <2>1, <2>2, OneKeeps
<1>4. CASE link[c].state # "closing"
  <2>1. link' = [link EXCEPT ![c] = link[c]]
    BY <1>1, <1>2, <1>4
  <2> QED BY <1>1, <1>2, <2>1, OneKeeps
<1> QED BY <1>3, <1>4

LEMMA ConnectKeeps == ASSUME IInv, NEW c \in Clients, Connect(c) PROVE IInv'
<1>1. LinkOK([NoLink EXCEPT !.state = "pending"], m_sequence)
  BY InvFacts, StateEmpty
<1>2. /\ link' = [link EXCEPT ![c] = [NoLink EXCEPT !.state = "pending"]]
      /\ m_clients' \subseteq m_clients
      /\ UNCHANGED <<listening, wireFormat, running, scenario, m_sequence>>
  BY DEF Connect
<1> QED BY <1>1, <1>2, OneKeeps

LEMMA EndKeeps == ASSUME IInv, NEW c \in Clients, Finish(c) \/ Disconnect(c) PROVE IInv'
<1>1. LinkOK(NoLink, m_sequence)
  BY InvFacts, NoLinkOK
<1>2. /\ link' = [link EXCEPT ![c] = NoLink]
      /\ m_clients' \subseteq m_clients
      /\ UNCHANGED <<listening, wireFormat, running, scenario, m_sequence>>
  BY DEF Finish, Disconnect
<1> QED BY <1>1, <1>2, OneKeeps

LEMMA ReadKeeps ==
  ASSUME IInv, NEW c \in Clients, NEW n \in 1..MaxBytes, ReadyRead(c, n) PROVE IInv'
<1>1. LinkOK(link[c], m_sequence)
  BY DEF IInv
<1>2. PICK l \in Link : l = link[c]
  BY InvFacts
<1>3. n \in 0..Len(l.channel)
  <2>1. n <= Len(l.channel)
    BY <1>2 DEF ReadyRead
  <2>2. l.channel \in Seq(Byte)
    BY LinkFields
  <2>3. Len(l.channel) \in Nat /\ MaxBytes \in Nat
    BY <2>2, LinkAssumption, Sizes DEF MaxBytes
  <2> QED BY <2>1, <2>3
<1>4. PICK s : s = Drain[l.buffer \o SubSeq(l.channel, 1, n)]
  OBVIOUS
<1>5. PICK z : z = [l EXCEPT !.channel = SubSeq(@, n + 1, Len(@)), !.taken = @ + n,
                             !.buffer = s.rest, !.frames = @ \o s.frames]
  OBVIOUS
<1>6. LinkOK(z, m_sequence)
  BY <1>1, <1>2, <1>3, <1>4, <1>5, ReadsBytes
<1>7. /\ link' = [link EXCEPT ![c] = z]
      /\ m_clients' \subseteq m_clients
      /\ UNCHANGED <<listening, wireFormat, running, scenario, m_sequence>>
  BY <1>2, <1>4, <1>5 DEF ReadyRead
<1> QED BY <1>6, <1>7, OneKeeps

LEMMA DamagedKeeps ==
  ASSUME IInv, NEW c \in Clients, NEW values \in Damages, WriteDamaged(c, values) PROVE IInv'
<1>1. values \in Seq(Nat)
  BY LinkAssumption
<1>2. m_sequence \in Nat /\ LinkOK(link[c], m_sequence) /\ link[c].state = "open"
  BY InvFacts DEF IInv, WriteDamaged, Writable
<1>3. PICK un : un = Damaged(Raw(values))
  OBVIOUS
<1>4. UnitOK(un) /\ ~un.frame /\ un \in Unit
  BY <1>1, <1>3, RawOK DEF UnitOK
<1>5. PICK v : v = <<un>>
  OBVIOUS
<1>6. v \in Seq(Unit) /\ \A k \in 1..Len(v) : v[k] = un
  BY <1>4, <1>5
<1>7. Follows(v, m_sequence, m_sequence)
  BY <1>4, <1>6 DEF Follows
<1>8. LinkOK(Write(link[c], v), m_sequence)
  BY <1>2, <1>7, WritesUnits
<1>9. /\ link' = [link EXCEPT ![c] = Write(link[c], v)]
      /\ m_clients' \subseteq m_clients
      /\ UNCHANGED <<listening, wireFormat, running, scenario, m_sequence>>
  BY <1>3, <1>5 DEF WriteDamaged
<1> QED BY <1>8, <1>9, OneKeeps

(* The window's choices touch no connection.                                *)
LEMMA WindowKeeps ==
  ASSUME IInv, link' = link, m_sequence' = m_sequence, m_clients' = m_clients,
         listening' \in BOOLEAN, wireFormat' \in {"ProtocolV1", "JsonLines"},
         running' \in [Devices -> BOOLEAN], scenario' \in [Devices -> Scenarios]
  PROVE  IInv'
<1>1. TypeOK'
  BY DEF IInv, TypeOK
<1>2. \A c \in Clients : LinkOK(link'[c], m_sequence')
  BY DEF IInv
<1> QED BY <1>1, <1>2 DEF IInv

LEMMA Preserved == IInv /\ [Next]_vars => IInv'
<1> SUFFICES ASSUME IInv, [Next]_vars PROVE IInv'
  OBVIOUS
<1>0. /\ listening \in BOOLEAN /\ wireFormat \in {"ProtocolV1", "JsonLines"}
      /\ running \in [Devices -> BOOLEAN] /\ scenario \in [Devices -> Scenarios]
      /\ "Normal" \in Scenarios
  BY LinkAssumption DEF IInv, TypeOK
<1>1. CASE Start
  BY <1>0, <1>1, WindowKeeps DEF Start
<1>2. CASE Stop
  BY <1>2, StopKeeps
<1>3. CASE HandleNewConnection
  BY <1>3, AcceptKeeps
<1>4. CASE SendTelemetry
  BY <1>4, TelemetryKeeps
<1>5. CASE \E c \in Clients : HandleClientDisconnected(c)
  BY <1>5, DisconnectedKeeps
<1>6. CASE \E d \in Devices : \E s \in Scenarios : SetScenario(d, s)
  <2>1. PICK d \in Devices, s \in Scenarios : SetScenario(d, s)
    BY <1>6
  <2>2. scenario' \in [Devices -> Scenarios]
    BY <1>0, <2>1 DEF SetScenario
  <2> QED BY <1>0, <2>1, <2>2, WindowKeeps DEF SetScenario
<1>7. CASE \E d \in Devices : \E run \in BOOLEAN : SetDeviceRunning(d, run)
  <2>1. PICK d \in Devices, run \in BOOLEAN : SetDeviceRunning(d, run)
    BY <1>7
  <2>2. running' \in [Devices -> BOOLEAN] /\ scenario' \in [Devices -> Scenarios]
    BY <1>0, <2>1 DEF SetDeviceRunning
  <2> QED BY <1>0, <2>1, <2>2, WindowKeeps DEF SetDeviceRunning
<1>8. CASE \E format \in {"ProtocolV1", "JsonLines"} : SetWireFormat(format)
  <2>1. PICK format \in {"ProtocolV1", "JsonLines"} : SetWireFormat(format)
    BY <1>8
  <2> QED BY <1>0, <2>1, WindowKeeps DEF SetWireFormat
<1>9. CASE \E c \in Clients : Connect(c)
  BY <1>9, ConnectKeeps
<1>10. CASE \E c \in Clients : Finish(c) \/ Disconnect(c)
  BY <1>10, EndKeeps
<1>11. CASE \E c \in Clients : \E n \in 1..MaxBytes : ReadyRead(c, n)
  BY <1>11, ReadKeeps
<1>12. CASE \E c \in Clients : \E values \in Damages : WriteDamaged(c, values)
  BY <1>12, DamagedKeeps
<1>13. CASE UNCHANGED vars
  BY <1>0, <1>13, WindowKeeps DEF vars
<1> QED BY <1>1, <1>2, <1>3, <1>4, <1>5, <1>6, <1>7, <1>8, <1>9, <1>10, <1>11, <1>12, <1>13
        DEF Next, Server

(* What an invariant connection promises.                                   *)
LEMMA IdleBuffer == ASSUME IInv, NEW c \in Clients PROVE Idle(link[c].buffer)
<1>1. LinkOK(link[c], m_sequence)
  BY DEF IInv
<1>2. \E p : Decoded(BytesOf[link[c].written], FramesOf(link[c].written), ResultOf(link[c]),
                     link[c].taken, p)
  BY <1>1 DEF LinkOK
<1>3. Idle(ResultOf(link[c]).rest)
  BY <1>2 DEF Decoded
<1> QED BY <1>3 DEF ResultOf

LEMMA NothingWaitsHolds == IInv => NothingWaits
BY IdleBuffer DEF NothingWaits, Idle

LEMMA FramesInOrderHolds == IInv => FramesInOrder
<1> SUFFICES ASSUME IInv, NEW c \in Clients
             PROVE  LET l == link[c] IN
        /\ \A i, j \in DOMAIN l.frames : i < j => l.frames[i] < l.frames[j]
        /\ \A i \in DOMAIN l.frames : \E k \in DOMAIN l.written :
              l.written[k].frame /\ l.written[k].bytes[1].of = l.frames[i]
  BY DEF FramesInOrder
<1>1. PICK l : l = link[c]
  OBVIOUS
<1>2. LinkOK(l, m_sequence)
  BY <1>1 DEF IInv
<1>3. l.written \in Seq(Unit)
  BY <1>2 DEF LinkOK, StreamOK
<1>4. PICK r : r = ResultOf(l)
  OBVIOUS
<1>5. r.frames = l.frames
  BY <1>4 DEF ResultOf
<1>6. PICK p : Decoded(BytesOf[l.written], FramesOf(l.written), r, l.taken, p)
  BY <1>2, <1>4 DEF LinkOK
<1>7. \A i, j \in DOMAIN l.frames : i < j => l.frames[i] < l.frames[j]
  BY <1>5, <1>6 DEF Decoded
<1>8. ASSUME NEW i \in DOMAIN l.frames
      PROVE  \E k \in DOMAIN l.written :
               l.written[k].frame /\ l.written[k].bytes[1].of = l.frames[i]
  <2>1. PICK w \in FramesOf(l.written) : l.frames[i] = w.of
    BY <1>5, <1>6 DEF Decoded
  <2>2. PICK k \in 1..Len(l.written) :
          /\ l.written[k].frame
          /\ w = [start |-> StartOf(l.written, k), size |-> Len(l.written[k].bytes),
                  of |-> NumberOf(l.written[k])]
    BY <1>3, InFramesOf
  <2>3. w.of = NumberOf(l.written[k])
    BY <2>2
  <2>4. k \in DOMAIN l.written
    BY <1>3
  <2> QED BY <2>1, <2>2, <2>3, <2>4 DEF NumberOf
<1> QED BY <1>1, <1>7, <1>8

LEMMA NoFrameLostHolds == IInv => NoFrameLost
<1> SUFFICES ASSUME IInv, NEW c \in Clients, NEW k \in DOMAIN link[c].written,
                    link[c].written[k].frame,
                    EndOf(link[c].written, k) <= link[c].taken
             PROVE  \/ \E i \in DOMAIN link[c].frames :
                         link[c].frames[i] = link[c].written[k].bytes[1].of
                    \/ \E x \in 0..(link[c].taken - kHeaderSize) :
                         Announces(link[c].written, x, StartOf(link[c].written, k))
  BY DEF NoFrameLost
<1>1. PICK l \in Link : l = link[c]
  BY InvFacts
<1>2. LinkOK(l, m_sequence)
  BY <1>1 DEF IInv
<1>3. PICK u \in Seq(Unit) : u = l.written
  BY LinkFields
<1>4. StreamOK(u)
  BY <1>2, <1>3 DEF LinkOK
<1>5. PICK A, W : A = BytesOf[u] /\ W = FramesOf(u)
  OBVIOUS
<1>6. Layout(A, W)
  BY <1>4, <1>5, StreamLayout
<1>7. PICK r : r = ResultOf(l)
  OBVIOUS
<1>8. r.frames = l.frames /\ r.rest = l.buffer
  BY <1>7 DEF ResultOf
<1>9. PICK p : Decoded(A, W, r, l.taken, p)
  BY <1>2, <1>3, <1>5, <1>7 DEF LinkOK
<1>10. k \in 1..Len(u) /\ u[k].frame /\ EndOf(u, k) <= l.taken
  BY <1>1, <1>3
<1>11. PICK w : w = [start |-> StartOf(u, k), size |-> Len(u[k].bytes), of |-> NumberOf(u[k])]
  OBVIOUS
<1>12. w \in W /\ w.start = StartOf(u, k) /\ w.size = Len(u[k].bytes) /\ w.of = NumberOf(u[k])
  BY <1>5, <1>10, <1>11, InFramesOf
<1>13. EndOf(u, k) = StartOf(u, k) + Len(u[k].bytes)
  BY <1>10, UnitInStream
<1>14. w.start + w.size <= l.taken
  BY <1>10, <1>12, <1>13
<1>15. /\ r \in Result /\ l.taken \in Nat /\ p \in Nat /\ p + Len(r.rest) = l.taken
       /\ Slice(r.rest, A, p) /\ Idle(r.rest)
  BY <1>9 DEF Decoded
<1>16. w.start \in Nat /\ w.size \in 4..kMaxFrameSize /\ Len(r.rest) \in Nat
  <2>1. w \in W
    BY <1>12
  <2>2. w.start \in Nat /\ w.size \in 4..kMaxFrameSize
    BY <1>6, <2>1, WholeFacts
  <2>3. Len(r.rest) \in Nat
    BY <1>15 DEF Slice
  <2> QED BY <2>2, <2>3
<1>17. w.start < p
  <2> SUFFICES ASSUME p <= w.start PROVE FALSE
    BY <1>15, <1>16
  <2>1. w.start + w.size <= p + Len(r.rest)
    BY <1>14, <1>15
  <2>2. w.start - p \in Nat /\ CompleteFrameAt(r.rest, w.start - p)
    BY <1>6, <1>12, <1>15, <2>1, WholeComplete
  <2>3. w.start - p \in 0..Len(r.rest)
    BY <1>15, <1>16, <2>1, <2>2, Sizes
  <2> QED BY <1>15, <2>2, <2>3 DEF Idle
<1>18. \/ \E i \in DOMAIN r.frames : r.frames[i] = w.of
       \/ PassedOver(A, W, w.start, l.taken)
  BY <1>9, <1>12, <1>17 DEF Decoded
<1>19. CASE \E i \in DOMAIN r.frames : r.frames[i] = w.of
  BY <1>1, <1>3, <1>8, <1>12, <1>19 DEF NumberOf
<1>20. CASE PassedOver(A, W, w.start, l.taken)
  <2>1. PICK x \in Nat : x + 3 <= l.taken /\ Announced(A, W, x, w.start)
    BY <1>20 DEF PassedOver
  <2>2. /\ HasMagic(A, x) /\ A[x + 3].value \in 4..kMaxFrameSize
        /\ \A v \in W : v.start # x
        /\ x < w.start /\ w.start < x + A[x + 3].value
    BY <2>1 DEF Announced
  <2>3. kHeaderSize = 3 /\ kMinFrameSize = 4
    BY DEF kHeaderSize, kMinFrameSize, kCrcSize
  <2>4. x \in 0..(l.taken - kHeaderSize)
    BY <1>15, <2>1, <2>3
  <2>5. ASSUME NEW j \in DOMAIN u, u[j].frame PROVE StartOf(u, j) # x
    <3>1. PICK v : v = [start |-> StartOf(u, j), size |-> Len(u[j].bytes), of |-> NumberOf(u[j])]
      OBVIOUS
    <3>2. v \in W
      BY <1>5, <2>5, <3>1, InFramesOf
    <3> QED BY <2>2, <3>1, <3>2
  <2>6. Announces(u, x, StartOf(u, k))
    BY <1>5, <1>12, <2>2, <2>3, <2>5 DEF Announces
  <2> QED BY <1>1, <1>3, <2>4, <2>6
<1> QED BY <1>18, <1>19, <1>20

(* The invariant of the system holds throughout. *)
THEOREM Invariance == Spec => []IInv
BY Initially, Preserved, PTL DEF Spec

(* The simulator's state and what is on the wire keep their types: no tick *)
(* brings the sequence number over its bound, no scenario is left unknown. *)
THEOREM TypeCorrect == Spec => []TypeOK
<1>1. IInv => TypeOK
  BY DEF IInv
<1> QED BY <1>1, Invariance, PTL

(* However the stream was cut and whatever was damaged between its frames, *)
(* a monitor gets frames that were written whole to this connection, each  *)
(* once and in their order.                                                *)
THEOREM FramesAlwaysInOrder == Spec => []FramesInOrder
BY FramesInOrderHolds, Invariance, PTL

(* A whole frame that has arrived was decoded, unless it began inside the  *)
(* size that a header with no whole frame behind it had announced.         *)
THEOREM NoFrameEverLost == Spec => []NoFrameLost
BY NoFrameLostHolds, Invariance, PTL

(* Between two arrivals the decoder keeps less than a frame and no whole   *)
(* one: what is complete was answered without more data coming.            *)
THEOREM NothingAlwaysWaits == Spec => []NothingWaits
BY NothingWaitsHolds, Invariance, PTL
=============================================================================
