---------------------------- MODULE PlaylistProofs ----------------------------
(***************************************************************************)
(* Which frame is read next, for any recording, any rate, any distance of  *)
(* keyframes and any number of commands.                                   *)
(*                                                                         *)
(* First come the facts about the model's operators. First and the loop of *)
(* FindFileIndexFromFrame are recursive over the list of files: what they  *)
(* compute is shown by induction, with the set of the numbers a statement  *)
(* holds for in the place of the statement (SetInduction).                 *)
(*                                                                         *)
(* Then the inductive invariant. MovedInv and LookedUpInv, of which        *)
(* RightFile is made, are inductive as they stand: a step that makes the   *)
(* premise of the first true is the one that reads the index, and the      *)
(* index and the frame it is for are stored in one step. The others need to say what the demuxer stands before at each of its places:*)
(* FollowInv for forward play, BackInv for reverse play, StoredInv for the *)
(* stores of SetMoveSec, and TakenInv for a play_seek on its way.          *)
(***************************************************************************)
EXTENDS Playlist, FiniteSetTheorems, WellFoundedInduction, TLAPS

(* A set of numbers that holds 0, and with each number the next, holds all. *)
LEMMA SetInduction ==
  ASSUME NEW S \in SUBSET Nat, 0 \in S, \A n \in S : n + 1 \in S
  PROVE  S = Nat
<1>. SUFFICES ASSUME Nat \ S # {} PROVE FALSE
  OBVIOUS
<1>. DEFINE T == Nat \ S
<1>1. \E x \in T : \A y \in T : ~ (<<y, x>> \in OpToRel(<, Nat))
  <2>1. T \subseteq Nat /\ T # {}
    OBVIOUS
  <2>. HIDE DEF T
  <2>. QED BY <2>1, WFMin, NatLessThanWellFounded
<1>2. PICK x \in T : \A y \in T : ~ (<<y, x>> \in OpToRel(<, Nat))
  BY <1>1
<1>3. \A y \in T : ~ (y < x)
  BY <1>2, Zenon DEF OpToRel
<1>4. x # 0 /\ x - 1 \in Nat /\ x - 1 < x /\ x = (x - 1) + 1
  BY SMT
<1>5. x - 1 \in S
  BY <1>3, <1>4
<1>. QED BY <1>4, <1>5

(* The first frames of the files add up.                                    *)
LEMMA FirstDef ==
  /\ First \in [0 .. NFiles -> Nat]
  /\ First[0] = 0
  /\ \A f \in Files : First[f + 1] = First[f] + Length[f]
<1>. USE PlaylistAssumption
<1>. DEFINE Sums(g, n) == \A k \in 0 .. n : g[k] = IF k = 0 THEN 0 ELSE g[k - 1] + Length[k - 1]
            S == {n \in Nat : n <= NFiles => \E g \in [0 .. n -> Nat] : Sums(g, n)}
<1>1. S = Nat
  <2>1. 0 \in S
    <3>1. [k \in 0 .. 0 |-> 0] \in [0 .. 0 -> Nat] /\ Sums([k \in 0 .. 0 |-> 0], 0)
      OBVIOUS
    <3>. QED BY <3>1
  <2>2. ASSUME NEW n \in S PROVE n + 1 \in S
    <3>0. n \in Nat /\ n + 1 \in Nat
      OBVIOUS
    <3>. SUFFICES ASSUME n + 1 <= NFiles PROVE \E g \in [0 .. n + 1 -> Nat] : Sums(g, n + 1)
      BY <3>0
    <3>. n <= NFiles
      BY <3>0
    <3>1. PICK g \in [0 .. n -> Nat] : Sums(g, n)
      OBVIOUS
    <3>. DEFINE h == [k \in 0 .. n + 1 |-> IF k = n + 1 THEN g[n] + Length[n] ELSE g[k]]
    <3>2. n \in Files /\ Length[n] \in Nat /\ g[n] \in Nat
      BY DEF Files
    <3>3. h \in [0 .. n + 1 -> Nat]
      BY <3>2
    <3>4. Sums(h, n + 1)
      <4>. SUFFICES ASSUME NEW k \in 0 .. n + 1
                    PROVE  h[k] = IF k = 0 THEN 0 ELSE h[k - 1] + Length[k - 1]
        OBVIOUS
      <4>1. CASE k = n + 1
        BY <3>0, <4>1
      <4>2. CASE k # n + 1
        <5>1. k \in 0 .. n /\ k - 1 # n + 1 /\ (k # 0 => k - 1 \in 0 .. n)
          BY <3>0, <4>2
        <5>2. h[k] = g[k] /\ (k # 0 => h[k - 1] = g[k - 1])
          BY <3>0, <5>1
        <5>. QED BY <3>1, <5>1, <5>2
      <4>. QED BY <4>1, <4>2
    <3>. QED BY <3>3, <3>4
  <2>. HIDE DEF S
  <2>3. S \in SUBSET Nat
    BY DEF S
  <2>. QED BY <2>1, <2>2, <2>3, SetInduction
<1>2. PICK g \in [0 .. NFiles -> Nat] : Sums(g, NFiles)
  <2>1. NFiles \in S
    BY <1>1
  <2>2. NFiles <= NFiles
    OBVIOUS
  <2>. QED BY <2>1, <2>2, Zenon
<1>3. g = [k \in 0 .. NFiles |-> IF k = 0 THEN 0 ELSE g[k - 1] + Length[k - 1]]
  BY <1>2
<1>4. First = [k \in 0 .. NFiles |-> IF k = 0 THEN 0 ELSE First[k - 1] + Length[k - 1]]
  BY <1>3 DEF First
<1>5. First[0] = 0 /\ \A f \in Files : First[f + 1] = First[f] + Length[f]
  BY <1>4 DEF Files
<1>. DEFINE R == {n \in Nat : n <= NFiles => First[n] \in Nat}
<1>6. R = Nat
  <2>1. 0 \in R
    BY <1>5
  <2>2. ASSUME NEW n \in R PROVE n + 1 \in R
    <3>. SUFFICES ASSUME n + 1 <= NFiles PROVE First[n + 1] \in Nat
      OBVIOUS
    <3>1. n \in Files /\ First[n] \in Nat
      BY DEF Files
    <3>2. Length[n] \in Nat
      BY <3>1
    <3>. QED BY <1>5, <3>1, <3>2
  <2>. HIDE DEF R
  <2>3. R \in SUBSET Nat
    BY DEF R
  <2>. QED BY <2>1, <2>2, <2>3, SetInduction
<1>7. \A n \in 0 .. NFiles : First[n] \in Nat
  BY <1>6
<1>. QED BY <1>4, <1>5, <1>7

(* They never fall.                                                         *)
LEMMA FirstRises ==
  ASSUME NEW f \in 0 .. NFiles, NEW g \in 0 .. NFiles, f <= g
  PROVE  First[f] <= First[g]
<1>. USE PlaylistAssumption
<1>. DEFINE R == {n \in Nat : f + n <= NFiles => First[f] <= First[f + n]}
<1>1. R = Nat
  <2>1. 0 \in R
    BY FirstDef
  <2>2. ASSUME NEW n \in R PROVE n + 1 \in R
    <3>. SUFFICES ASSUME f + (n + 1) <= NFiles PROVE First[f] <= First[f + (n + 1)]
      OBVIOUS
    <3>1. f + n \in Files /\ f + (n + 1) = (f + n) + 1 /\ First[f] <= First[f + n]
      BY DEF Files
    <3>2. First[(f + n) + 1] = First[f + n] + Length[f + n] /\ Length[f + n] \in Nat
      BY <3>1, FirstDef
    <3>3. First[f] \in Nat /\ First[f + n] \in Nat
      BY <3>1, FirstDef DEF Files
    <3>. QED BY <3>1, <3>2, <3>3
  <2>. HIDE DEF R
  <2>3. R \in SUBSET Nat
    BY DEF R
  <2>. QED BY <2>1, <2>2, <2>3, SetInduction
<1>2. g - f \in R /\ f + (g - f) = g
  <2>1. g - f \in Nat /\ f + (g - f) = g
    OBVIOUS
  <2>. QED BY <1>1, <2>1
<1>. QED BY <1>2

(* What the loop has left after f turns is the frame's place in file f.     *)
LEMMA RestDef ==
  ASSUME NEW nFrame \in Nat
  PROVE  \A f \in 0 .. NFiles : Rest(nFrame)[f] = nFrame - First[f]
<1>. USE PlaylistAssumption, FirstDef
<1>. DEFINE step(g) == [f \in 0 .. NFiles |-> IF f = 0 THEN nFrame ELSE g[f - 1] - Length[f - 1]]
            h == [f \in 0 .. NFiles |-> nFrame - First[f]]
<1>1. h = step(h)
  <2>. SUFFICES ASSUME NEW f \in 0 .. NFiles PROVE h[f] = step(h)[f]
    OBVIOUS
  <2>1. CASE f = 0
    BY <2>1
  <2>2. CASE f # 0
    <3>1. f - 1 \in Files /\ f - 1 \in 0 .. NFiles /\ (f - 1) + 1 = f
      BY <2>2 DEF Files
    <3>2. First[f] = First[f - 1] + Length[f - 1] /\ Length[f - 1] \in Nat /\ First[f - 1] \in Nat
      BY <3>1
    <3>. QED BY <2>2, <3>1, <3>2
  <2>. QED BY <2>1, <2>2
<1>2. Rest(nFrame) = step(Rest(nFrame))
  BY <1>1 DEF Rest
<1>. DEFINE R == {n \in Nat : n <= NFiles => Rest(nFrame)[n] = nFrame - First[n]}
<1>3. R = Nat
  <2>1. 0 \in R
    BY <1>2
  <2>2. ASSUME NEW n \in R PROVE n + 1 \in R
    <3>. SUFFICES ASSUME n + 1 <= NFiles PROVE Rest(nFrame)[n + 1] = nFrame - First[n + 1]
      OBVIOUS
    <3>1. n \in Files /\ n + 1 \in 0 .. NFiles /\ (n + 1) - 1 = n /\ n + 1 # 0
      BY DEF Files
    <3>2. Rest(nFrame)[n] = nFrame - First[n]
      BY <3>1
    <3>3. Rest(nFrame)[n + 1] = Rest(nFrame)[n] - Length[n]
      BY <1>2, <3>1
    <3>4. First[n + 1] = First[n] + Length[n] /\ Length[n] \in Nat /\ First[n] \in Nat
      BY <3>1 DEF Files
    <3>. QED BY <3>2, <3>3, <3>4
  <2>. HIDE DEF R
  <2>3. R \in SUBSET Nat
    BY DEF R
  <2>. QED BY <2>1, <2>2, <2>3, SetInduction
<1>. QED BY <1>3

(* The loop breaks at a turn: in the file that holds the frame, or behind  *)
(* the last one.                                                            *)
LEMMA FindDef ==
  ASSUME NEW nFrame \in Nat
  PROVE  /\ FindFileIndexFromFrame(nFrame) \in 0 .. NFiles
         /\ First[FindFileIndexFromFrame(nFrame)] <= nFrame
         /\ FindFileIndexFromFrame(nFrame) \in Files =>
              nFrame < First[FindFileIndexFromFrame(nFrame) + 1]
<1>. USE PlaylistAssumption
<1>. DEFINE Breaks(f) == /\ f = NFiles \/ Rest(nFrame)[f] < Length[f]
                         /\ \A g \in 0 .. f - 1 : Rest(nFrame)[g] >= Length[g]
            R == {n \in Nat : n <= NFiles /\ (\A f \in 0 .. NFiles : ~ Breaks(f))
                                => \A g \in 0 .. n - 1 : Rest(nFrame)[g] >= Length[g]}
<1>1. \A f \in Files : /\ Rest(nFrame)[f] = nFrame - First[f]
                       /\ Length[f] = First[f + 1] - First[f]
                       /\ First[f] \in Nat /\ First[f + 1] \in Nat
  <2>1. \A f \in Files : /\ First[f + 1] = First[f] + Length[f] /\ Length[f] \in Nat
                         /\ First[f] \in Nat /\ First[f + 1] \in Nat
    BY FirstDef DEF Files
  <2>2. \A f \in Files : Rest(nFrame)[f] = nFrame - First[f]
    BY RestDef DEF Files
  <2>. QED BY <2>1, <2>2
<1>2. R = Nat
  <2>1. 0 \in R
    OBVIOUS
  <2>2. ASSUME NEW n \in R PROVE n + 1 \in R
    <3>. SUFFICES ASSUME n + 1 <= NFiles, \A f \in 0 .. NFiles : ~ Breaks(f),
                         NEW g \in 0 .. (n + 1) - 1
                  PROVE  Rest(nFrame)[g] >= Length[g]
      OBVIOUS
    <3>1. n \in Files /\ n \in 0 .. NFiles /\ n # NFiles
      BY DEF Files
    <3>2. \A x \in 0 .. n - 1 : Rest(nFrame)[x] >= Length[x]
      BY <3>1
    <3>3. ~ (Rest(nFrame)[n] < Length[n])
      BY <3>1, <3>2
    <3>4. Rest(nFrame)[n] >= Length[n]
      BY <1>1, <3>1, <3>3
    <3>5. g = n \/ g \in 0 .. n - 1
      BY <3>1
    <3>. QED BY <3>2, <3>4, <3>5
  <2>. HIDE DEF R
  <2>3. R \in SUBSET Nat
    BY DEF R
  <2>. QED BY <2>1, <2>2, <2>3, SetInduction
<1>3. \E f \in 0 .. NFiles : Breaks(f)
  <2>. SUFFICES ASSUME \A f \in 0 .. NFiles : ~ Breaks(f) PROVE FALSE
    OBVIOUS
  <2>1. NFiles \in R
    BY <1>2
  <2>2. \A g \in 0 .. NFiles - 1 : Rest(nFrame)[g] >= Length[g]
    BY <2>1
  <2>3. Breaks(NFiles)
    BY <2>2
  <2>. QED BY <2>3
<1>. DEFINE f == FindFileIndexFromFrame(nFrame)
<1>4. f \in 0 .. NFiles /\ Breaks(f)
  BY <1>3 DEF FindFileIndexFromFrame
<1>. HIDE DEF f
<1>5. First[f] <= nFrame
  <2>1. CASE f = 0
    BY <2>1, FirstDef
  <2>2. CASE f # 0
    <3>1. f - 1 \in Files /\ (f - 1) + 1 = f /\ f - 1 \in 0 .. f - 1
      BY <1>4, <2>2 DEF Files
    <3>2. Rest(nFrame)[f - 1] >= Length[f - 1]
      BY <1>4, <3>1
    <3>. QED BY <1>1, <3>1, <3>2
  <2>. QED BY <2>1, <2>2
<1>6. f \in Files => nFrame < First[f + 1]
  <2>. SUFFICES ASSUME f \in Files PROVE nFrame < First[f + 1]
    OBVIOUS
  <2>1. Rest(nFrame)[f] < Length[f]
    BY <1>4 DEF Files
  <2>. QED BY <1>1, <2>1
<1>. QED BY <1>4, <1>5, <1>6 DEF f

(* So its index is the number of files that end at or before the frame, for *)
(* any list of files: FindFileIndexFromFrame finds the frame's file.        *)
THEOREM FindsEveryFile == FindsFile
<1>. USE PlaylistAssumption
<1>. SUFFICES ASSUME NEW n \in 0 .. First[NFiles] + Fps
              PROVE  FindFileIndexFromFrame(n) = Cardinality({k \in Files : First[k + 1] <= n})
  BY DEF FindsFile
<1>. DEFINE f == FindFileIndexFromFrame(n)
<1>0. n \in Nat
  BY FirstDef
<1>1. f \in 0 .. NFiles /\ First[f] <= n /\ (f \in Files => n < First[f + 1])
  BY <1>0, FindDef
<1>. HIDE DEF f
<1>2. {k \in Files : First[k + 1] <= n} = 0 .. f - 1
  <2>1. ASSUME NEW k \in Files, First[k + 1] <= n PROVE k \in 0 .. f - 1
    <3>. SUFFICES ASSUME f <= k PROVE FALSE
      BY <1>1 DEF Files
    <3>1. f \in Files /\ f + 1 \in 0 .. NFiles /\ k + 1 \in 0 .. NFiles /\ f + 1 <= k + 1
      BY <1>1 DEF Files
    <3>2. First[f + 1] <= First[k + 1] /\ First[f + 1] \in Nat /\ First[k + 1] \in Nat
      BY <3>1, FirstRises, FirstDef
    <3>. QED BY <1>0, <1>1, <2>1, <3>1, <3>2
  <2>2. ASSUME NEW k \in 0 .. f - 1 PROVE k \in Files /\ First[k + 1] <= n
    <3>1. k \in Files /\ k + 1 \in 0 .. NFiles /\ k + 1 <= f
      BY <1>1 DEF Files
    <3>2. First[k + 1] <= First[f] /\ First[k + 1] \in Nat /\ First[f] \in Nat
      BY <1>1, <3>1, FirstRises, FirstDef
    <3>. QED BY <1>0, <1>1, <3>1, <3>2
  <2>. QED BY <2>1, <2>2
<1>3. Cardinality(0 .. f - 1) = f
  BY <1>1, FS_Interval
<1>. QED BY <1>2, <1>3 DEF f

(* Keyframes are multiples of a group of pictures, counted in order.       *)
LEMMA GroupsRise ==
  ASSUME NEW a \in Nat, NEW b \in Nat, a <= b
  PROVE  a - (a % Gop) <= b - (b % Gop)
<1>. USE PlaylistAssumption
<1>. DEFINE p == a \div Gop
            q == b \div Gop
<1>1. p \in Int /\ q \in Int
  OBVIOUS
<1>2. a = Gop * p + (a % Gop) /\ b = Gop * q + (b % Gop)
  OBVIOUS
<1>3. a % Gop \in 0 .. Gop - 1 /\ b % Gop \in 0 .. Gop - 1
  OBVIOUS
<1>. HIDE DEF p, q
<1>4. p <= q
  <2>. SUFFICES ASSUME p >= q + 1 PROVE FALSE
    BY <1>1
  <2>1. Gop * p >= Gop * (q + 1) /\ Gop * (q + 1) = Gop * q + Gop
    BY <1>1
  <2>. QED BY <1>1, <1>2, <1>3, <2>1
<1>5. Gop * p <= Gop * q /\ Gop * p \in Int /\ Gop * q \in Int
  BY <1>1, <1>4
<1>. QED BY <1>2, <1>3, <1>5

(* A file with frames has a last one.                                       *)
LEMMA LastDef ==
  ASSUME NEW f \in Files, Length[f] > 0
  PROVE  First[f] \in Nat /\ Last(f) \in Nat /\ Last(f) >= First[f]
<1>1. Length[f] \in Nat /\ f \in 0 .. NFiles
  BY PlaylistAssumption DEF Files
<1>2. First[f] \in Nat
  BY <1>1, FirstDef
<1>3. First[f + 1] = First[f] + Length[f]
  BY FirstDef
<1>. QED BY <1>1, <1>2, <1>3 DEF Last

(* The keyframe lies in the file, less than a group of pictures before what *)
(* was asked for.                                                           *)
LEMMA KeyframeDef ==
  ASSUME NEW f \in Files, Length[f] > 0, NEW t \in Nat, First[f] <= t
  PROVE  /\ Keyframe(f, t) \in First[f] .. Last(f)
         /\ Keyframe(f, t) <= t
         /\ t <= Last(f) => Keyframe(f, t) > t - Gop
         /\ t > Last(f) => Keyframe(f, t) > Last(f) - Gop
<1>. USE PlaylistAssumption
<1>. DEFINE g == IF t > Last(f) THEN Last(f) ELSE t
            d == g - First[f]
<1>1. First[f] \in Nat /\ Last(f) \in Nat /\ Last(f) >= First[f]
  BY LastDef
<1>2. g \in Nat /\ d \in Nat /\ g <= Last(f) /\ g <= t
  BY <1>1
<1>3. Keyframe(f, t) = g - (d % Gop)
  BY DEF Keyframe
<1>. HIDE DEF g
<1>4. d % Gop \in 0 .. Gop - 1 /\ d % Gop <= d
  <2>. HIDE DEF d
  <2>. QED BY <1>2
<1>5. Keyframe(f, t) \in First[f] .. Last(f) /\ Keyframe(f, t) <= t /\ Keyframe(f, t) > g - Gop
  BY <1>1, <1>2, <1>3, <1>4
<1>. QED BY <1>1, <1>5 DEF g

(* The later the frame asked for, the later its keyframe.                   *)
LEMMA KeyframeRises ==
  ASSUME NEW f \in Files, Length[f] > 0, NEW t \in Nat, NEW u \in Nat,
         First[f] <= t, t <= u
  PROVE  Keyframe(f, t) <= Keyframe(f, u)
<1>. USE PlaylistAssumption
<1>. DEFINE within(x) == IF x > Last(f) THEN Last(f) ELSE x
            a == within(t) - First[f]
            b == within(u) - First[f]
<1>1. First[f] \in Nat /\ Last(f) \in Nat /\ Last(f) >= First[f]
  BY LastDef
<1>2. a \in Nat /\ b \in Nat /\ a <= b
  BY <1>1
<1>3. a % Gop \in Nat /\ b % Gop \in Nat
  <2>. HIDE DEF a, b
  <2>. QED BY <1>2
<1>4. Keyframe(f, t) = First[f] + (a - (a % Gop)) /\ Keyframe(f, u) = First[f] + (b - (b % Gop))
  <2>1. Keyframe(f, t) = within(t) - (a % Gop) /\ Keyframe(f, u) = within(u) - (b % Gop)
    BY DEF Keyframe
  <2>2. within(t) = First[f] + a /\ within(u) = First[f] + b
    BY <1>1
  <2>. DEFINE ra == a % Gop
              rb == b % Gop
  <2>3. ra \in Nat /\ rb \in Nat /\ Keyframe(f, t) = within(t) - ra /\ Keyframe(f, u) = within(u) - rb
    BY <1>3, <2>1
  <2>. HIDE DEF within, a, b, ra, rb
  <2>4. Keyframe(f, t) = First[f] + (a - ra) /\ Keyframe(f, u) = First[f] + (b - rb)
    BY <1>1, <1>2, <2>2, <2>3
  <2>. QED BY <2>4 DEF ra, rb
<1>. HIDE DEF a, b
<1>5. a - (a % Gop) <= b - (b % Gop)
  BY <1>2, GroupsRise
<1>. QED BY <1>1, <1>2, <1>3, <1>4, <1>5

(* What the proofs below use of the list of files.                          *)
LEMMA FileFacts ==
  /\ First[0] = 0 /\ First[NFiles] \in Nat
  /\ \A f \in Files : /\ f \in Nat /\ f < NFiles
                      /\ First[f] \in Nat /\ First[f + 1] \in Nat /\ Length[f] \in Nat
                      /\ First[f + 1] = First[f] + Length[f]
                      /\ First[f + 1] <= First[NFiles]
                      /\ Last(f) = First[f + 1] - 1
<1>. USE PlaylistAssumption
<1>1. ASSUME NEW f \in Files PROVE First[f + 1] <= First[NFiles]
  BY FirstRises DEF Files
<1>. QED BY <1>1, FirstDef DEF Files, Last

Opened == {"move", "index", "seek", "served", "reverse", "read", "put"}

(* The file that is read has frames, and the frame read last lies in it,    *)
(* before the one av_read_frame returns next.                               *)
OpenInv ==
  d_pc \in Opened =>
    /\ Length[i] > 0
    /\ d_pc = "put" => pos = pkt + 1 /\ pkt >= First[i]

(* Nothing has been put, and no play_seek kept, before the list of files   *)
(* is there.                                                                *)
LoadInv == ~Loaded => next = -1 /\ prev = -1 /\ (seeks > 0 => lost)

(* While the next frame has to follow, the demuxer stands at it, or is on  *)
(* the way to the file that begins with it.                                 *)
FollowInv ==
  next # -1 =>
    /\ d_pc \in Opened \ {"put"} => pos = next
    /\ d_pc = "put" => pkt = next
    /\ d_pc = "open" => i \in 0 .. NFiles /\ First[i] = next

(* In reverse play: no frame after the last one put can be reached. Either *)
(* the point Reverse steps back from has wrapped, and every file is left,   *)
(* or the file lies before the last frame put, or the keyframe it stands at *)
(* does. The step is taken from pkt again only where that is 0.             *)
Behind ==
  \/ m_reverse_pts < 0
  \/ i < NFiles /\ prev >= First[i + 1]
  \/ i \in Files /\ m_reverse_pts >= First[i] /\ prev >= Keyframe(i, m_reverse_pts)

BackInv ==
  /\ m_reverse_count /\ d_pc = "read" =>
       m_reverse_pts >= First[i] /\ pos = Keyframe(i, m_reverse_pts)
  /\ m_reverse_count /\ d_pc = "put" =>
       m_reverse_pts >= First[i] /\ pkt = Keyframe(i, m_reverse_pts)
  /\ prev # -1 =>
       /\ m_reverse_count /\ d_pc \in {"open", "move", "index", "seek", "served", "reverse"} => Behind
       /\ m_reverse_count /\ d_pc = "read" => pos <= prev
       /\ m_reverse_count /\ d_pc = "put" => pkt <= prev
       /\ ~m_reverse_count /\ d_pc \in {"move", "index", "seek", "served", "reverse"} => pkt = 0

(* What SetMoveSec has stored while its play_seek is not lost.             *)
StoredInv ==
  seeks > 0 /\ ~lost =>
    /\ c_frame > 0
    /\ m_nMoveIdx = FindFileIndexFromFrame(c_frame)
    /\ c_pc = "flag" \/ (c_pc = "idle" /\ m_IsMove) => m_nSeekFrame = c_frame

(* The last play_seek is taken as a move, and nothing of it is lost.       *)
Taken == seeks > 0 /\ c_pc = "idle" /\ ~m_IsMove /\ ~lost

Aim(nFrame) == IF nFrame > Fps \div 2 THEN nFrame - Fps \div 2 ELSE 0

(* Where SeekFrame may leave the demuxer.                                   *)
Window(p) ==
  /\ p > m_seek_pts - Gop
  /\ cause = "move" => p \in c_frame - (Fps \div 2) - Gop + 1 .. c_frame

(* From the move to its SeekFrame nothing is put, and the file opened for   *)
(* it is at its first frame.                                                *)
Heading ==
  /\ m_nSeekFrame = c_frame
  /\ d_pc # "index" => next = -1 /\ ~turned /\ cause \in {"move", "moveBack"}
  /\ d_pc \in {"move", "seek"} => pos = First[i]

(* After SeekFrame the first frame put is in the window, and the frames     *)
(* that follow it only lead away from the seek point.                       *)
Serving ==
  /\ m_seek_pts = Aim(c_frame)
  /\ ~turned =>
       /\ cause \in {"move", "moveBack", "next"}
       /\ next = -1 =>
            /\ d_pc \in {"served", "reverse", "read", "put"} /\ cause \in {"move", "moveBack"}
            /\ IF d_pc = "put" THEN Window(pkt) ELSE Window(pos) /\ pos <= Last(i)
       /\ next # -1 => next > m_seek_pts - Gop

TakenInv ==
  Taken =>
    /\ d_pc \in {"index", "seek"} => m_nSeekFrame # 0
    /\ d_pc = "served" => m_nSeekFrame = c_frame /\ next = -1 /\ ~turned
    /\ d_pc \in {"reverse", "read", "put"} => m_nSeekFrame = 0
    /\ d_pc \in {"index", "open", "move", "seek"} /\ m_nSeekFrame # 0 => Heading
    /\ d_pc \notin {"done", "dead"} /\ (d_pc = "served" \/ m_nSeekFrame = 0) => Serving

(* A move takes the demuxer to the index SetMoveSec stored last.            *)
MovedInv ==
  c_pc = "idle" /\ ~m_IsMove /\ d_pc # "index" =>
    /\ cause = "move" => i = m_nMoveIdx
    /\ cause = "moveBack" => i = m_nMoveIdx + 1

(* That index is the file of the frame last asked for, if there was a list. *)
LookedUpInv == m_nMoveIdx = AskedFile

IInv == /\ TypeOK /\ LoadInv /\ OpenInv /\ FollowInv /\ BackInv
        /\ MovedInv /\ LookedUpInv /\ StoredInv /\ TakenInv

-----------------------------------------------------------------------------
(* Types and ranges: every index stays one the loop can hold.               *)
LEMMA TypeStep ==
  ASSUME TypeOK, OpenInv, [Next]_vars
  PROVE  TypeOK'
<1>. USE PlaylistAssumption
<1>0. First[NFiles] \in Nat
  BY FileFacts
<1>. USE <1>0
<1>1. CASE \E sec \in Seconds : MoveIndex(sec)
  <2>. SUFFICES ASSUME NEW sec \in Seconds, MoveIndex(sec) PROVE TypeOK'
    BY <1>1
  <2>1. sec * Fps \in Nat
    OBVIOUS
  <2>2. m_nMoveIdx' \in 0 .. NFiles /\ c_frame' \in Nat
    BY <2>1, FindDef DEF MoveIndex
  <2>3. lost' \in BOOLEAN
    BY DEF MoveIndex
  <2>. QED BY <2>2, <2>3 DEF TypeOK, MoveIndex, seekVars, reverseVars, readVars, commVars,
       history
<1>2. CASE MoveTorn
  <2>1. /\ m_IsMove' \in BOOLEAN /\ m_bIsRerverse' \in BOOLEAN /\ m_IsPause' \in BOOLEAN
        /\ m_reverse_count' \in BOOLEAN /\ lost' \in BOOLEAN /\ turned' \in BOOLEAN
    BY <1>2 DEF TypeOK, Pending, MoveTorn, seekVars, reverseVars, readVars, commVars, history
  <2>. QED BY <1>2, <2>1 DEF TypeOK, MoveTorn, seekVars, reverseVars, readVars, commVars,
       history
<1>3. CASE MoveFrame
  <2>1. /\ m_IsMove' \in BOOLEAN /\ m_bIsRerverse' \in BOOLEAN /\ m_IsPause' \in BOOLEAN
        /\ m_reverse_count' \in BOOLEAN /\ lost' \in BOOLEAN /\ turned' \in BOOLEAN
    BY <1>3 DEF TypeOK, Pending, MoveFrame, seekVars, reverseVars, readVars, commVars, history
  <2>. QED BY <1>3, <2>1 DEF TypeOK, MoveFrame, seekVars, reverseVars, readVars, commVars,
       history
<1>4. CASE MoveFlag
  <2>1. /\ m_IsMove' \in BOOLEAN /\ m_bIsRerverse' \in BOOLEAN /\ m_IsPause' \in BOOLEAN
        /\ m_reverse_count' \in BOOLEAN /\ lost' \in BOOLEAN /\ turned' \in BOOLEAN
    BY <1>4 DEF TypeOK, Pending, MoveFlag, seekVars, reverseVars, readVars, commVars, history
  <2>. QED BY <1>4, <2>1 DEF TypeOK, MoveFlag, seekVars, reverseVars, readVars, commVars,
       history
<1>5. CASE SetReverse
  <2>1. /\ m_IsMove' \in BOOLEAN /\ m_bIsRerverse' \in BOOLEAN /\ m_IsPause' \in BOOLEAN
        /\ m_reverse_count' \in BOOLEAN /\ lost' \in BOOLEAN /\ turned' \in BOOLEAN
    BY <1>5 DEF TypeOK, Pending, SetReverse, seekVars, reverseVars, readVars, commVars, history
  <2>. QED BY <1>5, <2>1 DEF TypeOK, SetReverse, seekVars, reverseVars, readVars, commVars,
       history
<1>6. CASE SetPause
  <2>1. /\ m_IsMove' \in BOOLEAN /\ m_bIsRerverse' \in BOOLEAN /\ m_IsPause' \in BOOLEAN
        /\ m_reverse_count' \in BOOLEAN /\ lost' \in BOOLEAN /\ turned' \in BOOLEAN
    BY <1>6 DEF TypeOK, Pending, SetPause, seekVars, reverseVars, readVars, commVars, history
  <2>. QED BY <1>6, <2>1 DEF TypeOK, SetPause, seekVars, reverseVars, readVars, commVars,
       history
<1>7. CASE Resume
  <2>1. /\ m_IsMove' \in BOOLEAN /\ m_bIsRerverse' \in BOOLEAN /\ m_IsPause' \in BOOLEAN
        /\ m_reverse_count' \in BOOLEAN /\ lost' \in BOOLEAN /\ turned' \in BOOLEAN
    BY <1>7 DEF TypeOK, Pending, Resume, seekVars, reverseVars, readVars, commVars, history
  <2>. QED BY <1>7, <2>1 DEF TypeOK, Resume, seekVars, reverseVars, readVars, commVars, history
<1>8. CASE LoadFiles
  <2>1. /\ m_IsMove' \in BOOLEAN /\ m_bIsRerverse' \in BOOLEAN /\ m_IsPause' \in BOOLEAN
        /\ m_reverse_count' \in BOOLEAN /\ lost' \in BOOLEAN /\ turned' \in BOOLEAN
    BY <1>8 DEF TypeOK, Pending, LoadFiles, Loaded, seekVars, reverseVars, readVars, commVars,
         history
  <2>. QED BY <1>8, <2>1 DEF TypeOK, LoadFiles, Loaded, seekVars, reverseVars, readVars,
       commVars, history
<1>9. CASE OpenFile
  <2>1. /\ m_IsMove' \in BOOLEAN /\ m_bIsRerverse' \in BOOLEAN /\ m_IsPause' \in BOOLEAN
        /\ m_reverse_count' \in BOOLEAN /\ lost' \in BOOLEAN /\ turned' \in BOOLEAN
    BY <1>9 DEF TypeOK, Pending, OpenFile, seekVars, reverseVars, readVars, commVars, history
  <2>. QED BY <1>9, <2>1, FileFacts DEF TypeOK, OpenFile, seekVars, reverseVars, readVars,
       commVars, history
<1>10. CASE TakeMove
  <2>1. /\ m_IsMove' \in BOOLEAN /\ m_bIsRerverse' \in BOOLEAN /\ m_IsPause' \in BOOLEAN
        /\ m_reverse_count' \in BOOLEAN /\ lost' \in BOOLEAN /\ turned' \in BOOLEAN
    BY <1>10 DEF TypeOK, Pending, TakeMove, Leave, seekVars, reverseVars, readVars, commVars,
         history
  <2>2. CASE d_pc = "move"
    BY <1>10, <2>1, <2>2 DEF TypeOK, TakeMove, reverseVars, commVars
  <2>3. CASE d_pc = "index"
    <3>1. i' \in -1 .. NFiles + 1 /\ cause' \in {"move", "moveBack"} /\ next' = -1 /\ prev' = -1
      BY <1>10, <2>3 DEF TypeOK, TakeMove, Leave
    <3>2. d_pc' = "open" /\ m_IsMove' = m_IsMove
      BY <1>10, <2>3 DEF TakeMove, Leave
    <3>. QED BY <1>10, <2>1, <3>1, <3>2 DEF TypeOK, TakeMove, reverseVars, commVars
  <2>. QED BY <1>10, <2>2, <2>3 DEF TakeMove
<1>11. CASE NoMove
  <2>1. /\ m_IsMove' \in BOOLEAN /\ m_bIsRerverse' \in BOOLEAN /\ m_IsPause' \in BOOLEAN
        /\ m_reverse_count' \in BOOLEAN /\ lost' \in BOOLEAN /\ turned' \in BOOLEAN
    BY <1>11 DEF TypeOK, Pending, NoMove, seekVars, reverseVars, readVars, commVars, history
  <2>. QED BY <1>11, <2>1 DEF TypeOK, NoMove, seekVars, reverseVars, readVars, commVars, history
<1>12. CASE SeekFrame
  <2>1. /\ m_IsMove' \in BOOLEAN /\ m_bIsRerverse' \in BOOLEAN /\ m_IsPause' \in BOOLEAN
        /\ m_reverse_count' \in BOOLEAN /\ lost' \in BOOLEAN /\ turned' \in BOOLEAN
    BY <1>12 DEF TypeOK, Pending, SeekFrame, SeekPoint, seekVars, reverseVars, readVars,
         commVars, history
  <2>2. SeekPoint \in Nat
    BY DEF TypeOK, SeekPoint
  <2>3. i \in Files /\ Length[i] > 0 /\ First[i] \in Nat
    BY <1>12, FileFacts DEF TypeOK, OpenInv, Opened, SeekFrame
  <2>4. pos' \in First[i] .. First[i + 1]
    <3>1. CASE SeekPoint < First[i]
      BY <1>12, <3>1 DEF TypeOK, SeekFrame
    <3>2. CASE ~ (SeekPoint < First[i])
      <4>1. Keyframe(i, SeekPoint) \in First[i] .. Last(i)
        BY <2>2, <2>3, <3>2, KeyframeDef
      <4>. QED BY <1>12, <2>3, <3>2, <4>1, FileFacts DEF SeekFrame
    <3>. QED BY <3>1, <3>2
  <2>. QED BY <1>12, <2>1, <2>2, <2>3, <2>4 DEF TypeOK, SeekFrame, seekVars, reverseVars,
       readVars, commVars, history
<1>13. CASE SeekServed
  <2>1. /\ m_IsMove' \in BOOLEAN /\ m_bIsRerverse' \in BOOLEAN /\ m_IsPause' \in BOOLEAN
        /\ m_reverse_count' \in BOOLEAN /\ lost' \in BOOLEAN /\ turned' \in BOOLEAN
    BY <1>13 DEF TypeOK, Pending, SeekServed, seekVars, reverseVars, readVars, commVars, history
  <2>. QED BY <1>13, <2>1 DEF TypeOK, SeekServed, seekVars, reverseVars, readVars, commVars,
       history
<1>14. CASE Forward
  <2>1. /\ m_IsMove' \in BOOLEAN /\ m_bIsRerverse' \in BOOLEAN /\ m_IsPause' \in BOOLEAN
        /\ m_reverse_count' \in BOOLEAN /\ lost' \in BOOLEAN /\ turned' \in BOOLEAN
    BY <1>14 DEF TypeOK, Pending, Forward, seekVars, reverseVars, readVars, commVars, history
  <2>. QED BY <1>14, <2>1 DEF TypeOK, Forward, seekVars, reverseVars, readVars, commVars,
       history
<1>15. CASE Reverse
  <2>1. /\ m_IsMove' \in BOOLEAN /\ m_bIsRerverse' \in BOOLEAN /\ m_IsPause' \in BOOLEAN
        /\ m_reverse_count' \in BOOLEAN /\ lost' \in BOOLEAN /\ turned' \in BOOLEAN
    BY <1>15 DEF TypeOK, Pending, Reverse, Leave, seekVars, reverseVars, readVars, commVars,
         history
  <2>2. ReversePoint \in Int
    BY DEF TypeOK, ReversePoint
  <2>3. i \in Files /\ Length[i] > 0 /\ First[i] \in Nat
    BY <1>15, FileFacts DEF TypeOK, OpenInv, Opened, Reverse
  <2>4. CASE m_reverse_pts' >= First[i] /\ m_file_first_pts <= (m_reverse_pts' \div Fps) * Fps
    <3>1. m_reverse_pts' = ReversePoint /\ ReversePoint \in Nat
      BY <1>15, <2>2, <2>3, <2>4 DEF Reverse
    <3>2. Keyframe(i, ReversePoint) \in First[i] .. Last(i)
      BY <2>3, <2>4, <3>1, KeyframeDef
    <3>3. pos' \in First[i] .. First[i + 1] /\ d_pc' = "read" /\ UNCHANGED <<i, cause>>
      BY <1>15, <2>3, <2>4, <3>1, <3>2, FileFacts DEF Reverse
    <3>. QED BY <1>15, <2>1, <2>2, <2>3, <3>1, <3>3 DEF TypeOK, Reverse, seekVars, commVars
  <2>5. CASE ~ (m_reverse_pts' >= First[i] /\ m_file_first_pts <= (m_reverse_pts' \div Fps) * Fps)
    <3>1. i' = i - 1 /\ cause' = "back" /\ d_pc' = "open"
      BY <1>15, <2>5 DEF Reverse, Leave
    <3>2. i' \in -1 .. NFiles + 1
      BY <2>3, <3>1, FileFacts
    <3>. QED BY <1>15, <2>1, <2>2, <3>1, <3>2 DEF TypeOK, Reverse, seekVars, commVars
  <2>. QED BY <2>4, <2>5
<1>16. CASE ReadFrame
  <2>1. /\ m_IsMove' \in BOOLEAN /\ m_bIsRerverse' \in BOOLEAN /\ m_IsPause' \in BOOLEAN
        /\ m_reverse_count' \in BOOLEAN /\ lost' \in BOOLEAN /\ turned' \in BOOLEAN
    BY <1>16 DEF TypeOK, Pending, ReadFrame, seekVars, reverseVars, readVars, commVars, history
  <2>2. i \in Files
    BY <1>16 DEF TypeOK, ReadFrame
  <2>3. pkt' \in 0 .. First[NFiles] /\ pos' \in First[i] .. First[i + 1]
    BY <1>16, <2>2, FileFacts DEF TypeOK, ReadFrame
  <2>. QED BY <1>16, <2>1, <2>2, <2>3 DEF TypeOK, ReadFrame, seekVars, reverseVars, readVars,
       commVars, history
<1>17. CASE EndOfFile
  <2>1. /\ m_IsMove' \in BOOLEAN /\ m_bIsRerverse' \in BOOLEAN /\ m_IsPause' \in BOOLEAN
        /\ m_reverse_count' \in BOOLEAN /\ lost' \in BOOLEAN /\ turned' \in BOOLEAN
    BY <1>17 DEF TypeOK, Pending, EndOfFile, Leave, seekVars, reverseVars, readVars, commVars,
         history
  <2>2. i' \in -1 .. NFiles + 1
    BY <1>17, FileFacts DEF TypeOK, EndOfFile, Leave
  <2>. QED BY <1>17, <2>1, <2>2 DEF TypeOK, EndOfFile, Leave, seekVars, reverseVars, readVars,
       commVars, history
<1>18. CASE Put
  <2>1. /\ m_IsMove' \in BOOLEAN /\ m_bIsRerverse' \in BOOLEAN /\ m_IsPause' \in BOOLEAN
        /\ m_reverse_count' \in BOOLEAN /\ lost' \in BOOLEAN /\ turned' \in BOOLEAN
    BY <1>18 DEF TypeOK, Pending, Put, seekVars, reverseVars, readVars, commVars, history
  <2>2. pkt + 1 \in -1 .. First[NFiles] /\ pkt \in -1 .. First[NFiles] - 1
    BY <1>18, FileFacts DEF TypeOK, OpenInv, Opened, Put
  <2>. QED BY <1>18, <2>1, <2>2 DEF TypeOK, Put, seekVars, reverseVars, readVars, commVars,
       history
<1>19. CASE UNCHANGED vars
  BY <1>19 DEF TypeOK, vars, seekVars, reverseVars, readVars, commVars, history
<1>. QED BY <1>1, <1>2, <1>3, <1>4, <1>5, <1>6, <1>7, <1>8, <1>9, <1>10, <1>11, <1>12,
            <1>13, <1>14, <1>15, <1>16, <1>17, <1>18, <1>19 DEF Next, Command, Demuxer, Ended

(* Until the list of files is there the demuxer's other steps wait for it.  *)
LEMMA LoadStep ==
  ASSUME LoadInv, [Next]_vars
  PROVE  LoadInv'
<1>1. CASE \E sec \in Seconds : MoveIndex(sec)
  BY <1>1 DEF MoveIndex, LoadInv, Loaded, seekVars, reverseVars, readVars, commVars, history
<1>2. CASE MoveTorn
  BY <1>2 DEF MoveTorn, LoadInv, Loaded, seekVars, reverseVars, readVars, commVars, history
<1>3. CASE MoveFrame
  BY <1>3 DEF MoveFrame, LoadInv, Loaded, seekVars, reverseVars, readVars, commVars, history
<1>4. CASE MoveFlag
  BY <1>4 DEF MoveFlag, LoadInv, Loaded, seekVars, reverseVars, readVars, commVars, history
<1>5. CASE SetReverse
  BY <1>5 DEF SetReverse, LoadInv, Loaded, seekVars, reverseVars, readVars, commVars, history
<1>6. CASE SetPause
  BY <1>6 DEF SetPause, LoadInv, Loaded, seekVars, reverseVars, readVars, commVars, history
<1>7. CASE Resume
  BY <1>7 DEF Resume, LoadInv, Loaded, seekVars, reverseVars, readVars, commVars, history
<1>8. CASE LoadFiles
  BY <1>8 DEF LoadFiles, Loaded, LoadInv, Loaded, seekVars, reverseVars, readVars, commVars,
       history
<1>9. CASE OpenFile
  BY <1>9 DEF OpenFile, LoadInv, Loaded, seekVars, reverseVars, readVars, commVars, history
<1>10. CASE TakeMove
  BY <1>10 DEF TakeMove, Leave, LoadInv, Loaded, seekVars, reverseVars, readVars, commVars,
       history
<1>11. CASE NoMove
  BY <1>11 DEF NoMove, LoadInv, Loaded, seekVars, reverseVars, readVars, commVars, history
<1>12. CASE SeekFrame
  BY <1>12 DEF SeekFrame, SeekPoint, LoadInv, Loaded, seekVars, reverseVars, readVars,
       commVars, history
<1>13. CASE SeekServed
  BY <1>13 DEF SeekServed, LoadInv, Loaded, seekVars, reverseVars, readVars, commVars, history
<1>14. CASE Forward
  BY <1>14 DEF Forward, LoadInv, Loaded, seekVars, reverseVars, readVars, commVars, history
<1>15. CASE Reverse
  BY <1>15 DEF Reverse, Leave, LoadInv, Loaded, seekVars, reverseVars, readVars, commVars,
       history
<1>16. CASE ReadFrame
  BY <1>16 DEF ReadFrame, LoadInv, Loaded, seekVars, reverseVars, readVars, commVars, history
<1>17. CASE EndOfFile
  BY <1>17 DEF EndOfFile, Leave, LoadInv, Loaded, seekVars, reverseVars, readVars, commVars,
       history
<1>18. CASE Put
  BY <1>18 DEF Put, LoadInv, Loaded, seekVars, reverseVars, readVars, commVars, history
<1>19. CASE UNCHANGED vars
  BY <1>19 DEF vars, LoadInv, Loaded, seekVars, reverseVars, readVars, commVars, history
<1>. QED BY <1>1, <1>2, <1>3, <1>4, <1>5, <1>6, <1>7, <1>8, <1>9, <1>10, <1>11, <1>12,
            <1>13, <1>14, <1>15, <1>16, <1>17, <1>18, <1>19 DEF Next, Command, Demuxer, Ended

(* The file that is read keeps its frames.                                  *)
LEMMA OpenStep ==
  ASSUME TypeOK, OpenInv, [Next]_vars
  PROVE  OpenInv'
<1>1. CASE \E sec \in Seconds : MoveIndex(sec)
  BY <1>1, FileFacts DEF MoveIndex, TypeOK, OpenInv, Opened, seekVars, reverseVars, readVars,
       commVars, history
<1>2. CASE MoveTorn
  BY <1>2, FileFacts DEF MoveTorn, TypeOK, OpenInv, Opened, seekVars, reverseVars, readVars,
       commVars, history
<1>3. CASE MoveFrame
  BY <1>3, FileFacts DEF MoveFrame, TypeOK, OpenInv, Opened, seekVars, reverseVars, readVars,
       commVars, history
<1>4. CASE MoveFlag
  BY <1>4, FileFacts DEF MoveFlag, TypeOK, OpenInv, Opened, seekVars, reverseVars, readVars,
       commVars, history
<1>5. CASE SetReverse
  BY <1>5, FileFacts DEF SetReverse, TypeOK, OpenInv, Opened, seekVars, reverseVars, readVars,
       commVars, history
<1>6. CASE SetPause
  BY <1>6, FileFacts DEF SetPause, TypeOK, OpenInv, Opened, seekVars, reverseVars, readVars,
       commVars, history
<1>7. CASE Resume
  BY <1>7, FileFacts DEF Resume, TypeOK, OpenInv, Opened, seekVars, reverseVars, readVars,
       commVars, history
<1>8. CASE LoadFiles
  BY <1>8, FileFacts DEF LoadFiles, Loaded, TypeOK, OpenInv, Opened, seekVars, reverseVars,
       readVars, commVars, history
<1>9. CASE OpenFile
  BY <1>9, FileFacts DEF OpenFile, TypeOK, OpenInv, Opened, seekVars, reverseVars, readVars,
       commVars, history
<1>10. CASE TakeMove
  BY <1>10, FileFacts DEF TakeMove, Leave, TypeOK, OpenInv, Opened, seekVars, reverseVars,
       readVars, commVars, history
<1>11. CASE NoMove
  BY <1>11, FileFacts DEF NoMove, TypeOK, OpenInv, Opened, seekVars, reverseVars, readVars,
       commVars, history
<1>12. CASE SeekFrame
  BY <1>12, FileFacts DEF SeekFrame, SeekPoint, TypeOK, OpenInv, Opened, seekVars, reverseVars,
       readVars, commVars, history
<1>13. CASE SeekServed
  BY <1>13, FileFacts DEF SeekServed, TypeOK, OpenInv, Opened, seekVars, reverseVars, readVars,
       commVars, history
<1>14. CASE Forward
  BY <1>14, FileFacts DEF Forward, TypeOK, OpenInv, Opened, seekVars, reverseVars, readVars,
       commVars, history
<1>15. CASE Reverse
  BY <1>15, FileFacts DEF Reverse, Leave, TypeOK, OpenInv, Opened, seekVars, reverseVars,
       readVars, commVars, history
<1>16. CASE ReadFrame
  BY <1>16, FileFacts DEF ReadFrame, TypeOK, OpenInv, Opened, seekVars, reverseVars, readVars,
       commVars, history
<1>17. CASE EndOfFile
  BY <1>17, FileFacts DEF EndOfFile, Leave, TypeOK, OpenInv, Opened, seekVars, reverseVars,
       readVars, commVars, history
<1>18. CASE Put
  BY <1>18, FileFacts DEF Put, TypeOK, OpenInv, Opened, seekVars, reverseVars, readVars,
       commVars, history
<1>19. CASE UNCHANGED vars
  BY <1>19, FileFacts DEF vars, TypeOK, OpenInv, Opened, seekVars, reverseVars, readVars,
       commVars, history
<1>. QED BY <1>1, <1>2, <1>3, <1>4, <1>5, <1>6, <1>7, <1>8, <1>9, <1>10, <1>11, <1>12,
            <1>13, <1>14, <1>15, <1>16, <1>17, <1>18, <1>19 DEF Next, Command, Demuxer, Ended

(* Forward play: each step leaves the demuxer before the frame that follows.*)
LEMMA FollowStep ==
  ASSUME TypeOK, LoadInv, OpenInv, FollowInv, [Next]_vars
  PROVE  FollowInv'
<1>. USE PlaylistAssumption
<1>1. CASE \E sec \in Seconds : MoveIndex(sec)
  BY <1>1, FileFacts DEF MoveIndex, TypeOK, LoadInv, Loaded, OpenInv, FollowInv, Opened,
       seekVars, reverseVars, readVars, commVars, history
<1>2. CASE MoveTorn
  BY <1>2, FileFacts DEF MoveTorn, TypeOK, LoadInv, Loaded, OpenInv, FollowInv, Opened,
       seekVars, reverseVars, readVars, commVars, history
<1>3. CASE MoveFrame
  BY <1>3, FileFacts DEF MoveFrame, TypeOK, LoadInv, Loaded, OpenInv, FollowInv, Opened,
       seekVars, reverseVars, readVars, commVars, history
<1>4. CASE MoveFlag
  BY <1>4, FileFacts DEF MoveFlag, TypeOK, LoadInv, Loaded, OpenInv, FollowInv, Opened,
       seekVars, reverseVars, readVars, commVars, history
<1>5. CASE SetReverse
  BY <1>5, FileFacts DEF SetReverse, TypeOK, LoadInv, Loaded, OpenInv, FollowInv, Opened,
       seekVars, reverseVars, readVars, commVars, history
<1>6. CASE SetPause
  BY <1>6, FileFacts DEF SetPause, TypeOK, LoadInv, Loaded, OpenInv, FollowInv, Opened,
       seekVars, reverseVars, readVars, commVars, history
<1>7. CASE Resume
  BY <1>7, FileFacts DEF Resume, TypeOK, LoadInv, Loaded, OpenInv, FollowInv, Opened, seekVars,
       reverseVars, readVars, commVars, history
<1>8. CASE LoadFiles
  BY <1>8, FileFacts DEF LoadFiles, Loaded, TypeOK, LoadInv, Loaded, OpenInv, FollowInv,
       Opened, seekVars, reverseVars, readVars, commVars, history
<1>9. CASE OpenFile
  BY <1>9, FileFacts DEF OpenFile, TypeOK, LoadInv, Loaded, OpenInv, FollowInv, Opened,
       seekVars, reverseVars, readVars, commVars, history
<1>10. CASE TakeMove
  BY <1>10, FileFacts DEF TakeMove, Leave, TypeOK, LoadInv, Loaded, OpenInv, FollowInv, Opened,
       seekVars, reverseVars, readVars, commVars, history
<1>11. CASE NoMove
  BY <1>11, FileFacts DEF NoMove, TypeOK, LoadInv, Loaded, OpenInv, FollowInv, Opened,
       seekVars, reverseVars, readVars, commVars, history
<1>12. CASE SeekFrame
  BY <1>12, FileFacts DEF SeekFrame, SeekPoint, TypeOK, LoadInv, Loaded, OpenInv, FollowInv,
       Opened, seekVars, reverseVars, readVars, commVars, history
<1>13. CASE SeekServed
  BY <1>13, FileFacts DEF SeekServed, TypeOK, LoadInv, Loaded, OpenInv, FollowInv, Opened,
       seekVars, reverseVars, readVars, commVars, history
<1>14. CASE Forward
  BY <1>14, FileFacts DEF Forward, TypeOK, LoadInv, Loaded, OpenInv, FollowInv, Opened,
       seekVars, reverseVars, readVars, commVars, history
<1>15. CASE Reverse
  BY <1>15, FileFacts DEF Reverse, Leave, TypeOK, LoadInv, Loaded, OpenInv, FollowInv, Opened,
       seekVars, reverseVars, readVars, commVars, history
<1>16. CASE ReadFrame
  BY <1>16, FileFacts DEF ReadFrame, TypeOK, LoadInv, Loaded, OpenInv, FollowInv, Opened,
       seekVars, reverseVars, readVars, commVars, history
<1>17. CASE EndOfFile
  BY <1>17, FileFacts DEF EndOfFile, Leave, TypeOK, LoadInv, Loaded, OpenInv, FollowInv,
       Opened, seekVars, reverseVars, readVars, commVars, history
<1>18. CASE Put
  BY <1>18, FileFacts DEF Put, TypeOK, LoadInv, Loaded, OpenInv, FollowInv, Opened, seekVars,
       reverseVars, readVars, commVars, history
<1>19. CASE UNCHANGED vars
  BY <1>19, FileFacts DEF vars, TypeOK, LoadInv, Loaded, OpenInv, FollowInv, Opened, seekVars,
       reverseVars, readVars, commVars, history
<1>. QED BY <1>1, <1>2, <1>3, <1>4, <1>5, <1>6, <1>7, <1>8, <1>9, <1>10, <1>11, <1>12,
            <1>13, <1>14, <1>15, <1>16, <1>17, <1>18, <1>19 DEF Next, Command, Demuxer, Ended

(* Reverse play. Reverse steps the point back, so its keyframe is not after *)
(* the one before, nor after anything put; leaving a file makes the next    *)
(* one end before it. The rest keeps where the demuxer stands.              *)
LEMMA BackStep ==
  ASSUME TypeOK, LoadInv, OpenInv, BackInv, [Next]_vars
  PROVE  BackInv'
<1>1. CASE \E sec \in Seconds : MoveIndex(sec)
  BY <1>1 DEF MoveIndex, LoadInv, Loaded, BackInv, Behind, seekVars, reverseVars, readVars,
       commVars, history
<1>2. CASE MoveTorn
  BY <1>2 DEF MoveTorn, LoadInv, Loaded, BackInv, Behind, seekVars, reverseVars, readVars,
       commVars, history
<1>3. CASE MoveFrame
  BY <1>3 DEF MoveFrame, LoadInv, Loaded, BackInv, Behind, seekVars, reverseVars, readVars,
       commVars, history
<1>4. CASE MoveFlag
  BY <1>4 DEF MoveFlag, LoadInv, Loaded, BackInv, Behind, seekVars, reverseVars, readVars,
       commVars, history
<1>5. CASE SetReverse
  BY <1>5 DEF SetReverse, LoadInv, Loaded, BackInv, Behind, seekVars, reverseVars, readVars,
       commVars, history
<1>6. CASE SetPause
  BY <1>6 DEF SetPause, LoadInv, Loaded, BackInv, Behind, seekVars, reverseVars, readVars,
       commVars, history
<1>7. CASE Resume
  BY <1>7 DEF Resume, LoadInv, Loaded, BackInv, Behind, seekVars, reverseVars, readVars,
       commVars, history
<1>8. CASE LoadFiles
  BY <1>8 DEF LoadFiles, Loaded, LoadInv, Loaded, BackInv, Behind, seekVars, reverseVars,
       readVars, commVars, history
<1>9. CASE OpenFile
  BY <1>9 DEF OpenFile, BackInv, Behind, seekVars, reverseVars, readVars, commVars, history
<1>10. CASE TakeMove
  <2>1. CASE d_pc = "move"
    BY <1>10, <2>1 DEF TakeMove, BackInv, Behind, reverseVars
  <2>2. CASE d_pc = "index"
    BY <1>10, <2>2 DEF TakeMove, Leave, BackInv
  <2>. QED BY <1>10, <2>1, <2>2 DEF TakeMove
<1>11. CASE NoMove
  BY <1>11 DEF NoMove, LoadInv, Loaded, BackInv, Behind, seekVars, reverseVars, readVars,
       commVars, history
<1>12. CASE SeekFrame
  BY <1>12 DEF SeekFrame, SeekPoint, LoadInv, Loaded, BackInv, Behind, seekVars, reverseVars,
       readVars, commVars, history
<1>13. CASE SeekServed
  BY <1>13 DEF SeekServed, LoadInv, Loaded, BackInv, Behind, seekVars, reverseVars, readVars,
       commVars, history
<1>14. CASE Forward
  BY <1>14 DEF Forward, LoadInv, Loaded, BackInv, Behind, seekVars, reverseVars, readVars,
       commVars, history
<1>15. CASE Reverse
  <2>. USE PlaylistAssumption
  <2>1. /\ i \in Files /\ Length[i] > 0 /\ First[i] \in Nat /\ First[i + 1] \in Nat
        /\ Last(i) = First[i + 1] - 1 /\ First[i + 1] > First[i]
        /\ m_reverse_pts \in Int /\ pkt \in Nat /\ prev \in Int
    BY <1>15, FileFacts DEF TypeOK, OpenInv, Opened, Reverse
  <2>2. m_reverse_count' = TRUE /\ m_reverse_pts' = ReversePoint /\ prev' = prev /\ ReversePoint \in Int
    BY <1>15, <2>1 DEF Reverse, ReversePoint
  <2>3. prev # -1 => \/ m_reverse_pts' < 0
                     \/ prev >= First[i + 1]
                     \/ /\ m_reverse_pts >= First[i] /\ prev >= Keyframe(i, m_reverse_pts)
                        /\ m_reverse_pts' = m_reverse_pts - 1
    <3>1. CASE m_reverse_count
      BY <1>15, <2>1, <2>2, <3>1 DEF BackInv, Behind, Reverse, ReversePoint
    <3>2. CASE ~m_reverse_count
      BY <1>15, <2>2, <3>2 DEF BackInv, Reverse, ReversePoint
    <3>. QED BY <3>1, <3>2
  <2>4. CASE m_reverse_pts' >= First[i] /\ m_file_first_pts <= (m_reverse_pts' \div Fps) * Fps
    <3>1. m_reverse_pts' \in Nat /\ pos' = Keyframe(i, m_reverse_pts') /\ d_pc' = "read" /\ i' = i
      BY <1>15, <2>1, <2>2, <2>4 DEF Reverse
    <3>2. Keyframe(i, m_reverse_pts') \in First[i] .. Last(i)
      BY <2>1, <2>4, <3>1, KeyframeDef
    <3>3. prev # -1 => Keyframe(i, m_reverse_pts') <= prev
      <4>1. CASE prev >= First[i + 1]
        BY <2>1, <3>2, <4>1
      <4>2. CASE /\ m_reverse_pts >= First[i] /\ prev >= Keyframe(i, m_reverse_pts)
                 /\ m_reverse_pts' = m_reverse_pts - 1
        <5>1. m_reverse_pts \in Nat /\ m_reverse_pts' <= m_reverse_pts
          BY <2>1, <4>2
        <5>2. Keyframe(i, m_reverse_pts') <= Keyframe(i, m_reverse_pts)
          BY <2>1, <2>4, <3>1, <5>1, KeyframeRises
        <5>3. Keyframe(i, m_reverse_pts) \in Int
          BY <2>1, <4>2, <5>1, KeyframeDef
        <5>. QED BY <2>1, <3>2, <4>2, <5>2, <5>3
      <4>. QED BY <2>3, <3>1, <4>1, <4>2
    <3>. QED BY <2>2, <2>4, <3>1, <3>3 DEF BackInv
  <2>5. CASE ~ (m_reverse_pts' >= First[i] /\ m_file_first_pts <= (m_reverse_pts' \div Fps) * Fps)
    <3>1. i' = i - 1 /\ d_pc' = "open" /\ i' + 1 = i /\ i' < NFiles
      BY <1>15, <2>1, <2>5, FileFacts DEF Reverse, Leave
    <3>2. prev # -1 => m_reverse_pts' < 0 \/ prev >= First[i]
      <4>1. m_reverse_pts >= First[i] => Keyframe(i, m_reverse_pts) \in First[i] .. Last(i)
        BY <2>1, KeyframeDef
      <4>. QED BY <2>1, <2>3, <4>1
    <3>. QED BY <2>2, <3>1, <3>2 DEF BackInv, Behind
  <2>. QED BY <2>4, <2>5
<1>16. CASE ReadFrame
  BY <1>16 DEF TypeOK, ReadFrame, BackInv, seekVars, reverseVars, readVars, commVars, history
<1>17. CASE EndOfFile
  <2>1. m_reverse_count => FALSE
    <3>. SUFFICES ASSUME m_reverse_count PROVE FALSE
      OBVIOUS
    <3>1. /\ i \in Files /\ Length[i] > 0 /\ m_reverse_pts \in Int /\ First[i] \in Nat
          /\ m_reverse_pts >= First[i] /\ pos = Keyframe(i, m_reverse_pts) /\ Last(i) \in Int
      BY <1>17, FileFacts DEF TypeOK, OpenInv, Opened, BackInv, EndOfFile
    <3>2. Keyframe(i, m_reverse_pts) \in First[i] .. Last(i)
      BY <3>1, KeyframeDef
    <3>. QED BY <1>17, <3>1, <3>2 DEF EndOfFile
  <2>. QED BY <1>17, <2>1 DEF EndOfFile, Leave, BackInv, seekVars, reverseVars, readVars,
       commVars, history
<1>18. CASE Put
  BY <1>18 DEF TypeOK, Put, BackInv, Behind, seekVars, reverseVars, readVars, commVars, history
<1>19. CASE UNCHANGED vars
  BY <1>19 DEF vars, LoadInv, Loaded, BackInv, Behind, seekVars, reverseVars, readVars,
       commVars, history
<1>. QED BY <1>1, <1>2, <1>3, <1>4, <1>5, <1>6, <1>7, <1>8, <1>9, <1>10, <1>11, <1>12,
            <1>13, <1>14, <1>15, <1>16, <1>17, <1>18, <1>19 DEF Next, Command, Demuxer, Ended

(* Nothing has been moved to at first.                                     *)
LEMMA InitMoved == Init => MovedInv
BY DEF Init, MovedInv

(* The commands: until MoveFlag has stored the flag, SetMoveSec is not     *)
(* idle; afterwards the flag is up.                                        *)
LEMMA CommandMoved ==
  ASSUME MovedInv, Command
  PROVE  MovedInv'
<1>1. CASE \E sec \in Seconds : MoveIndex(sec)
  BY <1>1 DEF MoveIndex, MovedInv
<1>2. CASE MoveFrame \/ MoveTorn
  BY <1>2 DEF MoveFrame, MoveTorn, MovedInv
<1>3. CASE MoveFlag
  BY <1>3 DEF MoveFlag, MovedInv
<1>4. CASE SetReverse \/ SetPause \/ Resume
  BY <1>4 DEF SetReverse, SetPause, Resume, MovedInv, seekVars, readVars, history
<1>. QED BY <1>1, <1>2, <1>3, <1>4 DEF Command

(* Taking a move: clearing the flag leads to "index", and reading the index *)
(* happens afterwards.                                                      *)
LEMMA TakeMoveMoved ==
  ASSUME MovedInv, TakeMove
  PROVE  MovedInv'
<1>1. CASE d_pc = "move"
  BY <1>1 DEF TakeMove, MovedInv
<1>2. CASE d_pc = "index"
  BY <1>2 DEF TakeMove, Leave, MovedInv, commVars
<1>. QED BY <1>1, <1>2 DEF TakeMove

(* The other steps of the demuxer keep its file and the reason it was      *)
(* opened, or leave it for another reason.                                 *)
LEMMA DemuxerMoved ==
  ASSUME MovedInv, Demuxer
  PROVE  MovedInv'
<1>1. CASE OpenFile
  BY <1>1 DEF OpenFile, MovedInv, seekVars, commVars, history
<1>0. CASE LoadFiles
  BY <1>0 DEF LoadFiles, Loaded, MovedInv, seekVars, readVars, commVars, history
<1>2. CASE NoMove
  BY <1>2 DEF NoMove, MovedInv, seekVars, readVars, commVars, history
<1>3. CASE SeekFrame
  BY <1>3 DEF SeekFrame, MovedInv, seekVars, commVars
<1>4. CASE SeekServed
  BY <1>4 DEF SeekServed, MovedInv, readVars, commVars
<1>5. CASE Forward
  BY <1>5 DEF Forward, MovedInv, seekVars, readVars, commVars, history
<1>6. CASE Reverse
  BY <1>6 DEF Reverse, Leave, MovedInv, seekVars, commVars
<1>7. CASE ReadFrame
  BY <1>7 DEF ReadFrame, MovedInv, seekVars, commVars, history
<1>8. CASE EndOfFile
  BY <1>8 DEF EndOfFile, Leave, MovedInv, seekVars, commVars
<1>9. CASE Put
  BY <1>9 DEF Put, MovedInv, seekVars, readVars, commVars
<1>. QED BY <1>0, <1>1, <1>2, <1>3, <1>4, <1>5, <1>6, <1>7, <1>8, <1>9,
     TakeMoveMoved DEF Demuxer

(* So every step keeps it.                                                  *)
LEMMA MovedStep ==
  ASSUME MovedInv, [Next]_vars
  PROVE  MovedInv'
<1>1. CASE UNCHANGED vars
  BY <1>1 DEF vars, MovedInv, seekVars, readVars, commVars, history
<1>. QED BY <1>1, CommandMoved, DemuxerMoved DEF Next, Ended

(* Only MoveIndex looks a frame up, and stores what it found.              *)
LEMMA LookedUpStep ==
  ASSUME LookedUpInv, [Next]_vars
  PROVE  LookedUpInv'
<1>. USE DEF LookedUpInv, AskedFile
<1>1. CASE \E sec \in Seconds : MoveIndex(sec)
  BY <1>1 DEF MoveIndex
<1>2. CASE MoveTorn \/ MoveFrame \/ MoveFlag
  BY <1>2 DEF MoveTorn, MoveFrame, MoveFlag, seekVars
<1>3. CASE SetReverse \/ SetPause \/ Resume
  BY <1>3 DEF SetReverse, SetPause, Resume, seekVars
<1>4. CASE Demuxer
  BY <1>4 DEF Demuxer, LoadFiles, OpenFile, TakeMove, NoMove, SeekFrame, SeekServed, Forward,
     Reverse, ReadFrame, EndOfFile, Put, seekVars, commVars
<1>5. CASE UNCHANGED vars
  BY <1>5 DEF vars, seekVars, commVars
<1>. QED BY <1>1, <1>2, <1>3, <1>4, <1>5 DEF Next, Command, Ended

(* SetMoveSec looks the file up, stores the frame, then the flag. SeekFrame *)
(* clears the frame only when none of it is pending, or loses it.            *)
LEMMA StoredStep ==
  ASSUME TypeOK, LoadInv, StoredInv, [Next]_vars
  PROVE  StoredInv'
<1>1. CASE \E sec \in Seconds : MoveIndex(sec)
  <2>. SUFFICES ASSUME NEW sec \in Seconds, MoveIndex(sec) PROVE StoredInv'
    BY <1>1
  <2>. USE PlaylistAssumption
  <2>1. c_frame' = sec * Fps /\ sec * Fps \in Nat
    BY DEF MoveIndex
  <2>2. ~lost' => c_frame' # 0 /\ Loaded
    BY Zenon DEF MoveIndex
  <2>3. c_pc' = "frame" /\ (Loaded => m_nMoveIdx' = FindFileIndexFromFrame(c_frame'))
    BY DEF MoveIndex
  <2>. QED BY <2>1, <2>2, <2>3 DEF StoredInv
<1>2. CASE MoveTorn
  BY <1>2 DEF MoveTorn, TypeOK, LoadInv, Loaded, StoredInv, Pending, seekVars, reverseVars,
       readVars, commVars, history
<1>3. CASE MoveFrame
  BY <1>3 DEF MoveFrame, TypeOK, LoadInv, Loaded, StoredInv, Pending, seekVars, reverseVars,
       readVars, commVars, history
<1>4. CASE MoveFlag
  BY <1>4 DEF MoveFlag, TypeOK, LoadInv, Loaded, StoredInv, Pending, seekVars, reverseVars,
       readVars, commVars, history
<1>5. CASE SetReverse
  BY <1>5 DEF SetReverse, TypeOK, LoadInv, Loaded, StoredInv, Pending, seekVars, reverseVars,
       readVars, commVars, history
<1>6. CASE SetPause
  BY <1>6 DEF SetPause, TypeOK, LoadInv, Loaded, StoredInv, Pending, seekVars, reverseVars,
       readVars, commVars, history
<1>7. CASE Resume
  BY <1>7 DEF Resume, TypeOK, LoadInv, Loaded, StoredInv, Pending, seekVars, reverseVars,
       readVars, commVars, history
<1>8. CASE LoadFiles
  BY <1>8 DEF LoadFiles, Loaded, TypeOK, LoadInv, Loaded, StoredInv, Pending, seekVars,
       reverseVars, readVars, commVars, history
<1>9. CASE OpenFile
  BY <1>9 DEF OpenFile, TypeOK, LoadInv, Loaded, StoredInv, Pending, seekVars, reverseVars,
       readVars, commVars, history
<1>10. CASE TakeMove
  BY <1>10 DEF TakeMove, Leave, StoredInv, commVars
<1>11. CASE NoMove
  BY <1>11 DEF NoMove, TypeOK, LoadInv, Loaded, StoredInv, Pending, seekVars, reverseVars,
       readVars, commVars, history
<1>12. CASE SeekFrame
  BY <1>12 DEF SeekFrame, SeekPoint, TypeOK, LoadInv, Loaded, StoredInv, Pending, seekVars,
       reverseVars, readVars, commVars, history
<1>13. CASE SeekServed
  BY <1>13 DEF SeekServed, TypeOK, LoadInv, Loaded, StoredInv, Pending, seekVars, reverseVars,
       readVars, commVars, history
<1>14. CASE Forward
  BY <1>14 DEF Forward, TypeOK, LoadInv, Loaded, StoredInv, Pending, seekVars, reverseVars,
       readVars, commVars, history
<1>15. CASE Reverse
  BY <1>15 DEF Reverse, Leave, TypeOK, LoadInv, Loaded, StoredInv, Pending, seekVars,
       reverseVars, readVars, commVars, history
<1>16. CASE ReadFrame
  BY <1>16 DEF ReadFrame, TypeOK, LoadInv, Loaded, StoredInv, Pending, seekVars, reverseVars,
       readVars, commVars, history
<1>17. CASE EndOfFile
  BY <1>17 DEF EndOfFile, Leave, TypeOK, LoadInv, Loaded, StoredInv, Pending, seekVars,
       reverseVars, readVars, commVars, history
<1>18. CASE Put
  BY <1>18 DEF Put, TypeOK, LoadInv, Loaded, StoredInv, Pending, seekVars, reverseVars,
       readVars, commVars, history
<1>19. CASE UNCHANGED vars
  BY <1>19 DEF vars, TypeOK, LoadInv, Loaded, StoredInv, Pending, seekVars, reverseVars,
       readVars, commVars, history
<1>. QED BY <1>1, <1>2, <1>3, <1>4, <1>5, <1>6, <1>7, <1>8, <1>9, <1>10, <1>11, <1>12,
            <1>13, <1>14, <1>15, <1>16, <1>17, <1>18, <1>19 DEF Next, Command, Demuxer, Ended

(* A play_seek on its way. Only taking the move brings it there; SeekFrame  *)
(* then lands in the window; what is put after it follows from there.       *)
LEMMA TakenStep ==
  ASSUME IInv, [Next]_vars
  PROVE  TakenInv'
<1>. USE DEF IInv
<1>1. CASE \E sec \in Seconds : MoveIndex(sec)
  BY <1>1 DEF MoveIndex, Taken, TakenInv
<1>2. CASE MoveTorn
  BY <1>2 DEF MoveTorn, Taken, TakenInv
<1>3. CASE MoveFrame
  BY <1>3 DEF MoveFrame, Taken, TakenInv
<1>4. CASE MoveFlag
  BY <1>4 DEF MoveFlag, Taken, TakenInv
<1>5. CASE SetReverse
  BY <1>5 DEF SetReverse, TakenInv, Taken, Heading, Serving, Window, seekVars, reverseVars,
       readVars, commVars, history
<1>6. CASE SetPause
  BY <1>6 DEF SetPause, TakenInv, Taken, Heading, Serving, Window, seekVars, reverseVars,
       readVars, commVars, history
<1>7. CASE Resume
  BY <1>7 DEF Resume, TakenInv, Taken, Heading, Serving, Window, seekVars, reverseVars,
       readVars, commVars, history
<1>8. CASE LoadFiles
  BY <1>8 DEF LoadFiles, LoadInv, Loaded, Taken, TakenInv, commVars, history, seekVars
<1>9. CASE OpenFile
  BY <1>9 DEF OpenFile, TakenInv, Taken, Heading, Serving, Window, seekVars, reverseVars,
       readVars, commVars, history
<1>10. CASE TakeMove
  <2>1. CASE d_pc = "move"
    BY <1>10, <2>1 DEF TakeMove, TakenInv, Taken, Heading, StoredInv, TypeOK, commVars
  <2>2. CASE d_pc = "index"
    BY <1>10, <2>2 DEF TakeMove, Leave, TakenInv, Taken, Heading, StoredInv, TypeOK, commVars
  <2>. QED BY <1>10, <2>1, <2>2 DEF TakeMove
<1>11. CASE NoMove
  BY <1>11 DEF NoMove, TypeOK, TakenInv, Taken, Heading, Serving, Window, seekVars,
       reverseVars, readVars, commVars, history
<1>12. CASE SeekFrame
  <2>. SUFFICES ASSUME Taken PROVE TakenInv'
    BY <1>12 DEF SeekFrame, Taken, TakenInv, seekVars, commVars
  <2>. USE PlaylistAssumption
  <2>1. /\ i \in Files /\ Length[i] > 0 /\ First[i] \in Nat /\ First[i + 1] \in Nat
        /\ Last(i) = First[i + 1] - 1 /\ First[i + 1] > First[i] /\ pos = First[i]
        /\ m_nSeekFrame = c_frame /\ c_frame \in Nat /\ c_frame > 0
        /\ cause \in {"move", "moveBack"} /\ m_nMoveIdx = FindFileIndexFromFrame(c_frame)
    BY <1>12, FileFacts DEF TypeOK, OpenInv, Opened, SeekFrame, Taken, TakenInv, Heading,
         StoredInv
  <2>2. (cause = "move" => i = m_nMoveIdx) /\ (cause = "moveBack" => i = m_nMoveIdx + 1)
    BY <1>12 DEF MovedInv, Taken, SeekFrame
  <2>3. m_seek_pts' = Aim(c_frame) /\ Aim(c_frame) \in Nat /\ Aim(c_frame) <= c_frame
        /\ Aim(c_frame) >= c_frame - (Fps \div 2)
    BY <1>12, <2>1 DEF SeekFrame, SeekPoint, Aim
  <2>4. Aim(c_frame) = SeekPoint
    BY <2>1 DEF SeekPoint, Aim
  <2>5. Aim(c_frame) <= Last(i) /\ (cause = "move" => First[i] <= c_frame)
    <3>1. CASE cause = "move"
      <4>1. First[i] <= c_frame /\ c_frame < First[i + 1]
        BY <2>1, <2>2, <3>1, FindDef
      <4>. QED BY <2>1, <2>3, <4>1
    <3>2. CASE cause = "moveBack"
      <4>1. m_nMoveIdx \in Files /\ i = m_nMoveIdx + 1
        BY <2>1, <2>2, <3>2, FindDef DEF Files
      <4>2. c_frame < First[i]
        BY <2>1, <4>1, FindDef
      <4>. QED BY <2>1, <2>3, <3>2, <4>2
    <3>. QED BY <2>1, <3>1, <3>2
  <2>6. pos' \in First[i] .. Last(i) /\ pos' > Aim(c_frame) - Gop
        /\ (cause = "move" => pos' <= c_frame)
    <3>1. CASE Aim(c_frame) < First[i]
      <4>1. pos' = First[i]
        BY <1>12, <2>1, <2>4, <3>1 DEF SeekFrame
      <4>. QED BY <2>1, <2>3, <2>5, <3>1, <4>1
    <3>2. CASE Aim(c_frame) >= First[i]
      <4>1. pos' = Keyframe(i, Aim(c_frame))
        BY <1>12, <2>1, <2>3, <2>4, <3>2 DEF SeekFrame
      <4>2. /\ Keyframe(i, Aim(c_frame)) \in First[i] .. Last(i)
            /\ Keyframe(i, Aim(c_frame)) <= Aim(c_frame)
            /\ Keyframe(i, Aim(c_frame)) > Aim(c_frame) - Gop
        BY <2>1, <2>3, <2>5, <3>2, KeyframeDef
      <4>. QED BY <2>1, <2>3, <4>1, <4>2
    <3>. QED BY <2>1, <2>3, <3>1, <3>2
  <2>7. Window(pos)'
    BY <1>12, <2>1, <2>3, <2>6 DEF Window, SeekFrame, commVars
  <2>8. /\ d_pc' = "served" /\ next' = -1 /\ turned' = FALSE /\ cause' = cause /\ i' = i
        /\ c_frame' = c_frame /\ m_nSeekFrame' = m_nSeekFrame
    BY <1>12 DEF SeekFrame, seekVars, commVars
  <2>9. Serving'
    BY <2>1, <2>3, <2>6, <2>7, <2>8 DEF Serving, Last
  <2>. QED BY <2>1, <2>8, <2>9 DEF TakenInv
<1>13. CASE SeekServed
  BY <1>13 DEF SeekServed, TakenInv, Taken, Heading, Serving, Window, seekVars, reverseVars,
       readVars, commVars, history
<1>14. CASE Forward
  BY <1>14 DEF Forward, TakenInv, Taken, Heading, Serving, Window, seekVars, reverseVars,
       readVars, commVars, history
<1>15. CASE Reverse
  BY <1>15 DEF Reverse, Leave, Taken, TakenInv, Serving, seekVars, commVars
<1>16. CASE ReadFrame
  BY <1>16 DEF ReadFrame, Taken, TakenInv, Serving, Window, seekVars, commVars, history
<1>17. CASE EndOfFile
  <2>1. i \in Files /\ Last(i) \in Int /\ pos \in Int
    BY <1>17, FileFacts DEF EndOfFile, TypeOK
  <2>2. Taken => m_nSeekFrame = 0 /\ Serving /\ (next # -1 \/ turned)
    BY <1>17, <2>1 DEF EndOfFile, TakenInv, Serving
  <2>. QED BY <1>17, <2>2 DEF EndOfFile, Leave, Taken, TakenInv, Serving, seekVars, commVars
<1>18. CASE Put
  <2>1. pkt \in Nat /\ Gop \in Int /\ m_seek_pts \in Nat
    BY PlaylistAssumption DEF TypeOK
  <2>2. Taken => m_nSeekFrame = 0 /\ Serving
    BY <1>18 DEF Put, TakenInv
  <2>3. Taken /\ ~turned => pkt > m_seek_pts - Gop
    BY <1>18, <2>2 DEF Put, Serving, Window, FollowInv
  <2>. QED BY <1>18, <2>1, <2>2, <2>3 DEF Put, Taken, TakenInv, Serving, seekVars, commVars,
       readVars
<1>19. CASE UNCHANGED vars
  BY <1>19 DEF vars, TakenInv, Taken, Heading, Serving, Window, seekVars, reverseVars,
       readVars, commVars, history
<1>. QED BY <1>1, <1>2, <1>3, <1>4, <1>5, <1>6, <1>7, <1>8, <1>9, <1>10, <1>11, <1>12,
            <1>13, <1>14, <1>15, <1>16, <1>17, <1>18, <1>19 DEF Next, Command, Demuxer, Ended

(* Nothing has been asked for, opened or put at first.                      *)
LEMMA InitIInv == Init => IInv
<1>. SUFFICES ASSUME Init PROVE IInv
  OBVIOUS
<1>. USE PlaylistAssumption
<1>1. TypeOK
  <2>1. /\ m_IsMove \in BOOLEAN /\ m_bIsRerverse \in BOOLEAN /\ m_IsPause \in BOOLEAN
        /\ m_reverse_count \in BOOLEAN /\ lost \in BOOLEAN /\ turned \in BOOLEAN
    BY DEF Init
  <2>2. First[NFiles] \in Nat
    BY FileFacts
  <2>. QED BY <2>1, <2>2 DEF Init, TypeOK
<1>2. LoadInv /\ OpenInv /\ FollowInv /\ BackInv
  BY DEF Init, LoadInv, OpenInv, Opened, FollowInv, BackInv
<1>3. MovedInv /\ LookedUpInv /\ StoredInv /\ TakenInv
  BY InitMoved DEF Init, LookedUpInv, AskedFile, StoredInv, TakenInv, Taken
<1>. QED BY <1>1, <1>2, <1>3 DEF IInv

(* All of it holds in every reachable state.                                *)
THEOREM Invariance == Spec => []IInv
<1>1. IInv /\ [Next]_vars => IInv'
  BY TypeStep, LoadStep, OpenStep, FollowStep, BackStep, MovedStep, LookedUpStep,
     StoredStep, TakenStep
     DEF IInv
<1>. QED BY <1>1, InitIInv, PTL DEF Spec

(* However the stores of SetMoveSec fall between the demuxer's tests, the  *)
(* demuxer ends up in the file that holds the frame asked for last, or, if *)
(* the list of files was not there yet, in the first.                      *)
THEOREM SeekReachesFile == Spec => []RightFile
<1>1. IInv => RightFile
  BY DEF IInv, MovedInv, LookedUpInv, RightFile
<1>. QED BY <1>1, Invariance, PTL

(* FindFileIndexFromFrame finds the file that holds a frame, no index       *)
(* leaves its range, and after a play_seek that was served the clock the    *)
(* sender is given is not a group of pictures ahead of what is put.         *)
THEOREM DemuxerStands == Spec => []Position
<1>1. IInv => ClockNotAhead
  <2>. SUFFICES ASSUME IInv, d_pc = "put", Settled PROVE pkt > m_seek_pts - Gop
    BY DEF ClockNotAhead
  <2>1. Taken /\ ~turned
    BY DEF Settled, Pending, Taken
  <2>2. m_nSeekFrame = 0 /\ Serving
    BY <2>1 DEF IInv, TakenInv
  <2>. QED BY <2>1, <2>2 DEF IInv, Serving, Window, FollowInv
<1>2. IInv => Position
  BY <1>1, FindsEveryFile DEF IInv, Position
<1>. QED BY <1>2, Invariance, PTL

(* A play_seek that was served undisturbed plays on from no more than half  *)
(* a second and a group of pictures before the frame asked for, and not     *)
(* from behind it, wherever in the recording that is.                       *)
THEOREM SeekLands == Spec => []Landed
<1>1. IInv => Landed
  <2>. SUFFICES ASSUME IInv, d_pc = "put", Settled, next = -1
                PROVE  pkt \in c_frame - (Fps \div 2) - Gop + 1 .. c_frame
    BY DEF Landed
  <2>1. Taken /\ ~turned /\ cause \in {"move", "next"}
    BY DEF Settled, Pending, Taken
  <2>2. m_nSeekFrame = 0 /\ Serving
    BY <2>1 DEF IInv, TakenInv
  <2>. QED BY <2>1, <2>2 DEF Serving, Window
<1>. QED BY <1>1, Invariance, PTL

(* Forward play neither skips nor repeats a frame, and reverse play never   *)
(* goes forward, across the files of the recording.                         *)
THEOREM FramesFollow == Spec => []InSequence
<1>1. IInv => InSequence
  BY DEF IInv, FollowInv, BackInv, InSequence, NoGap, NeverForward
<1>. QED BY <1>1, Invariance, PTL
=============================================================================
