--------------------------- MODULE Recovery_proofs ---------------------------
(***************************************************************************)
(* Theorems about a recovery that runs beside the other requests.          *)
(*                                                                         *)
(* The blocks that were written are always the first of those that are to  *)
(* be written (PartInv), so that a file that is closed has them all        *)
(* (DoneInv), and as many of them were counted as are not holes            *)
(* (CountInv).  What those blocks are is a matter of FlattenSeq, about     *)
(* which the first section is.  Under a careful client the composition     *)
(* implements FileList, whose theorems then hold of it.                    *)
(***************************************************************************)
EXTENDS Recovery, FileList_proofs, NatInduction, SequenceTheorems, FiniteSetTheorems

----------------------------------------------------------------------------
(* FlattenSeq *)

\* The right-hand side of the recursive function in FlattenSeq.
FlattenOf(seqs, F) == [i \in 1 .. Len(seqs) |-> IF i = 1 THEN seqs[i] ELSE F[i - 1] \o seqs[i]]

\* It has a solution, whose values are sequences.
LEMMA FlattenExists ==
    ASSUME NEW S, NEW seqs \in Seq(Seq(S))
    PROVE  \E F \in [1 .. Len(seqs) -> Seq(S)] : F = FlattenOf(seqs, F)
<1> DEFINE n == Len(seqs)
           Upto(k) == {F \in [1 .. k -> Seq(S)] :
                          \A i \in 1 .. k : F[i] = IF i = 1 THEN seqs[i] ELSE F[i - 1] \o seqs[i]}
           T == {k \in Nat : k <= n => Upto(k) # {}}
<1>1. 0 \in T
    <2>1. [i \in 1 .. 0 |-> <<>>] \in Upto(0)
        OBVIOUS
    <2> QED
        BY <2>1
<1>2. ASSUME NEW k \in Nat, k \in T PROVE k + 1 \in T
    <2> SUFFICES ASSUME k + 1 <= n PROVE Upto(k + 1) # {}
        <3> HIDE DEF Upto
        <3> QED
            OBVIOUS
    <2>1. PICK F \in [1 .. k -> Seq(S)] :
             \A i \in 1 .. k : F[i] = IF i = 1 THEN seqs[i] ELSE F[i - 1] \o seqs[i]
        <3>1. Upto(k) # {}
            <4> HIDE DEF Upto
            <4> QED
                BY <1>2
        <3> QED
            BY <3>1
    <2> DEFINE next == IF k = 0 THEN seqs[1] ELSE F[k] \o seqs[k + 1]
               G == [i \in 1 .. k + 1 |-> IF i <= k THEN F[i] ELSE next]
    <2>2. seqs[k + 1] \in Seq(S)
        OBVIOUS
    <2>3. next \in Seq(S)
        BY <2>1, <2>2
    <2> HIDE DEF next
    <2>4. G \in [1 .. k + 1 -> Seq(S)]
        BY <2>1, <2>3
    <2>5. ASSUME NEW i \in 1 .. k + 1 PROVE G[i] = IF i = 1 THEN seqs[i] ELSE G[i - 1] \o seqs[i]
        <3>1. CASE i <= k
            <4>1. G[i] = F[i] /\ i \in 1 .. k
                BY <3>1
            <4>2. i # 1 => G[i - 1] = F[i - 1]
                BY <3>1
            <4> HIDE DEF G
            <4> QED
                BY <2>1, <4>1, <4>2
        <3>2. CASE i = k + 1
            <4>1. G[i] = next
                BY <3>2
            <4>2. k # 0 => G[i - 1] = F[k]
                BY <3>2
            <4> HIDE DEF G
            <4> QED
                BY <3>2, <4>1, <4>2 DEF next
        <3> HIDE DEF G
        <3> QED
            BY <2>5, <3>1, <3>2
    <2>6. G \in Upto(k + 1)
        <3> HIDE DEF G
        <3> QED
            BY <2>4, <2>5
    <2> QED
        BY <2>6
<1>3. Nat \subseteq T
    <2> HIDE DEF T
    <2> QED
        BY <1>1, <1>2, NatSet
<1>4. Upto(n) # {}
    <2> HIDE DEF Upto
    <2> QED
        BY <1>3
<1>5. PICK F \in [1 .. n -> Seq(S)] :
         \A i \in 1 .. n : F[i] = IF i = 1 THEN seqs[i] ELSE F[i - 1] \o seqs[i]
    BY <1>4
<1>6. F = FlattenOf(seqs, F)
    BY <1>5 DEF FlattenOf
<1> QED
    BY <1>6

\* A sequence is flat after its first k parts were put together.
Flat(seqs, F) ==
    /\ F[1] = seqs[1]
    /\ \A i \in 1 .. Len(seqs) - 1 : F[i + 1] = F[i] \o seqs[i + 1]

\* So FlattenSeq puts them together one by one.
LEMMA FlattenByParts ==
    ASSUME NEW S, NEW seqs \in Seq(Seq(S)), Len(seqs) > 0
    PROVE  \E F \in [1 .. Len(seqs) -> Seq(S)] : Flat(seqs, F) /\ FlattenSeq(seqs) = F[Len(seqs)]
<1> DEFINE F == CHOOSE f : f = FlattenOf(seqs, f)
           n == Len(seqs)
<1>1. n \in Nat /\ n > 0
    OBVIOUS
<1>2. PICK G \in [1 .. n -> Seq(S)] : G = FlattenOf(seqs, G)
    BY FlattenExists
<1>3. F = FlattenOf(seqs, F)
    BY <1>2
<1>4. FlattenSeq(seqs) = F[n]
    BY <1>1 DEF FlattenSeq, FlattenOf
<1> HIDE DEF F
<1>5. Flat(seqs, F)
    <2>1. F[1] = seqs[1]
        BY <1>1, <1>3 DEF FlattenOf
    <2>2. ASSUME NEW i \in 1 .. n - 1 PROVE F[i + 1] = F[i] \o seqs[i + 1]
        <3>1. i + 1 \in 1 .. n /\ i + 1 # 1 /\ (i + 1) - 1 = i
            BY <1>1
        <3> QED
            BY <1>3, <3>1 DEF FlattenOf
    <2> QED
        BY <2>1, <2>2 DEF Flat
<1>6. \A i \in 1 .. n : F[i] \in Seq(S)
    <2> DEFINE T == {k \in Nat : k + 1 <= n => F[k + 1] \in Seq(S)}
    <2>1. 0 \in T
        BY <1>1, <1>5 DEF Flat
    <2>2. ASSUME NEW k \in Nat, k \in T PROVE k + 1 \in T
        <3> SUFFICES ASSUME (k + 1) + 1 <= n PROVE F[(k + 1) + 1] \in Seq(S)
            OBVIOUS
        <3>1. k + 1 \in 1 .. n - 1 /\ (k + 1) + 1 \in 1 .. n
            OBVIOUS
        <3>2. F[k + 1] \in Seq(S) /\ seqs[(k + 1) + 1] \in Seq(S)
            BY <2>2, <3>1
        <3>3. F[(k + 1) + 1] = F[k + 1] \o seqs[(k + 1) + 1]
            BY <1>5, <3>1 DEF Flat
        <3> QED
            BY <3>2, <3>3
    <2>3. Nat \subseteq T
        <3> HIDE DEF T
        <3> QED
            BY <2>1, <2>2, NatSet
    <2>4. ASSUME NEW i \in 1 .. n PROVE F[i] \in Seq(S)
        <3>1. i - 1 \in Nat /\ (i - 1) + 1 = i /\ i <= n
            BY <1>1
        <3>2. i - 1 \in T
            BY <2>3, <3>1
        <3> QED
            BY <3>1, <3>2
    <2> QED
        BY <2>4
<1>7. F \in [1 .. n -> Seq(S)]
    <2>1. F = [i \in 1 .. n |-> F[i]]
        BY <1>3 DEF FlattenOf
    <2> QED
        BY <1>6, <2>1
<1> QED
    BY <1>4, <1>5, <1>7

\* The parts of sequences make a sequence.
LEMMA FlattenType ==
    ASSUME NEW S, NEW seqs \in Seq(Seq(S))
    PROVE  FlattenSeq(seqs) \in Seq(S)
<1>1. CASE Len(seqs) = 0
    <2>1. FlattenSeq(seqs) = seqs
        BY <1>1 DEF FlattenSeq
    <2>2. seqs = <<>>
        BY <1>1
    <2> QED
        BY <2>1, <2>2
<1>2. CASE Len(seqs) > 0
    <2>1. PICK F \in [1 .. Len(seqs) -> Seq(S)] : FlattenSeq(seqs) = F[Len(seqs)]
        BY <1>2, FlattenByParts
    <2>2. Len(seqs) \in 1 .. Len(seqs)
        BY <1>2
    <2> QED
        BY <2>1, <2>2
<1>3. Len(seqs) \in Nat
    OBVIOUS
<1> QED
    BY <1>1, <1>2, <1>3

\* The blocks to write, w, are those of an image of the stream.
IsImage(w, image) == Len(w) = Len(image) /\ \A k \in 1 .. Len(image) : w[k].block = image[k]

LEMMA ImageConcat ==
    ASSUME NEW A, NEW S, NEW v \in Seq(A), NEW w \in Seq(A), NEW x \in Seq(S), NEW y \in Seq(S),
           IsImage(v, x), IsImage(w, y)
    PROVE  IsImage(v \o w, x \o y)
<1>1. Len(v \o w) = Len(v) + Len(w) /\ Len(x \o y) = Len(x) + Len(y)
    OBVIOUS
<1>2. Len(v) = Len(x) /\ Len(w) = Len(y) /\ Len(x) \in Nat /\ Len(y) \in Nat
    BY DEF IsImage
<1>3. ASSUME NEW k \in 1 .. Len(x) + Len(y) PROVE (v \o w)[k].block = (x \o y)[k]
    <2>1. CASE k <= Len(x)
        <3>1. k \in 1 .. Len(x) /\ (v \o w)[k] = v[k] /\ (x \o y)[k] = x[k]
            BY <1>2, <1>3, <2>1
        <3> QED
            BY <3>1 DEF IsImage
    <2>2. CASE k > Len(x)
        <3>1. k - Len(x) \in 1 .. Len(y)
            BY <1>2, <1>3, <2>2
        <3>2. (v \o w)[k] = w[k - Len(x)] /\ (x \o y)[k] = y[k - Len(x)]
            BY <1>2, <1>3, <2>2
        <3> QED
            BY <3>1, <3>2 DEF IsImage
    <2> QED
        BY <1>2, <1>3, <2>1, <2>2
<1> QED
    BY <1>1, <1>2, <1>3 DEF IsImage

\* If each part is an image, so is the whole.
LEMMA FlattenImage ==
    ASSUME NEW A, NEW S, NEW ws \in Seq(Seq(A)), NEW xs \in Seq(Seq(S)), Len(ws) = Len(xs),
           \A i \in 1 .. Len(xs) : IsImage(ws[i], xs[i])
    PROVE  IsImage(FlattenSeq(ws), FlattenSeq(xs))
<1>1. CASE Len(xs) = 0
    <2>1. FlattenSeq(ws) = <<>> /\ FlattenSeq(xs) = <<>>
        BY <1>1 DEF FlattenSeq
    <2> QED
        BY <2>1 DEF IsImage
<1>2. CASE Len(xs) > 0
    <2> DEFINE n == Len(xs)
    <2>1. n \in Nat /\ n > 0
        BY <1>2
    <2>2. PICK F \in [1 .. n -> Seq(A)] : Flat(ws, F) /\ FlattenSeq(ws) = F[n]
        BY <1>2, FlattenByParts
    <2>3. PICK G \in [1 .. n -> Seq(S)] : Flat(xs, G) /\ FlattenSeq(xs) = G[n]
        BY <1>2, FlattenByParts
    <2> DEFINE T == {k \in Nat : k + 1 <= n => IsImage(F[k + 1], G[k + 1])}
    <2>4. 0 \in T
        <3>1. 1 \in 1 .. n /\ F[1] = ws[1] /\ G[1] = xs[1]
            BY <2>1, <2>2, <2>3 DEF Flat
        <3> QED
            BY <3>1
    <2>5. ASSUME NEW k \in Nat, k \in T PROVE k + 1 \in T
        <3> SUFFICES ASSUME (k + 1) + 1 <= n PROVE IsImage(F[(k + 1) + 1], G[(k + 1) + 1])
            OBVIOUS
        <3>1. k + 1 \in 1 .. n - 1 /\ k + 1 \in 1 .. n /\ (k + 1) + 1 \in 1 .. n
            BY <2>1
        <3>2. IsImage(F[k + 1], G[k + 1]) /\ IsImage(ws[(k + 1) + 1], xs[(k + 1) + 1])
            BY <2>5, <3>1
        <3>3. F[(k + 1) + 1] = F[k + 1] \o ws[(k + 1) + 1] /\ G[(k + 1) + 1] = G[k + 1] \o xs[(k + 1) + 1]
            BY <2>2, <2>3, <3>1 DEF Flat
        <3>4. /\ F[k + 1] \in Seq(A) /\ ws[(k + 1) + 1] \in Seq(A)
              /\ G[k + 1] \in Seq(S) /\ xs[(k + 1) + 1] \in Seq(S)
            <4>1. \A i \in 1 .. n : ws[i] \in Seq(A) /\ xs[i] \in Seq(S)
                OBVIOUS
            <4>2. \A i \in 1 .. n : F[i] \in Seq(A) /\ G[i] \in Seq(S)
                BY <2>2, <2>3
            <4> QED
                BY <3>1, <4>1, <4>2
        <3>5. PICK v \in Seq(A), w \in Seq(A), x \in Seq(S), y \in Seq(S) :
                 v = F[k + 1] /\ w = ws[(k + 1) + 1] /\ x = G[k + 1] /\ y = xs[(k + 1) + 1]
            BY <3>4
        <3>6. IsImage(v \o w, x \o y)
            BY <3>2, <3>5, ImageConcat
        <3> QED
            BY <3>3, <3>5, <3>6
    <2>6. Nat \subseteq T
        <3> HIDE DEF T
        <3> QED
            BY <2>4, <2>5, NatSet
    <2>7. n - 1 \in T /\ (n - 1) + 1 = n
        <3> HIDE DEF T
        <3> QED
            BY <2>1, <2>6
    <2>8. IsImage(F[n], G[n])
        BY <2>1, <2>7
    <2> QED
        BY <2>2, <2>3, <2>8
<1>3. Len(xs) \in Nat
    OBVIOUS
<1> QED
    BY <1>1, <1>2, <1>3

----------------------------------------------------------------------------
(* What undelete_file writes for a stream *)

Block == Clusters \cup {0}
Piece == [block : Block, counted : BOOLEAN]

LEMMA StreamTypes ==
    ASSUME NEW s \in Streams
    PROVE  /\ s.runlist \in Seq(Runs)
           /\ \A n \in DOMAIN s.runlist : s.runlist[n].blocks \in Seq(Block)
           /\ DOMAIN s.runlist = 1 .. Len(s.runlist)
<1>1. s.runlist \in Seq(Runs)
    BY DEF Streams
<1>2. ASSUME NEW r \in Seq(Runs), NEW n \in DOMAIN r PROVE r[n].blocks \in Seq(Block)
    <2>1. r[n] \in Runs
        BY <1>2
    <2> QED
        BY <2>1 DEF Runs, Block
<1> QED
    BY <1>1, <1>2

\* The blocks of a run, as they are written.
LEMMA RunImage ==
    ASSUME NEW r, r.blocks \in Seq(Block), NEW c \in BOOLEAN
    PROVE  Blocks_Of_Run(r, c) \in Seq(Piece) /\ IsImage(Blocks_Of_Run(r, c), r.blocks)
<1>1. PICK bs \in Seq(Block) : bs = r.blocks
    OBVIOUS
<1> DEFINE w == [k \in DOMAIN bs |-> [block |-> bs[k], counted |-> c]]
<1>2. Blocks_Of_Run(r, c) = w
    BY <1>1 DEF Blocks_Of_Run
<1>3. DOMAIN bs = 1 .. Len(bs) /\ Len(bs) \in Nat
    OBVIOUS
<1>4. \A k \in 1 .. Len(bs) : [block |-> bs[k], counted |-> c] \in Piece
    BY DEF Piece
<1>5. w \in Seq(Piece) /\ Len(w) = Len(bs) /\ \A k \in 1 .. Len(bs) : w[k].block = bs[k]
    BY <1>3, <1>4
<1> HIDE DEF w
<1> QED
    BY <1>1, <1>2, <1>5 DEF IsImage

\* The loop over the runs writes all their blocks, in order.
LEMMA LoopImage ==
    ASSUME NEW s \in Streams
    PROVE  LET w == FlattenSeq([i \in DOMAIN s.runlist |->
                                   Blocks_Of_Run(s.runlist[i], s.runlist[i].of # "hole")])
           IN  w \in Seq(Piece) /\ Blocks(s.runlist) \in Seq(Block) /\ IsImage(w, Blocks(s.runlist))
<1> DEFINE ws == [i \in DOMAIN s.runlist |-> Blocks_Of_Run(s.runlist[i], s.runlist[i].of # "hole")]
           xs == [i \in DOMAIN s.runlist |-> s.runlist[i].blocks]
<1>1. s.runlist \in Seq(Runs) /\ DOMAIN s.runlist = 1 .. Len(s.runlist) /\ Len(s.runlist) \in Nat
    BY StreamTypes
<1>2. \A i \in DOMAIN s.runlist : s.runlist[i].blocks \in Seq(Block)
    BY StreamTypes
<1>3. \A i \in DOMAIN s.runlist :
         /\ Blocks_Of_Run(s.runlist[i], s.runlist[i].of # "hole") \in Seq(Piece)
         /\ IsImage(Blocks_Of_Run(s.runlist[i], s.runlist[i].of # "hole"), s.runlist[i].blocks)
    BY <1>2, RunImage
<1>4. ws \in Seq(Seq(Piece)) /\ xs \in Seq(Seq(Block)) /\ Len(ws) = Len(xs) /\ Len(xs) = Len(s.runlist)
    BY <1>1, <1>2, <1>3
<1>5. \A i \in 1 .. Len(xs) : IsImage(ws[i], xs[i])
    BY <1>1, <1>3, <1>4
<1>6. Blocks(s.runlist) = FlattenSeq(xs)
    BY DEF Blocks
<1> HIDE DEF ws, xs
<1>7. /\ FlattenSeq(ws) \in Seq(Piece) /\ FlattenSeq(xs) \in Seq(Block)
      /\ IsImage(FlattenSeq(ws), FlattenSeq(xs))
    BY <1>4, <1>5, FlattenType, FlattenImage
<1> QED
    BY <1>6, <1>7 DEF ws

\* A sequence that has the blocks of an image at its end has it as a suffix.
LEMMA ImageSuffix ==
    ASSUME NEW S, NEW bs \in Seq(S), NEW image \in Seq(S), NEW d \in Nat,
           Len(bs) = d + Len(image), \A k \in 1 .. Len(image) : bs[d + k] = image[k]
    PROVE  IsSuffix(image, bs)
<1> DEFINE m == Len(image)
           r == Reverse(image)
           t == Reverse(bs)
<1>1. m \in Nat /\ Len(bs) = d + m
    OBVIOUS
<1>2. r = [i \in 1 .. m |-> image[(m - i) + 1]] /\ t = [i \in 1 .. d + m |-> bs[((d + m) - i) + 1]]
    BY <1>1 DEF Reverse
<1>3. \A i \in 1 .. m : (m - i) + 1 \in 1 .. m /\ ((d + m) - i) + 1 = d + ((m - i) + 1)
    BY <1>1
<1>4. r \in Seq(S) /\ Len(r) = m
    BY <1>1, <1>2, <1>3
<1>5. t \in Seq(S) /\ Len(t) = d + m
    <2>1. \A i \in 1 .. d + m : ((d + m) - i) + 1 \in 1 .. d + m
        BY <1>1
    <2> QED
        BY <1>1, <1>2, <2>1
<1>6. \A i \in 1 .. m : r[i] = t[i]
    BY <1>1, <1>2, <1>3
<1> HIDE DEF r, t
<1>7. SubSeq(r, 1, m) = [i \in 1 .. m |-> r[i]] /\ SubSeq(t, 1, m) = [i \in 1 .. m |-> t[i]]
    BY <1>1, <1>4, <1>5
<1> QED
    BY <1>1, <1>4, <1>5, <1>6, <1>7 DEF IsSuffix, IsPrefix, r, t

\* A sequence of blocks that is the image of all that is written for a stream.
IsFile(bs, s) == bs \in Seq(Block) /\ IsImage(To_Write(s), bs)

LEMMA ToWriteType ==
    ASSUME NEW s \in Streams, HasData(s)
    PROVE  To_Write(s) \in Seq(Piece)
<1>1. CASE s.kind = "resident"
    BY <1>1 DEF To_Write, Piece, Block
<1>2. CASE s.kind # "resident"
    <2>1. s.runlist # <<>> /\ s.runlist \in Seq(Runs)
        BY <1>2, StreamTypes DEF HasData
    <2>2. Head(s.runlist) = s.runlist[1] /\ 1 \in DOMAIN s.runlist
        BY <2>1
    <2>3. Blocks_Of_Run(Head(s.runlist), FALSE) \in Seq(Piece)
        BY <2>2, StreamTypes, RunImage
    <2>4. Beginning(s) \in Seq(Piece)
        <3>1. CASE Head(s.runlist).of = "missing"
            BY <2>3, <3>1 DEF Beginning
        <3>2. CASE Head(s.runlist).of # "missing"
            <4>1. Beginning(s) = <<>>
                BY <3>2 DEF Beginning
            <4> QED
                BY <4>1
        <3> QED
            BY <3>1, <3>2
    <2> QED
        BY <1>2, <2>4, LoopImage DEF To_Write
<1> QED
    BY <1>1, <1>2

\* A file with all that is written for a stream is what SuccessIsComplete asks for.
LEMMA FileIsWhole ==
    ASSUME NEW s \in Streams, HasData(s), s.kind # "resident", NEW bs, IsFile(bs, s)
    PROVE  IF s.runlist[1].of = "missing" THEN IsSuffix(Blocks(s.runlist), bs)
           ELSE bs = Blocks(s.runlist)
<1> DEFINE loop == FlattenSeq([i \in DOMAIN s.runlist |->
                                  Blocks_Of_Run(s.runlist[i], s.runlist[i].of # "hole")])
           image == Blocks(s.runlist)
<1>1. loop \in Seq(Piece) /\ image \in Seq(Block) /\ IsImage(loop, image)
    BY LoopImage
<1>2. s.runlist # <<>> /\ s.runlist \in Seq(Runs) /\ Head(s.runlist) = s.runlist[1] /\ 1 \in DOMAIN s.runlist
    BY StreamTypes DEF HasData
<1>3. To_Write(s) = Beginning(s) \o loop
    BY DEF To_Write
<1>4. bs \in Seq(Block) /\ IsImage(To_Write(s), bs)
    BY DEF IsFile
<1> HIDE DEF loop, image
<1>5. CASE s.runlist[1].of = "missing"
    <2>1. Beginning(s) \in Seq(Piece)
        <3>1. Blocks_Of_Run(Head(s.runlist), FALSE) \in Seq(Piece)
            BY <1>2, StreamTypes, RunImage
        <3> QED
            BY <1>2, <1>5, <3>1 DEF Beginning
    <2>2. PICK d \in Nat : d = Len(Beginning(s))
        BY <2>1
    <2>3. Len(To_Write(s)) = d + Len(loop) /\ \A k \in 1 .. Len(loop) : To_Write(s)[d + k] = loop[k]
        BY <1>1, <1>3, <2>1, <2>2
    <2>4. Len(loop) = Len(image) /\ \A k \in 1 .. Len(image) : loop[k].block = image[k]
        BY <1>1 DEF IsImage
    <2>5. Len(bs) = d + Len(image)
        BY <1>4, <2>3, <2>4 DEF IsImage
    <2>6. ASSUME NEW k \in 1 .. Len(image) PROVE bs[d + k] = image[k]
        <3>1. d + k \in 1 .. Len(bs)
            BY <1>1, <2>2, <2>5, <2>6
        <3> QED
            BY <1>4, <2>3, <2>4, <2>6, <3>1 DEF IsImage
    <2>7. IsSuffix(image, bs)
        BY <1>1, <1>4, <2>5, <2>6, ImageSuffix
    <2> QED
        BY <1>5, <2>7 DEF image
<1>6. CASE s.runlist[1].of # "missing"
    <2>1. Beginning(s) = <<>>
        BY <1>2, <1>6 DEF Beginning
    <2>2. To_Write(s) = loop
        BY <1>1, <1>3, <2>1
    <2>3. Len(bs) = Len(image) /\ \A k \in 1 .. Len(bs) : bs[k] = image[k]
        BY <1>1, <1>4, <2>2 DEF IsImage
    <2>4. bs = image
        BY <1>1, <1>4, <2>3, SeqEqual
    <2> QED
        BY <1>6, <2>4 DEF image
<1> QED
    BY <1>5, <1>6

----------------------------------------------------------------------------
(* A file that was recovered is whole *)

\* The first blocks of what is written for a stream.
IsPart(w, bs, n) ==
    /\ bs \in Seq(Block) /\ Len(bs) = n
    /\ n \in 0 .. Len(w) /\ \A k \in 1 .. n : w[k].block = bs[k]

\* Where undelete_file is when it is about to execute its next statement, and which streams it has
\* written until then.
StepInv ==
    /\ step \in {"none", "read_record", "stream", "write", "end"}
    /\ step # "none" => record \in Records
    /\ item \in Nat \ {0}
    /\ step \in {"none", "read_record"} => item = 1
    /\ step # "write" => done = 0 \/ step = "end"
    /\ step \in {"none", "read_record", "stream"} => written = <<>> /\ done = 0
    /\ step = "write" => item <= Len(record) /\ HasData(Current)

PartInv == step = "write" => unnoticed \/ IsPart(To_Write(Current), written, done)

DoneInv ==
    \A n \in 1 .. Len(record) : (n < item /\ HasData(record[n])) =>
        n \in DOMAIN files /\ (unnoticed \/ IsFile(files[n].blocks, record[n]))

ResultInv == result = 0 => step = "end" /\ item > Len(record)

UndeleteInv == StepInv /\ unnoticed \in BOOLEAN /\ PartInv /\ DoneInv /\ ResultInv

\* The steps of Undelete, whoever takes them.
UndeleteNext ==
    \/ \E r \in Records, used \in SUBSET Clusters : Ask(r, used)
    \/ Volume_Changes
    \/ Undelete_File
    \/ Answer

LEMMA UndeleteSteps == RecoveryNext => [UndeleteNext]_undelete_vars
BY DEF RecoveryNext, Recover, Read_Volume, UndeleteNext

LEMMA RecordStreams ==
    ASSUME NEW r \in Records
    PROVE  /\ Len(r) \in Nat \ {0} /\ DOMAIN r = 1 .. Len(r)
           /\ \A n \in 1 .. Len(r) : r[n] \in Streams
<1>1. r \in Seq(Streams) /\ r # <<>>
    BY UndeleteAssumption
<1> QED
    BY <1>1

LEMMA UndeleteInit == Idle => UndeleteInv
<1> SUFFICES ASSUME Idle PROVE UndeleteInv
    OBVIOUS
<1>1. /\ step = "none" /\ record = <<>> /\ item = 1 /\ done = 0 /\ written = <<>>
      /\ unnoticed = FALSE /\ result = 1
    BY DEF Idle
<1>2. StepInv /\ PartInv /\ ResultInv
    BY <1>1 DEF StepInv, PartInv, ResultInv
<1>3. DoneInv
    BY <1>1 DEF DoneInv
<1> QED
    BY <1>1, <1>2, <1>3 DEF UndeleteInv

LEMMA UndeleteStep == ASSUME UndeleteInv, [UndeleteNext]_undelete_vars PROVE UndeleteInv'
<1> USE DEF volume, stream, UndeleteInv
<1>1. CASE UNCHANGED undelete_vars
    BY <1>1 DEF undelete_vars, StepInv, PartInv, DoneInv, ResultInv, Current
<1>2. ASSUME NEW r \in Records, NEW used \in SUBSET Clusters, Ask(r, used) PROVE UndeleteInv'
    <2>1. /\ step = "none" /\ step' = "read_record" /\ record' = r
          /\ UNCHANGED <<item, done, written, cluster_count, files, unnoticed, result>>
        BY <1>2 DEF Ask
    <2>2. item = 1 /\ done = 0 /\ written = <<>>
        BY <2>1 DEF StepInv
    <2>3. StepInv'
        BY <2>1, <2>2 DEF StepInv
    <2>4. PartInv' /\ DoneInv'
        BY <2>1, <2>2, RecordStreams DEF PartInv, DoneInv
    <2>5. ResultInv' /\ unnoticed' \in BOOLEAN
        BY <2>1 DEF ResultInv
    <2> QED
        BY <2>3, <2>4, <2>5
<1>3. CASE Volume_Changes
    BY <1>3 DEF Volume_Changes, StepInv, PartInv, DoneInv, ResultInv, Current
<1>4. CASE Read_Record
    <2>1. /\ step = "read_record" /\ step' \in {"stream", "end"} /\ result' \in {result, -2}
          /\ UNCHANGED <<record, item, done, written, files, unnoticed>>
        BY <1>4 DEF Read_Record, Fail
    <2>2. StepInv' /\ PartInv'
        BY <2>1 DEF StepInv, PartInv
    <2>3. DoneInv' /\ ResultInv' /\ unnoticed' \in BOOLEAN
        BY <2>1 DEF DoneInv, ResultInv
    <2> QED
        BY <2>2, <2>3
<1>5. CASE Next_Stream
    <2>1. /\ step = "stream" /\ step' = "stream" /\ item' = item + 1 /\ ~HasData(Current)
          /\ UNCHANGED <<record, done, written, files, unnoticed, result>>
        BY <1>5 DEF Next_Stream
    <2>2. StepInv' /\ PartInv'
        BY <2>1 DEF StepInv, PartInv
    <2>3. DoneInv'
        <3>1. \A n \in 1 .. Len(record) : n < item + 1 => n < item \/ n = item
            BY DEF StepInv
        <3> QED
            BY <2>1, <3>1 DEF DoneInv, Current
    <2>4. ResultInv' /\ unnoticed' \in BOOLEAN
        BY <2>1 DEF ResultInv
    <2> QED
        BY <2>2, <2>3, <2>4
<1>6. CASE Open_File
    <2>1. /\ step = "stream" /\ step' \in {"write", "end"} /\ result' \in {result, -2}
          /\ item <= Len(record) /\ HasData(Current)
          /\ UNCHANGED <<record, item, done, written, files, unnoticed>>
        BY <1>6 DEF Open_File, Fail
    <2>2. done = 0 /\ written = <<>>
        BY <2>1 DEF StepInv
    <2>3. StepInv'
        BY <2>1 DEF StepInv, Current
    <2>4. IsPart(To_Write(Current), <<>>, 0)
        <3>1. Current \in Streams
            BY <2>1, RecordStreams DEF StepInv, Current
        <3>2. To_Write(Current) \in Seq(Piece)
            BY <2>1, <3>1, ToWriteType
        <3> QED
            BY <3>2 DEF IsPart
    <2>5. PartInv'
        BY <2>1, <2>2, <2>4 DEF PartInv, Current
    <2>6. DoneInv' /\ ResultInv' /\ unnoticed' \in BOOLEAN
        BY <2>1 DEF DoneInv, ResultInv
    <2> QED
        BY <2>3, <2>5, <2>6
<1>7. CASE Write_Block
    <2>1. /\ step = "write" /\ step' \in {"write", "end"} /\ result' \in {result, -2}
          /\ done < Len(To_Write(Current))
          /\ UNCHANGED <<record, item, files>>
        BY <1>7 DEF Write_Block, Fail
    <2>2. Current' = Current
        BY <2>1 DEF Current
    <2>3. StepInv'
        BY <2>1, <2>2 DEF StepInv
    <2>4. unnoticed' \in BOOLEAN /\ (unnoticed => unnoticed')
        <3>1. unnoticed' = unnoticed \/ unnoticed' = TRUE
            BY <1>7 DEF Write_Block
        <3> QED
            BY <3>1, Zenon
    <2>5. DoneInv' /\ ResultInv'
        BY <2>1, <2>4 DEF DoneInv, ResultInv
    <2>6. PartInv'
        <3> SUFFICES ASSUME step' = "write", ~unnoticed'
                     PROVE  IsPart(To_Write(Current), written', done')
            BY <2>2 DEF PartInv
        <3>1. IsPart(To_Write(Current), written, done)
            BY <2>1, <2>4 DEF PartInv
        <3>2. done' = done + 1 /\ written' = Append(written, To_Write(Current)[done + 1].block)
            BY <1>7 DEF Write_Block, Fail
        <3>3. PICK w \in Seq(Piece) : w = To_Write(Current)
            <4>1. Current \in Streams /\ HasData(Current)
                BY <2>1, RecordStreams DEF StepInv, Current
            <4> QED
                BY <4>1, ToWriteType
        <3>4. PICK d \in Nat, bs \in Seq(Block) : d = done /\ bs = written
            BY <3>1 DEF IsPart
        <3>5. IsPart(w, bs, d) /\ d + 1 \in 1 .. Len(w)
            BY <2>1, <3>1, <3>3, <3>4
        <3>6. w[d + 1].block \in Block
            <4>1. w[d + 1] \in Piece
                BY <3>5, ElementOfSeq
            <4> QED
                BY <4>1 DEF Piece
        <3>7. IsPart(w, Append(bs, w[d + 1].block), d + 1)
            BY <3>5, <3>6 DEF IsPart
        <3> QED
            BY <3>2, <3>3, <3>4, <3>7
    <2> QED
        BY <2>3, <2>4, <2>5, <2>6
<1>8. CASE Close_File
    <2>1. /\ step = "write" /\ step' = "stream" /\ item' = item + 1 /\ done' = 0 /\ written' = <<>>
          /\ done = Len(To_Write(Current))
          /\ UNCHANGED <<record, unnoticed, result>>
        BY <1>8 DEF Close_File
    <2>2. StepInv' /\ PartInv'
        BY <2>1 DEF StepInv, PartInv
    <2>3. ResultInv' /\ unnoticed' \in BOOLEAN
        BY <2>1 DEF ResultInv
    <2>4. item \in Nat /\ item <= Len(record) /\ HasData(Current)
        BY <2>1 DEF StepInv
    <2>5. ~unnoticed => IsFile(written, Current)
        <3>1. Current \in Streams
            BY <2>1, RecordStreams DEF StepInv, Current
        <3>2. To_Write(Current) \in Seq(Piece)
            BY <2>4, <3>1, ToWriteType
        <3> QED
            BY <2>1, <3>2 DEF PartInv, IsPart, IsFile, IsImage
    <2>6. /\ DOMAIN files' = DOMAIN files \cup {item} /\ files'[item].blocks = written
          /\ \A n \in DOMAIN files : n # item => files'[n] = files[n]
        BY <1>8 DEF Close_File
    <2>7. DoneInv'
        <3> SUFFICES ASSUME NEW n \in 1 .. Len(record), n < item + 1, HasData(record[n])
                     PROVE  n \in DOMAIN files' /\ (unnoticed \/ IsFile(files'[n].blocks, record[n]))
            BY <2>1 DEF DoneInv
        <3>1. CASE n = item
            BY <2>5, <2>6, <3>1 DEF Current
        <3>2. CASE n # item
            <4>1. n < item
                BY <2>4, <3>2
            <4> QED
                BY <2>6, <3>2, <4>1 DEF DoneInv
        <3> QED
            BY <3>1, <3>2
    <2> QED
        BY <2>2, <2>3, <2>7
<1>9. CASE All_Streams_Done
    <2>1. /\ step = "stream" /\ step' = "end" /\ item > Len(record)
          /\ UNCHANGED <<record, item, done, written, files, unnoticed>>
        BY <1>9 DEF All_Streams_Done
    <2>2. StepInv' /\ PartInv'
        BY <2>1 DEF StepInv, PartInv
    <2>3. DoneInv' /\ ResultInv' /\ unnoticed' \in BOOLEAN
        BY <2>1 DEF DoneInv, ResultInv
    <2> QED
        BY <2>2, <2>3
<1>10. CASE Answer
    <2>1. /\ step' = "none" /\ record' = <<>> /\ item' = 1 /\ done' = 0 /\ written' = <<>>
          /\ unnoticed' = FALSE /\ result' = 1
        BY <1>10 DEF Answer
    <2>2. StepInv' /\ PartInv'
        BY <2>1 DEF StepInv, PartInv
    <2>3. DoneInv'
        BY <2>1 DEF DoneInv
    <2>4. ResultInv'
        BY <2>1 DEF ResultInv
    <2>5. unnoticed' \in BOOLEAN
        BY <2>1, Zenon
    <2> QED
        BY <2>2, <2>3, <2>4, <2>5
<1> QED
    BY <1>1, <1>2, <1>3, <1>4, <1>5, <1>6, <1>7, <1>8, <1>9, <1>10 DEF UndeleteNext, Undelete_File

LEMMA UndeleteHolds == RecoverySpec => []UndeleteInv
<1>1. RecoveryInit => UndeleteInv
    BY UndeleteInit DEF RecoveryInit
<1>2. UndeleteInv /\ [RecoveryNext]_all_vars => UndeleteInv'
    <2>1. UNCHANGED all_vars => UNCHANGED undelete_vars
        BY DEF all_vars
    <2> QED
        BY <2>1, UndeleteSteps, UndeleteStep
<1> QED
    BY <1>1, <1>2, PTL DEF RecoverySpec

\* When success is answered, every stream that has data was written block by block, all that is
\* not zeros at the beginning in its place, unless a write failed unnoticed
\* (testdisk_inject.c:733-904).
THEOREM RecoveredWhole == RecoverySpec => []SuccessIsComplete
<1>1. ASSUME UndeleteInv PROVE SuccessIsComplete
    <2> SUFFICES ASSUME result = 0, NEW n \in DOMAIN record, HasData(record[n])
                 PROVE  LET image == Blocks(record[n].runlist) IN
                        /\ n \in DOMAIN files
                        /\ \/ unnoticed
                           \/ record[n].kind = "resident"
                           \/ IF record[n].runlist[1].of = "missing" THEN IsSuffix(image, files[n].blocks)
                              ELSE files[n].blocks = image
        BY DEF SuccessIsComplete
    <2>1. step = "end" /\ item > Len(record) /\ record \in Records
        BY <1>1 DEF UndeleteInv, ResultInv, StepInv
    <2>2. n \in 1 .. Len(record) /\ record[n] \in Streams
        BY <2>1, RecordStreams
    <2>3. n < item
        BY <1>1, <2>1, <2>2, RecordStreams DEF UndeleteInv, StepInv
    <2>4. n \in DOMAIN files /\ (unnoticed \/ IsFile(files[n].blocks, record[n]))
        BY <1>1, <2>2, <2>3 DEF UndeleteInv, DoneInv
    <2> QED
        BY <2>2, <2>4, FileIsWhole
<1> QED
    BY <1>1, UndeleteHolds, PTL

----------------------------------------------------------------------------
(* A recovery that failed has a reason *)

LEMMA DivPositive ==
    ASSUME NEW x \in Int, NEW n \in Nat \ {0}
    PROVE  x \div n > 0 <=> x >= n
<1> DEFINE q == x \div n  r == x % n
<1>1. q \in Int /\ r \in 0 .. n - 1 /\ x = n * q + r
    OBVIOUS
<1> HIDE DEF q, r
<1>2. q >= 1 => n * q >= n
    BY <1>1
<1>3. q <= 0 => n * q <= 0
    BY <1>1
<1>4. n * q \in Int
    BY <1>1
<1>5. q > 0 <=> x >= n
    BY <1>1, <1>2, <1>3, <1>4
<1> QED
    BY <1>5 DEF q

LEMMA ClustersFinite ==
    ASSUME NEW s \in Streams
    PROVE  /\ IsFiniteSet(Clusters_Of(s.runlist)) /\ Missing(s.runlist) \in Nat
           /\ Len(Blocks(s.runlist)) \in Nat
<1>1. \A kind : Blocks_Of(s.runlist, kind) \in Seq(Block)
    <2> TAKE kind
    <2> DEFINE seqs == [i \in DOMAIN s.runlist |->
                           IF s.runlist[i].of = kind THEN s.runlist[i].blocks ELSE <<>>]
    <2>1. \A i \in DOMAIN s.runlist :
             (IF s.runlist[i].of = kind THEN s.runlist[i].blocks ELSE <<>>) \in Seq(Block)
        <3>1. \A i \in DOMAIN s.runlist : s.runlist[i].blocks \in Seq(Block)
            BY StreamTypes
        <3>2. <<>> \in Seq(Block)
            OBVIOUS
        <3> QED
            BY <3>1, <3>2
    <2>2. seqs \in Seq(Seq(Block))
        <3>1. s.runlist \in Seq(Runs)
            BY StreamTypes
        <3>2. PICK m \in Nat : DOMAIN s.runlist = 1 .. m
            BY <3>1
        <3>3. seqs \in [1 .. m -> Seq(Block)]
            BY <2>1, <3>2
        <3> HIDE DEF seqs
        <3> QED
            BY <3>2, <3>3
    <2> HIDE DEF seqs
    <2>3. FlattenSeq(seqs) \in Seq(Block)
        BY <2>2, FlattenType
    <2> QED
        BY <2>3 DEF Blocks_Of, seqs
<1>2. PICK bs \in Seq(Block) : bs = Blocks_Of(s.runlist, "clusters")
    BY <1>1
<1>3. Clusters_Of(s.runlist) = {bs[k] : k \in 1 .. Len(bs)}
    BY <1>2 DEF Clusters_Of, ToSet
<1>4. IsFiniteSet(1 .. Len(bs))
    BY FS_Interval
<1>5. IsFiniteSet({bs[k] : k \in 1 .. Len(bs)})
    <2> DEFINE values == {bs[k] : k \in 1 .. Len(bs)}
               value == [k \in 1 .. Len(bs) |-> bs[k]]
    <2>1. value \in Surjection(1 .. Len(bs), values)
        BY DEF Surjection
    <2> QED
        BY <1>4, <2>1, FS_Surjection
<1>6. Missing(s.runlist) \in Nat
    BY <1>1 DEF Missing
<1>7. Len(Blocks(s.runlist)) \in Nat
    BY LoopImage
<1> QED
    BY <1>3, <1>5, <1>6, <1>7

\* The more clusters are in use, the less of a stream can be recovered (testdisk_inject.c:95-145).
LEMMA PercentFalls ==
    ASSUME NEW s \in Streams, NEW used, NEW more, used \subseteq more, Percent(s, more) > 0
    PROVE  Percent(s, used) > 0
<1> DEFINE C == Clusters_Of(s.runlist)
           m == Missing(s.runlist)
           n == Len(Blocks(s.runlist))
           x == n - (Cardinality(C \cap used) + m)
           y == n - (Cardinality(C \cap more) + m)
<1>1. IsFiniteSet(C) /\ m \in Nat /\ n \in Nat
    BY ClustersFinite
<1> HIDE DEF C, m, n
<1>2. /\ Cardinality(C \cap used) \in Nat /\ Cardinality(C \cap more) \in Nat
      /\ Cardinality(C \cap used) <= Cardinality(C \cap more)
    <2>1. IsFiniteSet(C \cap used) /\ IsFiniteSet(C \cap more)
        BY <1>1, FS_Subset
    <2>2. C \cap used \subseteq C \cap more
        OBVIOUS
    <2> QED
        BY <2>1, <2>2, FS_Subset, FS_CardinalityType
<1>3. x \in Int /\ y \in Int /\ y <= x
    BY <1>1, <1>2
<1> HIDE DEF x, y
<1>4. CASE s.kind = "resident"
    BY <1>4, UndeleteAssumption DEF Percent
<1>5. CASE s.kind # "resident"
    <2>1. s.kind # "encrypted" /\ n # 0
        BY <1>5 DEF Percent, n
    <2>2. Percent(s, more) = (y * FULL) \div n /\ Percent(s, used) = (x * FULL) \div n
        BY <1>5, <2>1 DEF Percent, x, y, n, m, C
    <2>3. FULL \in Nat /\ y * FULL \in Int /\ x * FULL \in Int /\ n \in Nat \ {0}
        BY <1>1, <1>3, <2>1, UndeleteAssumption
    <2>4. y * FULL <= x * FULL
        BY <1>3, <2>3
    <2>5. y * FULL >= n
        BY <2>2, <2>3, DivPositive
    <2>6. x * FULL >= n
        BY <2>3, <2>4, <2>5
    <2>7. (x * FULL) \div n > 0
        BY <2>3, <2>6, DivPositive
    <2> QED
        BY <2>2, <2>7
<1> QED
    BY <1>4, <1>5

LEMMA RecoverableFalls ==
    ASSUME NEW r \in Records, NEW used, NEW more, used \subseteq more, Recoverable(r, more)
    PROVE  Recoverable(r, used)
<1>1. PICK n \in DOMAIN r : Percent(r[n], more) > 0
    BY DEF Recoverable
<1>2. r[n] \in Streams
    BY RecordStreams
<1>3. Percent(r[n], used) > 0
    BY <1>1, <1>2, PercentFalls
<1> QED
    BY <1>3 DEF Recoverable

\* A result is there only at the end, and a failure has a cause while clusters are taken into
\* use under it.
CauseInv == (step # "end" => result = 1) /\ FailureHasCause

LEMMA CauseStep ==
    ASSUME UndeleteInv, CauseInv, [UndeleteNext]_undelete_vars
    PROVE  CauseInv'
<1> USE DEF CauseInv
<1>1. ASSUME UNCHANGED <<record, in_use, bitmap, failed, result>>, step' = "end" => step = "end",
             step # "end" \/ step' = "end"
      PROVE  CauseInv'
    BY <1>1 DEF FailureHasCause
<1>2. CASE UNCHANGED undelete_vars
    BY <1>1, <1>2 DEF undelete_vars, volume
<1>3. ASSUME NEW r \in Records, NEW used \in SUBSET Clusters, Ask(r, used) PROVE CauseInv'
    BY <1>3 DEF Ask, FailureHasCause
<1>4. CASE Volume_Changes
    <2>1. UNCHANGED <<record, step, failed, result>>
        BY <1>4 DEF Volume_Changes
    <2>2. CASE in_use' = TRUE
        BY <2>1, <2>2 DEF FailureHasCause
    <2>3. ASSUME NEW c \in Clusters, bitmap' = bitmap \cup {c}, in_use' = in_use PROVE CauseInv'
        <3>1. CASE result = -2
            <4>1. step = "end" /\ record \in Records
                BY <3>1 DEF UndeleteInv, StepInv
            <4>2. PICK more : more = bitmap'
                OBVIOUS
            <4>3. Recoverable(record, more) => Recoverable(record, bitmap)
                BY <2>3, <4>1, <4>2, RecoverableFalls
            <4>4. failed \/ in_use \/ ~Recoverable(record, bitmap)
                BY <3>1 DEF FailureHasCause
            <4>5. failed' \/ in_use' \/ ~Recoverable(record', bitmap')
                BY <2>1, <2>3, <4>2, <4>3, <4>4
            <4> QED
                BY <2>1, <4>1, <4>5 DEF FailureHasCause
        <3>2. CASE result # -2
            BY <2>1, <3>2 DEF FailureHasCause
        <3> QED
            BY <3>1, <3>2
    <2> QED
        BY <1>4, <2>2, <2>3 DEF Volume_Changes
<1>5. CASE Read_Record
    <2>1. step = "read_record" /\ UNCHANGED <<record, in_use, bitmap>>
        BY <1>5 DEF Read_Record, volume
    <2>2. CASE Fail /\ failed' = TRUE
        BY <2>2 DEF Fail, FailureHasCause
    <2>3. CASE (in_use \/ ~Recoverable(record, bitmap)) /\ Fail
        <3>1. in_use' \/ ~Recoverable(record', bitmap')
            BY <2>1, <2>3
        <3> QED
            BY <2>3, <3>1 DEF Fail, FailureHasCause
    <2>4. CASE step' = "stream" /\ UNCHANGED <<failed, result>>
        BY <1>1, <2>1, <2>4
    <2> QED
        BY <1>5, <2>2, <2>3, <2>4 DEF Read_Record
<1>6. CASE Next_Stream
    BY <1>1, <1>6 DEF Next_Stream, volume
<1>7. CASE Open_File
    <2>1. CASE Fail /\ failed' = TRUE
        BY <2>1 DEF Fail, FailureHasCause
    <2>2. CASE step' = "write" /\ UNCHANGED <<failed, result>>
        BY <1>1, <1>7, <2>2 DEF Open_File, volume
    <2> QED
        BY <1>7, <2>1, <2>2 DEF Open_File
<1>8. CASE Write_Block
    <2>1. CASE Fail /\ failed' = TRUE
        BY <2>1 DEF Fail, FailureHasCause
    <2>2. CASE UNCHANGED <<step, failed, result>>
        BY <1>1, <1>8, <2>2 DEF Write_Block, volume
    <2> QED
        BY <1>8, <2>1, <2>2 DEF Write_Block
<1>9. CASE Close_File
    BY <1>1, <1>9 DEF Close_File, volume
<1>10. CASE All_Streams_Done
    BY <1>10 DEF All_Streams_Done, FailureHasCause
<1>11. CASE Answer
    BY <1>11 DEF Answer, FailureHasCause
<1> QED
    BY <1>2, <1>3, <1>4, <1>5, <1>6, <1>7, <1>8, <1>9, <1>10, <1>11 DEF UndeleteNext, Undelete_File

\* A recovery fails only if an open, a read or a write failed, the record is in use, or no stream
\* has a percentage above 0 any more, however the volume changes under it
\* (testdisk_inject.c:581, 705-720).
THEOREM FailuresExplained == RecoverySpec => []FailureHasCause
<1>1. RecoveryInit => CauseInv
    BY DEF RecoveryInit, Idle, CauseInv, FailureHasCause
<1>2. UndeleteInv /\ CauseInv /\ [RecoveryNext]_all_vars => CauseInv'
    <2>1. UNCHANGED all_vars => UNCHANGED undelete_vars
        BY DEF all_vars
    <2> QED
        BY <2>1, UndeleteSteps, CauseStep
<1>3. CauseInv => FailureHasCause
    BY DEF CauseInv
<1> QED
    BY <1>1, <1>2, <1>3, UndeleteHolds, PTL DEF RecoverySpec

----------------------------------------------------------------------------
(* A file is cut only if it is as long as the record says *)

\* What NTFS lays down: the allocated size of a sparse stream covers its holes.
HolesAllocated ==
    \A r \in Records : \A n \in 1 .. Len(r) :
        (\E k \in DOMAIN r[n].runlist : r[n].runlist[k].of = "hole") =>
            r[n].alloc >= Len(Blocks(r[n].runlist))

LEMMA FlattenLength ==
    ASSUME NEW S, NEW seqs \in Seq(Seq(S)), Len(seqs) > 0
    PROVE  Len(seqs[1]) <= Len(FlattenSeq(seqs))
<1> DEFINE n == Len(seqs)
<1>1. n \in Nat /\ n > 0
    OBVIOUS
<1>2. PICK F \in [1 .. n -> Seq(S)] : Flat(seqs, F) /\ FlattenSeq(seqs) = F[n]
    BY FlattenByParts
<1>3. \A i \in 1 .. n : F[i] \in Seq(S) /\ seqs[i] \in Seq(S)
    BY <1>2
<1> DEFINE T == {k \in Nat : k + 1 <= n => Len(F[1]) <= Len(F[k + 1])}
<1>4. 0 \in T
    <2>1. F[1] \in Seq(S)
        BY <1>1, <1>3
    <2> QED
        BY <2>1
<1>5. ASSUME NEW k \in Nat, k \in T PROVE k + 1 \in T
    <2> SUFFICES ASSUME (k + 1) + 1 <= n PROVE Len(F[1]) <= Len(F[(k + 1) + 1])
        OBVIOUS
    <2>1. k + 1 \in 1 .. n - 1 /\ k + 1 \in 1 .. n /\ (k + 1) + 1 \in 1 .. n /\ 1 \in 1 .. n
        BY <1>1
    <2>2. F[(k + 1) + 1] = F[k + 1] \o seqs[(k + 1) + 1]
        BY <1>2, <2>1 DEF Flat
    <2>3. PICK x \in Seq(S), y \in Seq(S), z \in Seq(S) : x = F[k + 1] /\ y = seqs[(k + 1) + 1] /\ z = F[1]
        BY <1>3, <2>1
    <2>4. Len(z) <= Len(x)
        BY <1>5, <2>1, <2>3
    <2>5. Len(z) <= Len(x \o y)
        BY <2>4
    <2> QED
        BY <2>2, <2>3, <2>5
<1>6. Nat \subseteq T
    <2> HIDE DEF T
    <2> QED
        BY <1>4, <1>5, NatSet
<1>7. n - 1 \in T /\ (n - 1) + 1 = n
    <2> HIDE DEF T
    <2> QED
        BY <1>1, <1>6
<1>8. Len(F[1]) <= Len(F[n])
    BY <1>1, <1>7
<1> QED
    BY <1>2, <1>8 DEF Flat

\* A stream can be recovered in full only if no part of it is missing (testdisk_inject.c:95-145).
LEMMA FullHasAll ==
    ASSUME NEW s \in Streams, s.kind # "resident", NEW used, Percent(s, used) = FULL
    PROVE  Missing(s.runlist) = 0
<1> DEFINE c == Cardinality(Clusters_Of(s.runlist) \cap used)
           m == Missing(s.runlist)
           n == Len(Blocks(s.runlist))
<1>1. m \in Nat /\ n \in Nat /\ c \in Nat
    <2>1. IsFiniteSet(Clusters_Of(s.runlist)) /\ m \in Nat /\ n \in Nat
        BY ClustersFinite
    <2>2. IsFiniteSet(Clusters_Of(s.runlist) \cap used)
        BY <2>1, FS_Subset
    <2> QED
        BY <2>1, <2>2, FS_CardinalityType
<1>2. FULL \in Nat \ {0}
    BY UndeleteAssumption
<1>3. n # 0 /\ ((n - (c + m)) * FULL) \div n = FULL
    BY <1>2 DEF Percent
<1> HIDE DEF c, m, n
<1> DEFINE x == (n - (c + m)) * FULL
           r == x % n
<1>4. x \in Int /\ n \in Nat \ {0}
    BY <1>1, <1>2, <1>3
<1>5. x \div n = FULL
    BY <1>3
<1>6. (c + m >= 1) => x <= (n - 1) * FULL
    BY <1>1, <1>2
<1>7. (n - 1) * FULL = n * FULL - FULL /\ n * FULL \in Int
    BY <1>1, <1>2
<1> HIDE DEF x
<1>8. r \in 0 .. n - 1 /\ x = n * FULL + r
    <2>1. r \in 0 .. n - 1 /\ x = n * (x \div n) + r
        BY <1>4
    <2> QED
        BY <1>5, <2>1
<1> HIDE DEF r
<1>9. ~(c + m >= 1)
    <2> SUFFICES ASSUME c + m >= 1 PROVE FALSE
        OBVIOUS
    <2>1. PICK p \in Int : p = n * FULL
        BY <1>7
    <2>2. x <= p - FULL /\ x = p + r /\ r >= 0 /\ FULL > 0 /\ r \in Int /\ FULL \in Int
        BY <1>2, <1>4, <1>6, <1>7, <1>8, <2>1
    <2> QED
        BY <2>2
<1>10. m = 0
    BY <1>1, <1>9
<1> QED
    BY <1>10 DEF m

\* Then nothing is written before the loops.
LEMMA NothingMissing ==
    ASSUME NEW s \in Streams, s.kind # "resident", HasData(s), Missing(s.runlist) = 0
    PROVE  To_Write(s) = FlattenSeq([i \in DOMAIN s.runlist |->
                                        Blocks_Of_Run(s.runlist[i], s.runlist[i].of # "hole")])
<1> DEFINE loop == FlattenSeq([i \in DOMAIN s.runlist |->
                                  Blocks_Of_Run(s.runlist[i], s.runlist[i].of # "hole")])
<1>1. loop \in Seq(Piece)
    BY LoopImage
<1> HIDE DEF loop
<1>2. To_Write(s) = Beginning(s) \o loop
    BY DEF To_Write, loop
<1>3. s.runlist # <<>> /\ s.runlist \in Seq(Runs) /\ Head(s.runlist) = s.runlist[1] /\ 1 \in DOMAIN s.runlist
    BY StreamTypes DEF HasData
<1>4. Beginning(s) = <<>>
    <2>1. CASE s.runlist[1].of # "missing"
        BY <1>3, <2>1 DEF Beginning
    <2>2. CASE s.runlist[1].of = "missing"
        <3> DEFINE seqs == [i \in DOMAIN s.runlist |->
                               IF s.runlist[i].of = "missing" THEN s.runlist[i].blocks ELSE <<>>]
        <3>1. seqs \in Seq(Seq(Block)) /\ Len(seqs) > 0
            <4>1. PICK q \in Nat : DOMAIN s.runlist = 1 .. q /\ q > 0
                BY <1>3
            <4>2. \A i \in 1 .. q : (IF s.runlist[i].of = "missing" THEN s.runlist[i].blocks ELSE <<>>) \in Seq(Block)
                <5>1. \A i \in 1 .. q : s.runlist[i].blocks \in Seq(Block)
                    BY <4>1, StreamTypes
                <5>2. <<>> \in Seq(Block)
                    OBVIOUS
                <5> QED
                    BY <5>1, <5>2
            <4>3. seqs \in [1 .. q -> Seq(Block)]
                BY <4>1, <4>2
            <4> HIDE DEF seqs
            <4> QED
                BY <4>1, <4>3
        <3>2. seqs[1] = s.runlist[1].blocks
            BY <1>3, <2>2
        <3>3. FlattenSeq(seqs) = Blocks_Of(s.runlist, "missing")
            BY DEF Blocks_Of
        <3> HIDE DEF seqs
        <3>4. Len(seqs[1]) <= Len(FlattenSeq(seqs))
            BY <3>1, FlattenLength
        <3>5. Len(FlattenSeq(seqs)) = 0
            BY <3>3 DEF Missing
        <3>6. PICK bs \in Seq(Block) : bs = s.runlist[1].blocks
            BY <1>3, StreamTypes
        <3>7. Len(bs) = 0
            <4>1. Len(bs) <= 0 /\ Len(bs) \in Nat
                BY <3>2, <3>4, <3>5, <3>6
            <4> QED
                BY <4>1
        <3>8. bs = <<>>
            BY <3>7
        <3>9. Blocks_Of_Run(s.runlist[1], FALSE) = <<>>
            BY <3>6, <3>8 DEF Blocks_Of_Run
        <3> QED
            BY <1>3, <2>2, <3>9 DEF Beginning
    <2> QED
        BY <2>1, <2>2
<1>5. To_Write(s) = loop
    BY <1>1, <1>2, <1>4
<1> QED
    BY <1>5 DEF loop

\* Without a hole every block is counted that the loops write.
LEMMA AllCounted ==
    ASSUME NEW s \in Streams, \A k \in DOMAIN s.runlist : s.runlist[k].of # "hole"
    PROVE  LET w == FlattenSeq([i \in DOMAIN s.runlist |->
                                   Blocks_Of_Run(s.runlist[i], s.runlist[i].of # "hole")])
           IN  \A k \in 1 .. Len(w) : w[k].counted
<1> DEFINE ws == [i \in DOMAIN s.runlist |-> Blocks_Of_Run(s.runlist[i], s.runlist[i].of # "hole")]
           Counted == {p \in Piece : p.counted = TRUE}
<1>1. ASSUME NEW i \in DOMAIN s.runlist
      PROVE  Blocks_Of_Run(s.runlist[i], s.runlist[i].of # "hole") \in Seq(Counted)
    <2>1. PICK bs \in Seq(Block) : bs = s.runlist[i].blocks
        BY <1>1, StreamTypes
    <2>2. (s.runlist[i].of # "hole") = TRUE
        BY <1>1
    <2>3. Blocks_Of_Run(s.runlist[i], s.runlist[i].of # "hole")
              = [k \in DOMAIN bs |-> [block |-> bs[k], counted |-> TRUE]]
        BY <2>1, <2>2 DEF Blocks_Of_Run
    <2>4. \A k \in DOMAIN bs : [block |-> bs[k], counted |-> TRUE] \in Counted
        BY <2>1 DEF Piece
    <2>5. DOMAIN bs = 1 .. Len(bs) /\ Len(bs) \in Nat
        BY <2>1
    <2> HIDE DEF Counted
    <2> QED
        BY <2>3, <2>4, <2>5
<1>2. PICK q \in Nat : DOMAIN s.runlist = 1 .. q
    BY StreamTypes
<1>3. ws \in Seq(Seq(Counted))
    <2>1. ws \in [1 .. q -> Seq(Counted)]
        BY <1>1, <1>2
    <2> HIDE DEF ws, Counted
    <2> QED
        BY <1>2, <2>1
<1> HIDE DEF ws
<1>4. FlattenSeq(ws) \in Seq(Counted)
    <2> HIDE DEF Counted
    <2> QED
        BY <1>3, FlattenType
<1>5. \A k \in 1 .. Len(FlattenSeq(ws)) : FlattenSeq(ws)[k] \in Counted
    <2> HIDE DEF Counted
    <2> QED
        BY <1>4, ElementOfSeq
<1>6. \A k \in 1 .. Len(FlattenSeq(ws)) : FlattenSeq(ws)[k].counted
    BY <1>5
<1> QED
    BY <1>6 DEF ws


\* While a stream is written: how many of its blocks were counted; what is counted less than
\* written is a block of a hole, or of a missing beginning.
CountInv ==
    /\ step \in {"none", "read_record", "stream"} => cluster_count = 0
    /\ step = "write" =>
          /\ done \in Nat /\ cluster_count \in 0 .. done
          /\ cluster_count < done => \E k \in 1 .. done : ~To_Write(Current)[k].counted

\* The percentages are those of the record as it was read.
PercentInv == step \in {"stream", "write"} => \E used : percent = Calc_Percentage(record, used)

CutInv ==
    /\ CountInv /\ PercentInv
    /\ step \in {"none", "read_record"} => files = <<>>
    /\ TruncationFits

\* The length of a stream that is about to be closed.
LEMMA CutLength ==
    ASSUME HolesAllocated, UndeleteInv, CutInv, step = "write", done = Len(To_Write(Current)),
           Truncated(Current), ~unnoticed
    PROVE  Len(written) = Current.alloc
<1>1. item \in 1 .. Len(record) /\ HasData(Current) /\ record \in Records
    BY DEF UndeleteInv, StepInv
<1>2. PICK s \in Streams : s = Current
    BY <1>1, RecordStreams DEF Current
<1>3. s.kind # "resident" /\ percent[item] = FULL /\ cluster_count = s.alloc /\ HasData(s)
    BY <1>1, <1>2 DEF Truncated
<1>4. PICK used : percent = Calc_Percentage(record, used)
    BY DEF CutInv, PercentInv
<1>5. Percent(s, used) = FULL
    <2>1. item \in DOMAIN record
        BY <1>1, RecordStreams
    <2> QED
        BY <1>2, <1>3, <1>4, <2>1 DEF Calc_Percentage, Current
<1>6. Missing(s.runlist) = 0
    BY <1>3, <1>5, FullHasAll
<1> DEFINE w == FlattenSeq([i \in DOMAIN s.runlist |->
                               Blocks_Of_Run(s.runlist[i], s.runlist[i].of # "hole")])
<1>7. To_Write(Current) = w
    BY <1>2, <1>3, <1>6, NothingMissing
<1>8. w \in Seq(Piece) /\ Len(w) = Len(Blocks(s.runlist))
    BY LoopImage DEF IsImage
<1>9. (\A k \in DOMAIN s.runlist : s.runlist[k].of # "hole") => \A k \in 1 .. Len(w) : w[k].counted
    BY AllCounted
<1> HIDE DEF w
<1>10. done = Len(w) /\ done \in Nat /\ Len(written) = done
    <2>1. IsPart(To_Write(Current), written, done)
        BY DEF UndeleteInv, PartInv
    <2> QED
        BY <1>7, <1>8, <2>1 DEF IsPart
<1>11. cluster_count \in 0 .. done /\ (cluster_count < done => \E k \in 1 .. done : ~w[k].counted)
    BY <1>7 DEF CutInv, CountInv
<1>12. CASE \E k \in DOMAIN s.runlist : s.runlist[k].of = "hole"
    <2>1. s.alloc >= Len(Blocks(s.runlist))
        BY <1>1, <1>2, <1>12 DEF HolesAllocated, Current
    <2>2. s.alloc = done
        BY <1>3, <1>8, <1>10, <1>11, <2>1
    <2> QED
        BY <1>2, <1>10, <2>2
<1>13. CASE \A k \in DOMAIN s.runlist : s.runlist[k].of # "hole"
    <2>1. cluster_count = done
        BY <1>9, <1>10, <1>11, <1>13
    <2> QED
        BY <1>2, <1>3, <1>10, <2>1
<1> QED
    BY <1>12, <1>13

LEMMA CutStep ==
    ASSUME HolesAllocated, UndeleteInv, CutInv, [UndeleteNext]_undelete_vars
    PROVE  CutInv'
<1> USE DEF volume, stream
<1>1. ASSUME UNCHANGED <<record, files, unnoticed>> PROVE TruncationFits'
    BY <1>1 DEF CutInv, TruncationFits
<1>2. ASSUME UNCHANGED <<record, step, percent, item, done, cluster_count, files, unnoticed>>
      PROVE  CutInv'
    BY <1>1, <1>2 DEF CutInv, CountInv, PercentInv, Current
<1>3. CASE UNCHANGED undelete_vars
    BY <1>2, <1>3 DEF undelete_vars
<1>4. ASSUME step' = "end", UNCHANGED <<record, files, unnoticed>> PROVE CutInv'
    BY <1>1, <1>4 DEF CutInv, CountInv, PercentInv
<1>5. ASSUME NEW r \in Records, NEW used \in SUBSET Clusters, Ask(r, used) PROVE CutInv'
    <2>1. /\ step = "none" /\ step' = "read_record" /\ files' = files
          /\ UNCHANGED <<cluster_count, unnoticed>>
        BY <1>5 DEF Ask
    <2>2. files' = <<>> /\ cluster_count' = 0
        BY <2>1 DEF CutInv, CountInv
    <2>3. TruncationFits'
        BY <2>2 DEF TruncationFits
    <2> QED
        BY <2>1, <2>2, <2>3 DEF CutInv, CountInv, PercentInv
<1>6. CASE Volume_Changes
    BY <1>2, <1>6 DEF Volume_Changes
<1>7. CASE Read_Record
    <2>1. step = "read_record" /\ UNCHANGED <<record, cluster_count, files, unnoticed>>
        BY <1>7 DEF Read_Record
    <2>2. CASE step' = "stream" /\ percent' = Calc_Percentage(record, bitmap)
        <3>1. PICK used : used = bitmap
            OBVIOUS
        <3>2. percent' = Calc_Percentage(record', used)
            BY <2>1, <2>2, <3>1 DEF Calc_Percentage
        <3>3. PercentInv'
            BY <3>2 DEF PercentInv
        <3>4. CountInv'
            BY <2>1, <2>2 DEF CutInv, CountInv
        <3> QED
            BY <1>1, <2>1, <2>2, <3>3, <3>4 DEF CutInv
    <2> QED
        BY <1>4, <1>7, <2>1, <2>2 DEF Read_Record, Fail
<1>8. CASE Next_Stream
    <2>1. /\ step = "stream" /\ step' = "stream"
          /\ UNCHANGED <<record, percent, cluster_count, files, unnoticed>>
        BY <1>8 DEF Next_Stream
    <2> QED
        BY <1>1, <2>1 DEF CutInv, CountInv, PercentInv
<1>9. CASE Open_File
    <2>1. step = "stream" /\ UNCHANGED <<record, percent, done, cluster_count, files, unnoticed>>
        BY <1>9 DEF Open_File
    <2>2. CASE step' = "write"
        <3>1. done' = 0 /\ cluster_count' = 0
            BY <2>1 DEF UndeleteInv, StepInv, CutInv, CountInv
        <3> QED
            BY <1>1, <2>1, <2>2, <3>1 DEF CutInv, CountInv, PercentInv
    <2> QED
        BY <1>4, <1>9, <2>1, <2>2 DEF Open_File, Fail
<1>10. CASE Write_Block
    <2>1. step = "write" /\ UNCHANGED <<record, percent, item, files>>
        BY <1>10 DEF Write_Block
    <2>2. unnoticed => unnoticed'
        <3>1. unnoticed' = unnoticed \/ unnoticed' = TRUE
            BY <1>10 DEF Write_Block
        <3> QED
            BY <3>1, Zenon
    <2>3. TruncationFits'
        BY <2>1, <2>2 DEF CutInv, TruncationFits
    <2>4. CASE step' = "end"
        BY <2>3, <2>4 DEF CutInv, CountInv, PercentInv
    <2>5. CASE step' = step /\ done' = done + 1
        <3> DEFINE p == To_Write(Current)[done + 1]
        <3>1. cluster_count' = cluster_count + (IF p.counted THEN 1 ELSE 0)
            BY <1>10, <2>1, <2>5 DEF Write_Block, Fail
        <3> HIDE DEF p
        <3>2. PICK c \in Nat, d \in Nat : c = cluster_count /\ d = done /\ c <= d
            BY <2>1 DEF CutInv, CountInv
        <3>3. c < d => \E k \in 1 .. d : ~To_Write(Current)[k].counted
            BY <2>1, <3>2 DEF CutInv, CountInv
        <3>4. cluster_count' \in 0 .. d + 1
            BY <3>1, <3>2
        <3>5. ASSUME cluster_count' < d + 1 PROVE \E k \in 1 .. d + 1 : ~To_Write(Current)[k].counted
            <4>1. CASE p.counted
                <5>1. c < d
                    BY <3>1, <3>2, <3>5, <4>1
                <5> QED
                    BY <3>2, <3>3, <5>1
            <4>2. CASE ~p.counted
                <5>1. d + 1 \in 1 .. d + 1 /\ ~To_Write(Current)[d + 1].counted
                    BY <3>2, <4>2 DEF p
                <5> QED
                    BY <5>1
            <4> QED
                BY <4>1, <4>2
        <3>6. Current' = Current
            BY <2>1 DEF Current
        <3>7. CountInv'
            BY <2>1, <2>5, <3>2, <3>4, <3>5, <3>6 DEF CountInv
        <3>8. PercentInv'
            BY <2>1, <2>5 DEF CutInv, PercentInv
        <3> QED
            BY <2>1, <2>3, <2>5, <3>7, <3>8 DEF CutInv
    <2> QED
        BY <1>10, <2>4, <2>5 DEF Write_Block, Fail
<1>11. CASE Close_File
    <2>1. /\ step = "write" /\ step' = "stream" /\ done = Len(To_Write(Current))
          /\ cluster_count' = 0
          /\ UNCHANGED <<record, percent, unnoticed>>
        BY <1>11 DEF Close_File
    <2>2. /\ DOMAIN files' = DOMAIN files \cup {item}
          /\ files'[item] = [blocks |-> written, cut |-> Truncated(Current)]
          /\ \A n \in DOMAIN files : n # item => files'[n] = files[n]
        BY <1>11 DEF Close_File
    <2>3. TruncationFits'
        <3> SUFFICES ASSUME NEW n \in DOMAIN files', files'[n].cut, ~unnoticed
                     PROVE  Len(files'[n].blocks) = record[n].alloc
            BY <2>1 DEF TruncationFits
        <3>1. CASE n = item
            <4>1. Truncated(Current) /\ files'[n].blocks = written
                BY <2>2, <3>1
            <4> QED
                BY <2>1, <3>1, <4>1, CutLength DEF Current
        <3>2. CASE n # item
            BY <2>2, <3>2 DEF CutInv, TruncationFits
        <3> QED
            BY <3>1, <3>2
    <2>4. CountInv' /\ PercentInv'
        BY <2>1 DEF CutInv, CountInv, PercentInv
    <2> QED
        BY <2>1, <2>3, <2>4 DEF CutInv
<1>12. CASE All_Streams_Done
    BY <1>4, <1>12 DEF All_Streams_Done
<1>13. CASE Answer
    <2>1. step' = "none" /\ cluster_count' = 0 /\ files' = <<>>
        BY <1>13 DEF Answer
    <2>2. TruncationFits'
        BY <2>1 DEF TruncationFits
    <2> QED
        BY <2>1, <2>2 DEF CutInv, CountInv, PercentInv
<1> QED
    BY <1>3, <1>5, <1>6, <1>7, <1>8, <1>9, <1>10, <1>11, <1>12, <1>13 DEF UndeleteNext, Undelete_File

\* A file is cut to size_data only if it is as long as the record says (testdisk_inject.c:877-886):
\* a stream is cut only if all its blocks are there, and all of them are counted but the holes. If
\* less was allocated than the runs have, the blocks besides the holes could be as many as were
\* allocated, and a file that is too long would be cut.
THEOREM CutsFit ==
    ASSUME HolesAllocated
    PROVE  RecoverySpec => []TruncationFits
<1>1. RecoveryInit => CutInv
    BY DEF RecoveryInit, Idle, CutInv, CountInv, PercentInv, TruncationFits
<1>2. UndeleteInv /\ CutInv /\ [RecoveryNext]_all_vars => CutInv'
    <2>1. UNCHANGED all_vars => UNCHANGED undelete_vars
        BY DEF all_vars
    <2> QED
        BY <2>1, UndeleteSteps, CutStep
<1>3. CutInv => TruncationFits
    BY DEF CutInv
<1> QED
    BY <1>1, <1>2, <1>3, UndeleteHolds, PTL DEF RecoverySpec

----------------------------------------------------------------------------
(* The volume stays open while a careful client recovers *)

\* A thread is at work only on a list that is not announced, so that the volume that was open
\* when the recovery began is still.
StaysOpen ==
    /\ available = "LIST_READY" => scanner = "none"
    /\ Recovering /\ crashed = "no" => scanner = "none" /\ handle # NULL /\ handle.open

\* Under a careful client every step of the composition is a step of FileList, or changes
\* nothing of it.
LEMMA OpenStep ==
    ASSUME Careful, StaysOpen, [RecoveryNext]_all_vars
    PROVE  StaysOpen' /\ [Next]_vars
<1> USE DEF StaysOpen, Recovering
<1>1. CASE UNCHANGED all_vars
    BY <1>1 DEF all_vars, vars, volume_Data, file_Ctx, thread, undelete_vars
<1>2. CASE Scanner /\ UNCHANGED undelete_vars
    <2>1. crashed = "no" /\ scanner # "none" /\ step' = step
        BY <1>2 DEF Scanner, File_List_Free, File_Data_Free, File_Data_Init, Quick_Scan_File, Decide,
                    Copy_Entry, Update_Totals, Mark_Ready, Step, undelete_vars
    <2>2. available' = available \/ scanner' = "none"
        BY <1>2 DEF Scanner, File_List_Free, File_Data_Free, File_Data_Init, Quick_Scan_File, Decide,
                    Copy_Entry, Update_Totals, Mark_Ready, Step
    <2>3. StaysOpen'
        BY <2>1, <2>2
    <2> QED
        BY <1>2, <2>3 DEF Next
<1>3. CASE (Stop_Scan_Process \/ File_List_Serializer) /\ UNCHANGED undelete_vars
    <2>1. UNCHANGED <<available, scanner, handle, crashed, step>>
        BY <1>3 DEF Stop_Scan_Process, File_List_Serializer, volume_Data, thread, undelete_vars
    <2> QED
        BY <1>3, <2>1 DEF Next
<1>4. CASE ~Recovering /\ Update_Quick_Scan_File_Path /\ UNCHANGED undelete_vars
    <2>1. UNCHANGED <<available, scanner, handle, crashed, step>>
        BY <1>4 DEF Update_Quick_Scan_File_Path, thread, undelete_vars
    <2> QED
        BY <1>4, <2>1 DEF Next
<1>5. ASSUME NEW v \in Volumes, ~Recovering, Start_QuickScan_File(v), UNCHANGED undelete_vars
      PROVE  StaysOpen' /\ [Next]_vars
    <2>1. available' = "LIST_NOT_READY" /\ step' = step /\ step = "none"
        BY <1>5 DEF Start_QuickScan_File, undelete_vars
    <2> QED
        BY <1>5, <2>1 DEF Next
<1>6. ASSUME NEW n \in Slots, Recover(n) PROVE StaysOpen' /\ [Next]_vars
    <2>1. Quick_Scan_Recovery_File(n) /\ step = "none"
        BY <1>6 DEF Recover
    <2>2. /\ available = "LIST_READY" /\ crashed = "no"
          /\ UNCHANGED <<available, scanner, handle>>
          /\ crashed' = "recover" \/ (handle # NULL /\ handle.open)
        BY <2>1 DEF Quick_Scan_Recovery_File, MayUseList, volume_Data, thread
    <2> QED
        BY <2>1, <2>2 DEF Next
<1>7. CASE Read_Volume
    <2>1. Recovering /\ crashed = "no" /\ handle.open
        BY <1>7 DEF Read_Volume
    <2>2. UNCHANGED vars
        BY <1>7, <2>1 DEF Read_Volume
    <2>3. UNCHANGED <<available, scanner, handle, crashed>>
        BY <2>2 DEF vars, volume_Data, thread
    <2> QED
        BY <2>1, <2>2, <2>3
<1>8. CASE (Volume_Changes \/ Answer) /\ crashed = "no" /\ UNCHANGED vars
    <2>1. UNCHANGED <<available, scanner, handle, crashed>> /\ (step' = step \/ step' = "none")
        BY <1>8 DEF vars, volume_Data, thread, Volume_Changes, Answer
    <2> QED
        BY <1>8, <2>1
<1> QED
    BY <1>1, <1>2, <1>3, <1>4, <1>5, <1>6, <1>7, <1>8 DEF RecoveryNext

\* With a client that waits for the answer of a recovery before it starts a scan, the composition
\* implements FileList: a recovery that reads for a while is one that reads at once
\* (recovery_component.c:40-69).
THEOREM Composition ==
    ASSUME Careful
    PROVE  RecoverySpec => Spec /\ []StaysOpen
<1>1. RecoveryInit => Init /\ StaysOpen
    BY DEF RecoveryInit, Idle, Init, StaysOpen, Recovering
<1>2. StaysOpen /\ [RecoveryNext]_all_vars => StaysOpen' /\ [Next]_vars
    BY OpenStep
<1> QED
    BY <1>1, <1>2, PTL DEF RecoverySpec, Spec

\* So what holds of FileList holds while files are recovered: a recovery reads from the volume
\* its file was listed for, and from one that is open until the last block
\* (recovery_component.c:46-48, testdisk_inject.c:733-904).
THEOREM ReadsOpenVolume ==
    ASSUME ListsFit, Careful
    PROVE  RecoverySpec => [](RecoversWhatWasListed /\ RecoversFromOpenVolume)
    BY Composition, CarefulRecovery, PTL
=============================================================================
