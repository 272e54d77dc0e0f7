--------------------------- MODULE ZeosImageProofs ---------------------------
(***************************************************************************)
(* Proofs about ZeosImage, for any sizes of sectors, tracks, segments and  *)
(* files: the loader reads the image in order and whole, keeps within      *)
(* segments and tracks and off the boot sector, and main finds the user    *)
(* program where build put it.                                             *)
(***************************************************************************)
EXTENDS ZeosImage, SequenceTheorems, TLAPS

Bytes == [from : {"bootsect", "system", "user", "size"}, at : Nat]

\* Byte k behind the boot sector, when the kernel has n bytes.
Byte(n, k) == IF k < n THEN Sys(k) ELSE Usr(k - n)

\* im holds the boot sector and m bytes more.
Copied(im, n, m) ==
  /\ im \in Seq(Bytes) /\ Len(im) = SECTOR + m
  /\ \A k \in 0 .. m - 1 : im[SECTOR + 1 + k] = Byte(n, k)

\* im is the image that is on the floppy.
Patched(im, n, u) ==
  /\ Len(im) = SECTOR + n + u
  /\ im[SECTOR - 2] = Size(ParagraphsOf(n + u))
  /\ im[SECTOR + 1] = Size(n) /\ im[SECTOR + 2] = Size(u)
  /\ \A k \in 3 .. n + u - 1 : im[SECTOR + 1 + k] = Byte(n, k)

Building ==
  /\ pc = "system" => sz <= sys_size /\ Copied(image, sys_size, sys_size - sz)
  /\ pc = "user"   => sz <= usr_size /\ Copied(image, sys_size, sys_size + (usr_size - sz))
  /\ pc = "patch"  => Copied(image, sys_size, sys_size + usr_size)

Booting == {"boot", "rp_read", "main", "usr_main"}
Loading == {"rp_read", "main", "usr_main"}

Built   == pc \in Booting => Patched(image, sys_size, usr_size)
Fits    == im_size <= SYSSIZE

\* Before read_it nothing is loaded.
Untouched ==
  pc \notin Loading => /\ es = 0 /\ bx = 0 /\ sread = 0 /\ head = 0 /\ track = 0
                        /\ \A s \in MemSectors : mem[s] = NONE

\* The sectors before n are in memory, in their order.
Filled(m, n) == \A s \in MemSectors : m[s] = IF s < n THEN s ELSE NONE

\* Where the loader is, in memory and on the floppy.
InStep ==
  pc \in Loading => /\ es <= INITSEG /\ (es = INITSEG => bx = 0)
                     /\ Filled(mem, es * SEGMENT + bx)
                     /\ DiskSector = es * SEGMENT + bx

AllLoaded == pc \in {"main", "usr_main"} => ~MoreToRead

UserCopied == pc = "usr_main" => user = [k \in 1 .. usr_size |-> Usr(k - 1)]

\* The types, with any track.
Typed ==
  /\ sys_size \in SysSizes /\ usr_size \in UsrSizes
  /\ pc \in {"bootsect", "system", "user", "patch", "died", "boot", "rp_read",
             "main", "usr_main"}
  /\ sz \in Nat
  /\ es \in Nat /\ bx \in 0 .. SEGMENT - 1
  /\ sread \in 0 .. SEC_PISTA - 1 /\ head \in {0, 1} /\ track \in Nat
  /\ mem \in [MemSectors -> Nat \cup {NONE}]

IInv == Typed /\ Fits /\ Building /\ Built /\ Untouched /\ InStep /\ AllLoaded /\ UserCopied

-----------------------------------------------------------------------------
(***************************************************************************)
(* Arithmetic.                                                             *)
(***************************************************************************)
\* Quotient and remainder.
LEMMA DivMod ==
  ASSUME NEW a \in Int, NEW b \in Nat \ {0}
  PROVE  /\ a \div b \in Int /\ a % b \in 0 .. b - 1
         /\ a = b * (a \div b) + (a % b)
OBVIOUS

\* Multiplication by a length keeps the order.
LEMMA MulMono ==
  ASSUME NEW a \in Int, NEW b \in Int, NEW c \in Nat, a <= b
  PROVE  a * c <= b * c
OBVIOUS

\* A product of lengths is one.
LEMMA MulNat ==
  ASSUME NEW a \in Nat, NEW b \in Nat
  PROVE  a * b \in Nat
OBVIOUS

\* The order of products is that of the factors.
LEMMA MulLess ==
  ASSUME NEW a \in Int, NEW b \in Int, NEW c \in Nat, a * c < b * c
  PROVE  a < b
<1>1. SUFFICES ASSUME b <= a PROVE FALSE
  OBVIOUS
<1> QED
  BY <1>1, MulMono

\* Quotient and remainder are the only ones.
LEMMA QuotientUnique ==
  ASSUME NEW q \in Int, NEW b \in Nat \ {0}, NEW r \in 0 .. b - 1, NEW a, a = q * b + r
  PROVE  a \div b = q /\ a % b = r
<1>1. a \in Int /\ q * b \in Int
  OBVIOUS
<1>2. PICK d \in Int, e \in 0 .. b - 1 : d = a \div b /\ e = a % b /\ a = b * d + e
  BY <1>1, DivMod
<1>3. b * d = d * b /\ (q - d) * b = q * b - d * b /\ (d - q) * b = d * b - q * b
  OBVIOUS
<1>4. CASE q > d
  <2>1. 1 * b <= (q - d) * b
    BY <1>4, MulMono
  <2> QED
    BY <1>1, <1>2, <1>3, <2>1
<1>5. CASE q < d
  <2>1. 1 * b <= (d - q) * b
    BY <1>5, MulMono
  <2> QED
    BY <1>1, <1>2, <1>3, <2>1
<1>6. CASE q = d
  BY <1>1, <1>2, <1>3, <1>6
<1> QED
  BY <1>4, <1>5, <1>6

-----------------------------------------------------------------------------
(***************************************************************************)
(* The units: paragraphs, sectors and segments.                            *)
(***************************************************************************)
LEMMA Types ==
  /\ SECTOR \in Nat \ {0} /\ PARAGRAPH \in Nat \ {0} /\ BUF \in Nat \ {0}
  /\ SEGMENT \in Nat \ {0} /\ SEC_PISTA \in Nat \ {0} /\ INITSEG \in Nat
  /\ SegParagraphs \in Nat
BY ImageAssumption, MulNat DEF SegParagraphs

\* A segment has a whole number of paragraphs.
LEMMA SegmentBytes == SegParagraphs * PARAGRAPH = SEGMENT * SECTOR
<1>1. PICK m \in Int : SECTOR = PARAGRAPH * m
  <2>1. /\ SECTOR \div PARAGRAPH \in Int
        /\ SECTOR = PARAGRAPH * (SECTOR \div PARAGRAPH) + (SECTOR % PARAGRAPH)
    <3>1. SECTOR \in Int /\ PARAGRAPH \in Nat \ {0}
      BY Types
    <3> QED
      BY <3>1, DivMod
  <2>2. SECTOR = PARAGRAPH * (SECTOR \div PARAGRAPH)
    BY <2>1, ImageAssumption
  <2> QED
    BY <2>1, <2>2, Zenon
<1>2. SEGMENT * SECTOR = (SEGMENT * m) * PARAGRAPH + 0 /\ SEGMENT * m \in Int
  BY <1>1, ImageAssumption
<1>3. (SEGMENT * SECTOR) \div PARAGRAPH = SEGMENT * m
  <2>1. PICK q \in Int, a \in Int : q = SEGMENT * m /\ a = SEGMENT * SECTOR
    BY <1>2, ImageAssumption
  <2>2. a = q * PARAGRAPH + 0 /\ 0 \in 0 .. PARAGRAPH - 1
    BY <1>2, <2>1, ImageAssumption
  <2>3. a \div PARAGRAPH = q
    BY <2>2, QuotientUnique, ImageAssumption
  <2> QED
    BY <2>1, <2>3
<1> QED
  BY <1>2, <1>3, ImageAssumption DEF SegParagraphs

\* The paragraphs of n bytes hold them.
LEMMA ParagraphsHold ==
  ASSUME NEW n \in Nat
  PROVE  ParagraphsOf(n) \in Nat /\ n <= ParagraphsOf(n) * PARAGRAPH
<1> DEFINE a == n + PARAGRAPH - 1
<1>1. a \in Nat
  BY ImageAssumption
<1> HIDE DEF a
<1>2. /\ a \div PARAGRAPH \in Int /\ a % PARAGRAPH \in 0 .. PARAGRAPH - 1
      /\ a = PARAGRAPH * (a \div PARAGRAPH) + (a % PARAGRAPH)
  BY <1>1, DivMod, ImageAssumption
<1>3. PICK q \in Int, r \in 0 .. PARAGRAPH - 1 : q = a \div PARAGRAPH /\ a = PARAGRAPH * q + r
  BY <1>2
<1>4. n <= q * PARAGRAPH
  BY <1>3, ImageAssumption DEF a
<1>5. q \in Nat
  <2>1. SUFFICES ASSUME q <= -1 PROVE FALSE
    OBVIOUS
  <2>2. q * PARAGRAPH <= (-1) * PARAGRAPH
    BY <2>1, MulMono, ImageAssumption
  <2> QED
    BY <1>4, <2>2, ImageAssumption
<1> QED
  BY <1>3, <1>4, <1>5 DEF ParagraphsOf, a

\* A byte of the image is in a sector that is in memory once the paragraphs of
\* e segments are more than those of the image.
LEMMA SectorLoaded ==
  ASSUME NEW n \in Nat, NEW e \in Nat, ParagraphsOf(n) < e * SegParagraphs,
         NEW a \in 0 .. n - 1
  PROVE  /\ a \div SECTOR \in Nat /\ a \div SECTOR < e * SEGMENT
         /\ a % SECTOR \in 0 .. SECTOR - 1
         /\ a = (a \div SECTOR) * SECTOR + (a % SECTOR)
<1>1. PICK q \in Int, r \in 0 .. SECTOR - 1 :
        q = a \div SECTOR /\ r = a % SECTOR /\ a = q * SECTOR + r
  <2>1. /\ a \div SECTOR \in Int /\ a % SECTOR \in 0 .. SECTOR - 1
        /\ a = SECTOR * (a \div SECTOR) + (a % SECTOR)
    BY DivMod, Types
  <2> QED
    BY <2>1, Types
<1>2. PICK P \in Nat : P = ParagraphsOf(n) /\ n <= P * PARAGRAPH
  BY ParagraphsHold
<1>3. P * PARAGRAPH <= (e * SegParagraphs) * PARAGRAPH
  <2>1. e * SegParagraphs \in Nat
    BY Types, MulNat
  <2> QED
    BY <1>2, <2>1, MulMono, Types
<1>4. (e * SegParagraphs) * PARAGRAPH = (e * SEGMENT) * SECTOR
  <2>1. (e * SegParagraphs) * PARAGRAPH = e * (SegParagraphs * PARAGRAPH)
    BY Types
  <2>2. (e * SEGMENT) * SECTOR = e * (SEGMENT * SECTOR)
    BY Types
  <2> QED
    BY <2>1, <2>2, SegmentBytes
<1>5. q < e * SEGMENT
  <2>1. PICK N \in Nat : N = e * SEGMENT
    BY Types, MulNat
  <2>2. q * SECTOR < N * SECTOR
    <3>1. PICK A \in Int, B \in Int, C \in Int :
             A = q * SECTOR /\ B = N * SECTOR /\ C = P * PARAGRAPH
      BY Types
    <3> QED
      BY <1>1, <1>2, <1>3, <1>4, <2>1, <3>1, Types
  <2> QED
    BY <2>1, <2>2, MulLess, Types
<1>6. q \in Nat
  <2>1. SUFFICES ASSUME q <= -1 PROVE FALSE
    OBVIOUS
  <2>2. q * SECTOR <= (-1) * SECTOR
    BY <2>1, MulMono, Types
  <2> QED
    BY <1>1, <2>2, Types
<1> QED
  BY <1>1, <1>5, <1>6

-----------------------------------------------------------------------------
(***************************************************************************)
(* build.                                                                  *)
(***************************************************************************)
\* The first l bytes from byte p of a file, as they are appended.
Piece(file, p, l) == [k \in 1 .. l |-> [from |-> file, at |-> p + k - 1]]

\* A piece is a sequence of bytes.
LEMMA PieceSeq ==
  ASSUME NEW file \in {"system", "user"}, NEW p \in Nat, NEW l \in Nat
  PROVE  /\ Piece(file, p, l) \in Seq(Bytes) /\ Len(Piece(file, p, l)) = l
         /\ \A j \in 1 .. l : Piece(file, p, l)[j] = [from |-> file, at |-> p + j - 1]
<1>1. \A j \in 1 .. l : [from |-> file, at |-> p + j - 1] \in Bytes
  BY DEF Bytes
<1>2. Piece(file, p, l) \in [1 .. l -> Bytes]
  BY <1>1 DEF Piece
<1>3. Piece(file, p, l) \in Seq(Bytes)
  BY <1>2, SeqDef
<1>4. DOMAIN Piece(file, p, l) = 1 .. l
  BY DEF Piece
<1>5. Len(Piece(file, p, l)) = l
  BY <1>3, <1>4, LenProperties
<1> QED
  BY <1>3, <1>5 DEF Piece

\* A piece of a file appended to an image whose next bytes it holds.
LEMMA CopyPiece ==
  ASSUME NEW im, NEW n \in Nat, NEW m \in Nat, Copied(im, n, m),
         NEW file \in {"system", "user"}, NEW p \in Nat, NEW l \in Nat,
         \A j \in 0 .. l - 1 : Byte(n, m + j) = [from |-> file, at |-> p + j]
  PROVE  Copied(im \o Piece(file, p, l), n, m + l)
<1> DEFINE f == Piece(file, p, l)
<1>1. im \in Seq(Bytes) /\ Len(im) = SECTOR + m
  BY DEF Copied
<1>2. /\ f \in Seq(Bytes) /\ Len(f) = l
      /\ \A j \in 1 .. l : f[j] = [from |-> file, at |-> p + j - 1]
  BY PieceSeq
<1> HIDE DEF f
<1>3. /\ im \o f \in Seq(Bytes) /\ Len(im \o f) = Len(im) + Len(f)
      /\ \A i \in 1 .. Len(im) + Len(f) :
           (im \o f)[i] = IF i <= Len(im) THEN im[i] ELSE f[i - Len(im)]
  BY <1>1, <1>2, ConcatProperties
<1>4. Len(im \o f) = SECTOR + (m + l)
  BY <1>1, <1>2, <1>3, Types
<1>5. ASSUME NEW k \in 0 .. (m + l) - 1 PROVE (im \o f)[SECTOR + 1 + k] = Byte(n, k)
  <2>1. SECTOR + 1 + k \in 1 .. Len(im) + Len(f)
    BY <1>1, <1>2, Types
  <2>2. (im \o f)[SECTOR + 1 + k] =
          IF SECTOR + 1 + k <= SECTOR + m THEN im[SECTOR + 1 + k]
                                          ELSE f[SECTOR + 1 + k - (SECTOR + m)]
    <3>1. PICK i \in 1 .. Len(im) + Len(f) : i = SECTOR + 1 + k
      BY <2>1
    <3>2. (im \o f)[i] = IF i <= Len(im) THEN im[i] ELSE f[i - Len(im)]
      BY <1>3, Zenon
    <3>3. PICK g : g = im \o f
      OBVIOUS
    <3>4. g[i] = IF i <= Len(im) THEN im[i] ELSE f[i - Len(im)]
      BY <3>2, <3>3, Zenon
    <3>5. g[SECTOR + 1 + k] =
            IF SECTOR + 1 + k <= SECTOR + m THEN im[SECTOR + 1 + k]
                                            ELSE f[SECTOR + 1 + k - (SECTOR + m)]
      BY <1>1, <3>1, <3>4, Types
    <3> QED
      BY <3>3, <3>5, Zenon
  <2>3. CASE k < m
    <3>1. im[SECTOR + 1 + k] = Byte(n, k)
      BY <2>3 DEF Copied
    <3>2. SECTOR + 1 + k <= SECTOR + m
      BY <2>3, Types
    <3> QED
      BY <2>2, <3>1, <3>2
  <2>4. CASE k >= m
    <3>1. SECTOR + 1 + k - (SECTOR + m) = k - m + 1 /\ ~(SECTOR + 1 + k <= SECTOR + m)
      BY <2>4, Types
    <3>2. k - m + 1 \in 1 .. l /\ p + (k - m + 1) - 1 = p + (k - m)
      BY <2>4
    <3>3. f[k - m + 1] = [from |-> file, at |-> p + (k - m)]
      BY <1>2, <3>2
    <3>4. k - m \in 0 .. l - 1 /\ m + (k - m) = k
      BY <2>4
    <3>5. Byte(n, k) = [from |-> file, at |-> p + (k - m)]
      BY <3>4
    <3> QED
      BY <2>2, <3>1, <3>3, <3>5, Zenon
  <2>5. k < m \/ k >= m
    OBVIOUS
  <2> QED
    BY <2>3, <2>4, <2>5, Zenon
<1> QED
  BY <1>3, <1>4, <1>5 DEF Copied, f

\* The bytes of the two files, as they lie behind the boot sector.
LEMMA SysBytes ==
  ASSUME NEW n \in Nat, NEW m \in Nat, NEW l \in Nat, m + l <= n
  PROVE  \A j \in 0 .. l - 1 : Byte(n, m + j) = [from |-> "system", at |-> m + j]
BY DEF Byte, Sys
\* The user program follows the kernel.
LEMMA UsrBytes ==
  ASSUME NEW n \in Nat, NEW m \in Nat, NEW l \in Nat
  PROVE  \A j \in 0 .. l - 1 : Byte(n, (n + m) + j) = [from |-> "user", at |-> m + j]
<1>1. \A j \in 0 .. l - 1 : ~((n + m) + j < n) /\ ((n + m) + j) - n = m + j
  OBVIOUS
<1> QED
  BY <1>1 DEF Byte, Usr

\* The lengths that build patches.
LEMMA PatchImage ==
  ASSUME NEW im, NEW n \in Nat, NEW u \in Nat, n >= 3, Copied(im, n, n + u), NEW up,
         up = [im EXCEPT ![SECTOR - 2] = Size(ParagraphsOf(n + u)),
                         ![SECTOR + 1] = Size(n), ![SECTOR + 2] = Size(u),
                         ![SECTOR + 3] = Size(0)]
  PROVE  Patched(up, n, u)
<1>1. im \in Seq(Bytes) /\ Len(im) = SECTOR + (n + u)
  BY DEF Copied
<1>2. DOMAIN im = 1 .. SECTOR + n + u
  BY <1>1, LenProperties, Types
<1>3. \A k \in 0 .. (n + u) - 1 : im[SECTOR + 1 + k] = Byte(n, k)
  BY DEF Copied
<1>4. SECTOR \in Nat /\ SECTOR >= 3 /\ SECTOR + n + u \in Nat
  BY ImageAssumption
<1>5. \A x \in {Size(ParagraphsOf(n + u)), Size(n), Size(u), Size(0)} : x \in Bytes
  BY ParagraphsHold DEF Size, Bytes
<1>6. im \in [1 .. SECTOR + n + u -> Bytes]
  BY <1>1, <1>2, LenProperties
<1>7. up \in [1 .. SECTOR + n + u -> Bytes]
  BY <1>5, <1>6
<1>8. Len(up) = SECTOR + n + u
  <2>1. up \in Seq(Bytes)
    BY <1>4, <1>7, SeqDef
  <2>2. DOMAIN up = 1 .. SECTOR + n + u
    BY <1>7
  <2> QED
    BY <1>4, <2>1, <2>2, LenProperties
<1>9. /\ up[SECTOR - 2] = Size(ParagraphsOf(n + u))
      /\ up[SECTOR + 1] = Size(n) /\ up[SECTOR + 2] = Size(u)
  BY <1>2, <1>4
<1>10. ASSUME NEW k \in 3 .. n + u - 1 PROVE up[SECTOR + 1 + k] = Byte(n, k)
  <2>1. SECTOR + 1 + k \in DOMAIN im
    BY <1>2, <1>4
  <2>2. SECTOR + 1 + k \notin {SECTOR - 2, SECTOR + 1, SECTOR + 2, SECTOR + 3}
    BY <1>4
  <2>3. up[SECTOR + 1 + k] = im[SECTOR + 1 + k]
    BY <2>1, <2>2
  <2> QED
    BY <1>3, <2>3
<1> QED
  BY <1>8, <1>9, <1>10 DEF Patched

-----------------------------------------------------------------------------
(***************************************************************************)
(* The loader.                                                             *)
(***************************************************************************)
\* A read gets something, and keeps within the segment and the track.
LEMMA ReadFits ==
  ASSUME Typed
  PROVE  /\ ok1_read \in Nat /\ ok1_read > 0 /\ bx + ok1_read <= SEGMENT
         /\ sread + ok1_read <= SEC_PISTA
BY Types DEF Typed, ok1_read

\* Sector s of memory is one of n from e:b on.
Reached(s, e, b, n) == \E k \in 0 .. n - 1 : s = e * SEGMENT + ((b + k) % SEGMENT)

\* What the BIOS puts where, when it keeps within the segment.
LEMMA ReadSector ==
  ASSUME NEW e \in Nat, NEW b \in Nat, NEW n \in Nat, b + n <= SEGMENT, NEW s \in Int
  PROVE  /\ Reached(s, e, b, n)
              <=> (e * SEGMENT + b <= s /\ s < e * SEGMENT + b + n)
         /\ e * SEGMENT + b <= s /\ s < e * SEGMENT + b + n
              => (s - b) % SEGMENT = s - (e * SEGMENT + b)
<1>1. PICK B \in Nat : B = e * SEGMENT
  BY Types, MulNat
<1>2. ASSUME NEW k \in 0 .. n - 1 PROVE (b + k) % SEGMENT = b + k
  <2>1. PICK r \in 0 .. SEGMENT - 1, q \in Int : r = b + k /\ q = 0
    BY Types
  <2>2. r = q * SEGMENT + r
    BY <2>1, Types
  <2>3. r % SEGMENT = r
    BY <2>2, QuotientUnique, Types
  <2> QED
    BY <2>1, <2>3
<1>3. (\E k \in 0 .. n - 1 : s = B + ((b + k) % SEGMENT)) <=> (B + b <= s /\ s < B + b + n)
  <2>1. (\E k \in 0 .. n - 1 : s = B + ((b + k) % SEGMENT))
          <=> \E k \in 0 .. n - 1 : s = B + (b + k)
    BY <1>2
  <2>2. ASSUME B + b <= s, s < B + b + n PROVE \E k \in 0 .. n - 1 : s = B + (b + k)
    <3>1. s - (B + b) \in 0 .. n - 1 /\ s = B + (b + (s - (B + b)))
      BY <2>2
    <3> QED
      BY <3>1
  <2>3. ASSUME NEW k \in 0 .. n - 1, s = B + (b + k) PROVE B + b <= s /\ s < B + b + n
    BY <2>3
  <2> QED
    BY <2>1, <2>2, <2>3
<1>4. ASSUME B + b <= s, s < B + b + n PROVE (s - b) % SEGMENT = s - (B + b)
  <2>1. PICK r \in 0 .. SEGMENT - 1, a \in Int : r = s - (B + b) /\ a = s - b /\ a = B + r
    BY <1>1, <1>4, Types
  <2>2. a = e * SEGMENT + r
    BY <1>1, <2>1
  <2>3. a % SEGMENT = r
    BY <2>2, QuotientUnique, Types
  <2> QED
    BY <2>1, <2>3
<1> QED
  BY <1>1, <1>3, <1>4 DEF Reached

\* The place on the floppy moves on by what has been read.
LEMMA FloppyMoves ==
  ASSUME NEW t \in Nat, NEW h \in {0, 1}, NEW r \in Nat, NEW n \in Nat, r + n = SEC_PISTA
  PROVE  ((t + h) * 2 + (1 - h)) * SEC_PISTA + 0 - 1 = ((t * 2 + h) * SEC_PISTA + r - 1) + n
<1>1. (t + h) * 2 + (1 - h) = (t * 2 + h) + 1
  OBVIOUS
<1>2. ((t * 2 + h) + 1) * SEC_PISTA = (t * 2 + h) * SEC_PISTA + SEC_PISTA
  BY Types
<1>3. PICK F \in Int : F = (t * 2 + h) * SEC_PISTA
  BY Types
<1> QED
  BY <1>1, <1>2, <1>3, Types
\* read_it and rp_read find the length that build has patched.
LEMMA SyssizePatched ==
  ASSUME IInv, pc \in Booting
  PROVE  /\ syssize = im_size /\ im_size \in Nat /\ im_size <= SYSSIZE
         /\ im_size = ParagraphsOf(sys_size + usr_size)
         /\ sys_size \in Nat /\ sys_size > 3 /\ usr_size \in Nat
<1>1. sys_size \in Nat /\ sys_size > 3 /\ usr_size \in Nat
  BY ImageAssumption DEF IInv, Typed
<1>2. im_size = ParagraphsOf(sys_size + usr_size) /\ im_size \in Nat
  BY <1>1, ParagraphsHold DEF im_size
<1>3. image[SECTOR - 2] = Size(im_size)
  BY <1>2 DEF IInv, Built, Patched
<1>4. syssize = im_size
  BY <1>3 DEF syssize, Size
<1> QED
  BY <1>1, <1>2, <1>4 DEF IInv, Fits

\* As long as there is more to read the loader has not reached the boot sector.
LEMMA RoomLeft ==
  ASSUME IInv, pc \in Booting, MoreToRead
  PROVE  es < INITSEG
<1>1. es \in Nat /\ SYSSIZE \in Nat /\ INITSEG * SegParagraphs \in Nat /\ es * SegParagraphs \in Nat
  BY Types, MulNat, ImageAssumption DEF IInv, Typed
<1>2. es * SegParagraphs < INITSEG * SegParagraphs
  BY <1>1, SyssizePatched, ImageAssumption DEF MoreToRead
<1> QED
  BY <1>1, <1>2, MulLess, Types

\* Segments in sectors.
LEMMA SegmentBounds ==
  ASSUME NEW e \in Nat, e <= INITSEG
  PROVE  /\ e * SEGMENT \in Nat /\ INITSEG * SEGMENT \in Nat
         /\ e * SEGMENT <= INITSEG * SEGMENT
         /\ (e + 1) * SEGMENT = e * SEGMENT + SEGMENT
         /\ MemSectors = 0 .. (INITSEG * SEGMENT + SEGMENT) - 1
<1>1. (INITSEG + 1) * SEGMENT = INITSEG * SEGMENT + SEGMENT
  BY Types
<1>2. (e + 1) * SEGMENT = e * SEGMENT + SEGMENT
  BY Types
<1>3. e * SEGMENT \in Nat /\ INITSEG * SEGMENT \in Nat
  BY Types, MulNat
<1>4. e * SEGMENT <= INITSEG * SEGMENT
  BY Types, MulMono
<1>5. MemSectors = 0 .. (INITSEG * SEGMENT + SEGMENT) - 1
  <2>1. PICK X : X = (INITSEG + 1) * SEGMENT
    OBVIOUS
  <2>2. MemSectors = 0 .. X - 1
    BY <2>1, Zenon DEF MemSectors
  <2>3. X = INITSEG * SEGMENT + SEGMENT
    BY <1>1, <2>1, Zenon
  <2> QED
    BY <2>2, <2>3, Zenon
<1> QED
  BY <1>2, <1>3, <1>4, <1>5, Zenon

\* Memory m after n sectors from d on have been read to e:b.
ReadMem(m, e, b, n, d) ==
  [s \in MemSectors |-> IF Reached(s, e, b, n) THEN d + ((s - b) % SEGMENT) ELSE m[s]]

\* Memory after n sectors, the ones that follow on the floppy, have been read.
LEMMA ReadFills ==
  ASSUME NEW m, NEW e \in Nat, NEW b \in Nat, NEW n \in Nat, b + n <= SEGMENT, e < INITSEG,
         Filled(m, e * SEGMENT + b), NEW d, d = e * SEGMENT + b,
         NEW up, up = ReadMem(m, e, b, n, d)
  PROVE  Filled(up, e * SEGMENT + b + n) /\ up \in [MemSectors -> Nat \cup {NONE}]
<1>1. PICK B \in Nat : B = e * SEGMENT
  BY Types, MulNat
<1>2. ASSUME NEW s \in MemSectors
      PROVE  /\ up[s] = IF s < e * SEGMENT + b + n THEN s ELSE NONE
             /\ s \in Nat
  <2>1. s \in Nat /\ s \in Int
    <3>1. e <= INITSEG
      BY Types
    <3>2. s \in 0 .. (INITSEG * SEGMENT + SEGMENT) - 1
      BY <3>1, SegmentBounds
    <3> QED
      BY <3>2
  <2>2. up[s] = IF Reached(s, e, b, n) THEN d + ((s - b) % SEGMENT) ELSE m[s]
    BY DEF ReadMem
  <2>3. m[s] = IF s < B + b THEN s ELSE NONE
    BY <1>1 DEF Filled
  <2>4. Reached(s, e, b, n) <=> (B + b <= s /\ s < B + b + n)
    BY <1>1, <2>1, ReadSector
  <2>5. B + b <= s /\ s < B + b + n => (s - b) % SEGMENT = s - (B + b)
    BY <1>1, <2>1, ReadSector
  <2>6. CASE B + b <= s /\ s < B + b + n
    <3>1. up[s] = d + ((s - b) % SEGMENT)
      BY <2>2, <2>4, <2>6, Zenon
    <3>2. d + (s - (B + b)) = s
      BY <1>1, <2>1
    <3> QED
      BY <1>1, <2>1, <2>5, <2>6, <3>1, <3>2
  <2>7. CASE ~(B + b <= s /\ s < B + b + n)
    <3>1. up[s] = m[s]
      BY <2>2, <2>4, <2>7, Zenon
    <3> QED
      BY <1>1, <2>1, <2>3, <2>7, <3>1
  <2> QED
    BY <2>6, <2>7, Zenon
<1>3. Filled(up, e * SEGMENT + b + n)
  BY <1>2 DEF Filled
<1>4. \A s \in MemSectors : up[s] \in Nat \cup {NONE}
  BY <1>2
<1> QED
  BY <1>3, <1>4 DEF ReadMem

\* A round of the loader.
LEMMA ReadStep ==
  ASSUME IInv, rp_read
  PROVE  IInv'
<1>1. /\ pc = "rp_read" /\ MoreToRead /\ read_track(ok1_read)
      /\ NextTrack(ok1_read) /\ NextAddress(ok1_read)
      /\ UNCHANGED <<sys_size, usr_size, pc, sz, image, user>>
  BY DEF rp_read, buildVars
<1>2. Typed /\ Fits /\ Building /\ Built /\ Untouched /\ InStep
  BY DEF IInv
<1>3. PICK n \in Nat : /\ n = ok1_read /\ n > 0 /\ bx + n <= SEGMENT
                       /\ sread + n <= SEC_PISTA
  BY <1>2, ReadFits
<1>4. es < INITSEG
  BY <1>1, RoomLeft DEF Booting
<1>5. /\ es \in Nat /\ bx \in Nat /\ bx < SEGMENT /\ sread \in Nat /\ sread < SEC_PISTA
      /\ head \in {0, 1} /\ track \in Nat
  BY <1>2, Types DEF Typed
<1>6. PICK B \in Nat : /\ B = es * SEGMENT /\ (es + 1) * SEGMENT = B + SEGMENT
  BY <1>4, <1>5, SegmentBounds, Types
<1>7. Filled(mem, es * SEGMENT + bx) /\ DiskSector = es * SEGMENT + bx
  BY <1>1, <1>2 DEF InStep, Loading
<1>8. Filled(mem', es * SEGMENT + bx + n) /\ mem' \in [MemSectors -> Nat \cup {NONE}]
  <2>1. mem' = [s \in MemSectors |->
                  IF \E k \in 0 .. n - 1 : s = es * SEGMENT + ((bx + k) % SEGMENT)
                    THEN DiskSector + ((s - bx) % SEGMENT) ELSE mem[s]]
    BY <1>1, <1>3 DEF read_track
  <2>2. PICK m, d, e, b : m = mem /\ d = DiskSector /\ e = es /\ b = bx
    OBVIOUS
  <2>3. PICK up : up = mem'
    OBVIOUS
  <2>4. up = ReadMem(m, e, b, n, d)
    BY <2>1, <2>2, <2>3 DEF ReadMem, Reached
  <2>5. /\ Filled(m, e * SEGMENT + b) /\ d = e * SEGMENT + b /\ e < INITSEG
        /\ b + n <= SEGMENT /\ e \in Nat /\ b \in Nat
    BY <1>3, <1>4, <1>5, <1>7, <2>2
  <2>6. Filled(up, e * SEGMENT + b + n) /\ up \in [MemSectors -> Nat \cup {NONE}]
    BY <2>4, <2>5, ReadFills
  <2> QED
    BY <2>2, <2>3, <2>6
<1>9. /\ es' \in Nat /\ bx' \in 0 .. SEGMENT - 1 /\ es' <= INITSEG
      /\ es' = INITSEG => bx' = 0
      /\ es' * SEGMENT + bx' = es * SEGMENT + bx + n
  <2>1. IF bx + n >= SEGMENT THEN es' = es + 1 /\ bx' = 0 ELSE bx' = bx + n /\ es' = es
    BY <1>1, <1>3 DEF NextAddress
  <2>2. CASE bx + n >= SEGMENT
    <3>1. es' = es + 1 /\ bx' = 0 /\ bx + n = SEGMENT
      BY <1>3, <1>5, <2>1, <2>2, Types
    <3>2. es' * SEGMENT = B + SEGMENT
      BY <1>6, <3>1, Zenon
    <3> QED
      BY <1>4, <1>5, <1>6, <3>1, <3>2, Types
  <2>3. CASE ~(bx + n >= SEGMENT)
    <3>1. es' = es /\ bx' = bx + n
      BY <2>1, <2>3
    <3> QED
      BY <1>3, <1>4, <1>5, <1>6, <2>3, <3>1, Types
  <2> QED
    BY <2>2, <2>3
<1>10. /\ sread' \in 0 .. SEC_PISTA - 1 /\ head' \in {0, 1} /\ track' \in Nat
       /\ DiskSector' = DiskSector + n
  <2>1. IF sread + n = SEC_PISTA
          THEN sread' = 0 /\ head' = 1 - head /\ track' = track + head
          ELSE sread' = sread + n /\ head' = head /\ track' = track
    BY <1>1, <1>3 DEF NextTrack
  <2>2. CASE sread + n = SEC_PISTA
    <3>1. sread' = 0 /\ head' = 1 - head /\ track' = track + head
      BY <2>1, <2>2
    <3>2. DiskSector' = ((track + head) * 2 + (1 - head)) * SEC_PISTA + 0 - 1
      BY <3>1 DEF DiskSector
    <3>3. DiskSector' = DiskSector + n
      BY <1>3, <1>5, <2>2, <3>2, FloppyMoves DEF DiskSector
    <3> QED
      BY <1>5, <3>1, <3>3, Types
  <2>3. CASE sread + n # SEC_PISTA
    <3>1. sread' = sread + n /\ head' = head /\ track' = track
      BY <2>1, <2>3
    <3>2. PICK F \in Int : F = (track * 2 + head) * SEC_PISTA
      BY <1>5, Types
    <3>3. DiskSector = F + sread - 1 /\ DiskSector' = F + (sread + n) - 1
      BY <3>1, <3>2 DEF DiskSector
    <3> QED
      BY <1>3, <1>5, <2>3, <3>1, <3>3, Types
  <2> QED
    BY <2>2, <2>3
<1>11. InStep'
  <2>1. Filled(mem', es' * SEGMENT + bx') /\ DiskSector' = es' * SEGMENT + bx'
    BY <1>7, <1>8, <1>9, <1>10
  <2> QED
    BY <1>9, <2>1 DEF InStep
<1>12. Typed'
  BY <1>1, <1>2, <1>8, <1>9, <1>10 DEF Typed
<1>13. /\ Building' /\ Built' /\ Fits' /\ Untouched' /\ AllLoaded' /\ UserCopied'
  BY <1>1, <1>2 DEF Building, Built, Fits, im_size, Untouched, Loading, AllLoaded, UserCopied
<1> QED
  BY <1>11, <1>12, <1>13 DEF IInv
-----------------------------------------------------------------------------
(***************************************************************************)
(* main.                                                                   *)
(***************************************************************************)
\* Once the loader has ended, memory holds every byte of the image in its place.
LEMMA MemByteImage ==
  ASSUME IInv, pc \in {"main", "usr_main"}, NEW a \in 0 .. (sys_size + usr_size) - 1
  PROVE  MemByte(a) = image[SECTOR + 1 + a]
<1>1. /\ syssize = ParagraphsOf(sys_size + usr_size)
      /\ sys_size \in Nat /\ usr_size \in Nat /\ syssize \in Nat
  BY SyssizePatched DEF Booting
<1>2. es \in Nat /\ bx \in Nat /\ es <= INITSEG /\ Filled(mem, es * SEGMENT + bx)
  BY Types DEF IInv, Typed, InStep, Loading
<1>3. PICK N \in Nat, E \in Nat : N = sys_size + usr_size /\ E = es
  BY <1>1, <1>2
<1>4. ParagraphsOf(N) < E * SegParagraphs
  <2>1. ~(E * SegParagraphs <= ParagraphsOf(N))
    BY <1>1, <1>3 DEF IInv, AllLoaded, MoreToRead
  <2>2. E * SegParagraphs \in Nat
    BY MulNat, Types
  <2>3. ParagraphsOf(N) \in Nat
    BY ParagraphsHold
  <2> QED
    BY <2>1, <2>2, <2>3
<1>5. PICK q \in Nat, r \in 0 .. SECTOR - 1 :
        q = a \div SECTOR /\ r = a % SECTOR /\ q < E * SEGMENT /\ a = q * SECTOR + r
  <2>1. a \in 0 .. N - 1
    BY <1>3
  <2> QED
    BY <1>4, <2>1, SectorLoaded
<1>6. q \in MemSectors /\ q < es * SEGMENT + bx
  <2>1. /\ es * SEGMENT \in Nat /\ INITSEG * SEGMENT \in Nat
        /\ es * SEGMENT <= INITSEG * SEGMENT
        /\ MemSectors = 0 .. (INITSEG * SEGMENT + SEGMENT) - 1
    BY <1>2, SegmentBounds
  <2>2. PICK A \in Nat, B \in Nat : A = es * SEGMENT /\ B = INITSEG * SEGMENT
    BY <2>1
  <2>3. q \in 0 .. (B + SEGMENT) - 1 /\ q < A + bx
    BY <1>2, <1>3, <1>5, <2>1, <2>2, Types
  <2> QED
    BY <2>1, <2>2, <2>3
<1>7. mem[q] = q
  BY <1>6 DEF Filled, IInv, InStep, Loading
<1>8. (q + 1) * SECTOR + r + 1 = SECTOR + 1 + a
  <2>1. (q + 1) * SECTOR = q * SECTOR + SECTOR
    BY Types
  <2>2. PICK Q \in Int : Q = q * SECTOR
    BY Types
  <2> QED
    BY <1>5, <2>1, <2>2, Types
<1>9. ~(mem[q] = NONE \/ SECTOR + 1 + a > Len(image))
  <2>1. Len(image) = SECTOR + sys_size + usr_size
    BY DEF IInv, Built, Booting, Patched
  <2> QED
    BY <1>1, <1>7, <2>1, Types DEF NONE
<1>10. MemByte(a) = IF mem[q] = NONE \/ (mem[q] + 1) * SECTOR + r + 1 > Len(image) THEN Junk
                    ELSE image[(mem[q] + 1) * SECTOR + r + 1]
  BY <1>5, Zenon DEF MemByte
<1> QED
  BY <1>7, <1>8, <1>9, <1>10, Zenon

\* The bytes that are not patched.
LEMMA MemByteFile ==
  ASSUME IInv, pc \in {"main", "usr_main"}, NEW a \in 3 .. (sys_size + usr_size) - 1
  PROVE  MemByte(a) = Byte(sys_size, a)
<1>1. a \in 0 .. (sys_size + usr_size) - 1 /\ a \in 3 .. sys_size + usr_size - 1
  BY SyssizePatched DEF Booting
<1>2. image[SECTOR + 1 + a] = Byte(sys_size, a)
  BY <1>1 DEF IInv, Built, Booting, Patched
<1> QED
  BY <1>1, <1>2, MemByteImage

\* The lengths that main finds are those of the files.
LEMMA LengthsFound ==
  ASSUME IInv, pc \in {"main", "usr_main"}
  PROVE  p_sys_size = sys_size /\ p_usr_size = usr_size
<1>1. 0 \in 0 .. (sys_size + usr_size) - 1 /\ 1 \in 0 .. (sys_size + usr_size) - 1
  BY SyssizePatched DEF Booting
<1>2. MemByte(0) = image[SECTOR + 1] /\ MemByte(1) = image[SECTOR + 2]
  <2>1. MemByte(0) = image[SECTOR + 1 + 0] /\ MemByte(1) = image[SECTOR + 1 + 1]
    BY <1>1, MemByteImage
  <2>2. SECTOR + 1 + 0 = SECTOR + 1 /\ SECTOR + 1 + 1 = SECTOR + 2
    BY Types
  <2> QED
    BY <2>1, <2>2, Zenon
<1>3. image[SECTOR + 1] = Size(sys_size) /\ image[SECTOR + 2] = Size(usr_size)
  BY DEF IInv, Built, Booting, Patched
<1> QED
  BY <1>2, <1>3 DEF p_sys_size, p_usr_size, Size

\* main copies the user program, all of it.
LEMMA CopyToUserStep ==
  ASSUME IInv, copyToUser
  PROVE  IInv'
<1>1. /\ pc = "main" /\ pc' = "usr_main"
      /\ user' = [k \in 1 .. p_usr_size |-> MemByte(p_sys_size + k - 1)]
      /\ UNCHANGED <<sys_size, usr_size, sz, image, es, bx, sread, head, track, mem>>
  BY DEF copyToUser, buildVars, loaderVars
<1>2. sys_size \in Nat /\ sys_size > 3 /\ usr_size \in Nat
  BY <1>1, SyssizePatched DEF Booting
<1>3. user' = [k \in 1 .. usr_size |-> MemByte(sys_size + k - 1)]
  BY <1>1, LengthsFound
<1>4. ASSUME NEW k \in 1 .. usr_size PROVE MemByte(sys_size + k - 1) = Usr(k - 1)
  <2>1. PICK a \in 3 .. (sys_size + usr_size) - 1 : a = sys_size + k - 1
    BY <1>2
  <2>2. MemByte(a) = Byte(sys_size, a)
    BY <1>1, MemByteFile
  <2>3. ~(a < sys_size) /\ a - sys_size = k - 1
    BY <1>2, <2>1
  <2>4. Byte(sys_size, a) = Usr(k - 1)
    BY <2>3 DEF Byte
  <2> QED
    BY <2>1, <2>2, <2>4, Zenon
<1>5. user' = [k \in 1 .. usr_size |-> Usr(k - 1)]
  BY <1>3, <1>4
<1>6. UserCopied'
  BY <1>1, <1>5 DEF UserCopied, Usr
<1>7. Typed' /\ Fits' /\ Building' /\ Built' /\ Untouched' /\ InStep' /\ AllLoaded'
  BY <1>1 DEF IInv, Typed, Fits, im_size, Building, Built, Booting, Untouched, Loading, InStep,
              DiskSector, AllLoaded, MoreToRead, syssize
<1> QED
  BY <1>6, <1>7 DEF IInv

-----------------------------------------------------------------------------
(***************************************************************************)
(* The other steps.                                                        *)
(***************************************************************************)
\* While build runs nothing is loaded.
LEMMA BuildLeaves ==
  ASSUME IInv, pc \notin Booting, pc' \notin Loading,
         UNCHANGED <<sys_size, usr_size, loaderVars>>
  PROVE  Fits' /\ Untouched' /\ InStep' /\ AllLoaded' /\ UserCopied'
BY DEF IInv, Fits, im_size, Untouched, Booting, Loading, InStep, AllLoaded, UserCopied, loaderVars

\* Before build runs nothing is written and nothing is loaded.
LEMMA InitInv == Init => IInv
<1> SUFFICES ASSUME Init PROVE IInv
  OBVIOUS
<1>1. Typed
  BY Types, ImageAssumption DEF Init, Typed, NONE
<1> QED
  BY <1>1 DEF Init, IInv, Fits, im_size, Building, Built, Booting, Untouched, Loading, InStep,
              AllLoaded, UserCopied

\* build gives up.
LEMMA DieStep == ASSUME IInv, die PROVE IInv'
<1>1. Fits' /\ Untouched' /\ InStep' /\ AllLoaded' /\ UserCopied'
  BY BuildLeaves DEF die, Booting, Loading
<1> QED
  BY <1>1 DEF die, IInv, Typed, Building, Built, Booting, buildVars, loaderVars

\* build copies the boot sector.
LEMMA BootsectStep == ASSUME IInv, copyBootsect PROVE IInv'
<1>1. /\ pc' = "system" /\ sz' = sys_size /\ image' = [k \in 1 .. SECTOR |-> Boot]
      /\ UNCHANGED <<sys_size, usr_size, loaderVars>> /\ pc = "bootsect"
  BY DEF copyBootsect
<1>2. Fits' /\ Untouched' /\ InStep' /\ AllLoaded' /\ UserCopied'
  BY <1>1, BuildLeaves DEF Booting, Loading
<1>3. sys_size \in Nat
  BY ImageAssumption DEF IInv, Typed
<1>4. image' \in Seq(Bytes) /\ Len(image') = SECTOR
  <2>1. image' \in [1 .. SECTOR -> Bytes] /\ DOMAIN image' = 1 .. SECTOR
    BY <1>1 DEF Boot, Bytes
  <2>2. image' \in Seq(Bytes)
    BY <2>1, SeqDef, Types
  <2> QED
    BY <2>1, <2>2, LenProperties, Types
<1>5. Copied(image', sys_size', sys_size' - sz')
  BY <1>1, <1>3, <1>4, Types DEF Copied
<1>6. Typed'
  BY <1>1, <1>3 DEF IInv, Typed, loaderVars
<1> QED
  BY <1>1, <1>2, <1>3, <1>5, <1>6 DEF IInv, Building, Built, Booting

\* What a chunk of a file of n bytes does.
LEMMA ChunkPiece ==
  ASSUME NEW file, NEW n \in Nat, sz \in Nat, sz <= n, Chunk(file, n)
  PROVE  \E l \in Nat : /\ l <= sz /\ sz' = sz - l
                        /\ image' = image \o Piece(file, n - sz, l)
<1>1. PICK l \in Nat : l <= sz /\ l = IF sz > BUF THEN BUF ELSE sz
  BY Types
<1>2. sz' = sz - l /\ image' = image \o [k \in 1 .. l |-> [from |-> file, at |-> n - sz + k - 1]]
  BY <1>1 DEF Chunk
<1> QED
  BY <1>1, <1>2 DEF Piece

\* build copies a chunk of the kernel, or ends with it.
LEMMA SystemStep == ASSUME IInv, copySystem PROVE IInv'
<1>1. pc = "system" /\ UNCHANGED <<sys_size, usr_size, loaderVars>>
  BY DEF copySystem
<1>2. /\ sys_size \in Nat /\ usr_size \in Nat /\ sz \in Nat /\ sz <= sys_size
      /\ Copied(image, sys_size, sys_size - sz)
  BY <1>1, ImageAssumption DEF IInv, Typed, Building
<1>3. CASE Chunk("system", sys_size) /\ UNCHANGED pc
  <2>1. PICK l \in Nat : /\ l <= sz /\ sz' = sz - l
                         /\ image' = image \o Piece("system", sys_size - sz, l)
    BY <1>2, <1>3, ChunkPiece
  <2>2. PICK n \in Nat, m \in Nat, im \in Seq(Bytes) : n = sys_size /\ m = sys_size - sz /\ im = image
    BY <1>2 DEF Copied
  <2>3. \A j \in 0 .. l - 1 : Byte(n, m + j) = [from |-> "system", at |-> m + j]
    <3>1. m + l <= n
      BY <1>2, <2>1, <2>2
    <3> QED
      BY <3>1, SysBytes
  <2>4. Copied(im \o Piece("system", m, l), n, m + l)
    BY <1>2, <2>2, <2>3, CopyPiece
  <2>5. m + l = sys_size - sz'
    BY <1>2, <2>1, <2>2
  <2>6. Copied(image', sys_size', sys_size' - sz') /\ sz' \in Nat /\ sz' <= sys_size'
    BY <1>1, <1>2, <2>1, <2>2, <2>4, <2>5
  <2>7. Fits' /\ Untouched' /\ InStep' /\ AllLoaded' /\ UserCopied'
    BY <1>1, <1>3, BuildLeaves DEF Booting, Loading
  <2> QED
    BY <1>1, <1>3, <2>6, <2>7 DEF IInv, Typed, Building, Built, Booting, loaderVars
<1>4. CASE sz = 0 /\ pc' = "user" /\ sz' = usr_size /\ UNCHANGED image
  <2>1. sys_size - sz = sys_size + (usr_size' - sz')
    BY <1>1, <1>2, <1>4
  <2>2. Copied(image', sys_size', sys_size' + (usr_size' - sz')) /\ sz' <= usr_size'
    BY <1>1, <1>2, <1>4, <2>1
  <2>3. Fits' /\ Untouched' /\ InStep' /\ AllLoaded' /\ UserCopied'
    BY <1>1, <1>4, BuildLeaves DEF Booting, Loading
  <2> QED
    BY <1>1, <1>2, <1>4, <2>2, <2>3 DEF IInv, Typed, Building, Built, Booting, loaderVars
<1> QED
  BY <1>3, <1>4 DEF copySystem

\* build copies a chunk of the user program, or ends with it.
LEMMA UserStep == ASSUME IInv, copyUser PROVE IInv'
<1>1. pc = "user" /\ UNCHANGED <<sys_size, usr_size, loaderVars>>
  BY DEF copyUser
<1>2. /\ sys_size \in Nat /\ usr_size \in Nat /\ sz \in Nat /\ sz <= usr_size
      /\ Copied(image, sys_size, sys_size + (usr_size - sz))
  BY <1>1, ImageAssumption DEF IInv, Typed, Building
<1>3. CASE Chunk("user", usr_size) /\ UNCHANGED pc
  <2>1. PICK l \in Nat : /\ l <= sz /\ sz' = sz - l
                         /\ image' = image \o Piece("user", usr_size - sz, l)
    BY <1>2, <1>3, ChunkPiece
  <2>2. PICK n \in Nat, m \in Nat, im \in Seq(Bytes) : n = sys_size /\ m = usr_size - sz /\ im = image
    BY <1>2 DEF Copied
  <2>3. \A j \in 0 .. l - 1 : Byte(n, (n + m) + j) = [from |-> "user", at |-> m + j]
    BY UsrBytes
  <2>4. Copied(im \o Piece("user", m, l), n, (n + m) + l)
    <3>1. PICK d \in Nat : d = n + m
      OBVIOUS
    <3>2. Copied(im, n, d)
      BY <1>2, <2>2, <3>1
    <3>3. \A j \in 0 .. l - 1 : Byte(n, d + j) = [from |-> "user", at |-> m + j]
      BY <2>3, <3>1
    <3>4. Copied(im \o Piece("user", m, l), n, d + l)
      BY <3>2, <3>3, CopyPiece
    <3> QED
      BY <3>1, <3>4, Zenon
  <2>5. (n + m) + l = sys_size + (usr_size - sz')
    BY <1>2, <2>1, <2>2
  <2>6. /\ Copied(image', sys_size', sys_size' + (usr_size' - sz'))
        /\ sz' \in Nat /\ sz' <= usr_size'
    BY <1>1, <1>2, <2>1, <2>2, <2>4, <2>5
  <2>7. Fits' /\ Untouched' /\ InStep' /\ AllLoaded' /\ UserCopied'
    BY <1>1, <1>3, BuildLeaves DEF Booting, Loading
  <2> QED
    BY <1>1, <1>3, <2>6, <2>7 DEF IInv, Typed, Building, Built, Booting, loaderVars
<1>4. CASE sz = 0 /\ pc' = "patch" /\ UNCHANGED buildVars
  <2>1. sys_size + (usr_size - sz) = sys_size + usr_size
    BY <1>2, <1>4
  <2>2. Copied(image', sys_size', sys_size' + usr_size')
    BY <1>1, <1>2, <1>4, <2>1 DEF buildVars
  <2>3. Fits' /\ Untouched' /\ InStep' /\ AllLoaded' /\ UserCopied'
    BY <1>1, <1>4, BuildLeaves DEF Booting, Loading
  <2> QED
    BY <1>1, <1>2, <1>4, <2>2, <2>3
    DEF IInv, Typed, Building, Built, Booting, loaderVars, buildVars
<1> QED
  BY <1>3, <1>4 DEF copyUser

\* build patches the lengths.
LEMMA PatchStep == ASSUME IInv, patch PROVE IInv'
<1>1. /\ pc = "patch" /\ pc' = "boot" /\ UNCHANGED <<sys_size, usr_size, sz, loaderVars>>
      /\ image' = [image EXCEPT ![SECTOR - 2] = Size(im_size), ![SECTOR + 1] = Size(sys_size),
                                ![SECTOR + 2] = Size(usr_size), ![SECTOR + 3] = Size(0)]
  BY DEF patch
<1>2. /\ sys_size \in Nat /\ usr_size \in Nat /\ sys_size >= 3
      /\ Copied(image, sys_size, sys_size + usr_size)
  BY <1>1, ImageAssumption DEF IInv, Typed, Building
<1>3. Patched(image', sys_size', usr_size')
  <2>1. PICK n \in Nat, u \in Nat : n = sys_size /\ u = usr_size
    BY <1>2
  <2>2. PICK im, up : im = image /\ up = image'
    OBVIOUS
  <2>3. up = [im EXCEPT ![SECTOR - 2] = Size(ParagraphsOf(n + u)), ![SECTOR + 1] = Size(n),
                        ![SECTOR + 2] = Size(u), ![SECTOR + 3] = Size(0)]
    BY <1>1, <2>1, <2>2, Zenon DEF im_size
  <2>4. Copied(im, n, n + u) /\ n >= 3
    BY <1>2, <2>1, <2>2, Zenon
  <2>5. Patched(up, n, u)
    BY <2>3, <2>4, PatchImage
  <2> QED
    BY <1>1, <2>1, <2>2, <2>5
<1>4. Fits' /\ Untouched' /\ InStep' /\ AllLoaded' /\ UserCopied'
  BY <1>1, BuildLeaves DEF Booting, Loading
<1> QED
  BY <1>1, <1>3, <1>4 DEF IInv, Typed, Building, Built, loaderVars

\* The loader starts at the second sector of the floppy.
LEMMA ReadItStep == ASSUME IInv, read_it PROVE IInv'
<1>1. /\ pc = "boot" /\ pc' = "rp_read" /\ sread' = 1
      /\ UNCHANGED <<sys_size, usr_size, sz, image, es, bx, head, track, mem, user>>
  BY DEF read_it, SETUPSECS, buildVars
<1>2. /\ es = 0 /\ bx = 0 /\ head = 0 /\ track = 0 /\ \A s \in MemSectors : mem[s] = NONE
  BY <1>1 DEF IInv, Untouched, Loading
<1>3. es * SEGMENT + bx = 0 /\ DiskSector' = 0 /\ es <= INITSEG
  <2>1. 0 * SEGMENT + 0 = 0 /\ (0 * 2 + 0) * SEC_PISTA + 1 - 1 = 0 /\ 0 <= INITSEG
    BY Types
  <2> QED
    BY <1>1, <1>2, <2>1 DEF DiskSector
<1>4. \A s \in MemSectors : ~(s < 0)
  <2>1. MemSectors = 0 .. (INITSEG * SEGMENT + SEGMENT) - 1
    <3>1. 0 \in Nat /\ 0 <= INITSEG
      BY Types
    <3> QED
      BY <3>1, SegmentBounds
  <2> QED
    BY <2>1
<1>5. Filled(mem, 0)
  BY <1>2, <1>4 DEF Filled
<1>6. InStep'
  BY <1>1, <1>2, <1>3, <1>5 DEF InStep
<1>7. Typed'
  BY <1>1, ImageAssumption DEF IInv, Typed
<1>8. Fits' /\ Building' /\ Built' /\ Untouched' /\ AllLoaded' /\ UserCopied'
  BY <1>1 DEF IInv, Fits, im_size, Building, Built, Booting, Untouched, Loading, AllLoaded, UserCopied
<1> QED
  BY <1>6, <1>7, <1>8 DEF IInv

\* The loader has loaded all.
LEMMA EndReadStep == ASSUME IInv, endRead PROVE IInv'
BY DEF endRead, IInv, Typed, Fits, im_size, Building, Built, Booting, Untouched, Loading, InStep,
       DiskSector, AllLoaded, MoreToRead, syssize, UserCopied, buildVars, loaderVars

\* Nothing changes.
LEMMA StutterStep == ASSUME IInv, UNCHANGED vars PROVE IInv'
BY DEF vars, IInv, Typed, Fits, im_size, Building, Built, Booting, Untouched, Loading, InStep,
       DiskSector, AllLoaded, MoreToRead, syssize, UserCopied, buildVars, loaderVars

\* Every step keeps the invariant.
LEMMA NextInv == IInv /\ [Next]_vars => IInv'
BY DieStep, BootsectStep, SystemStep, UserStep, PatchStep, ReadItStep, ReadStep, EndReadStep,
   CopyToUserStep, StutterStep, Zenon DEF Next

\* The invariant holds in every reachable state.
LEMMA SpecInv == Spec => []IInv
BY InitInv, NextInv, PTL DEF Spec

\* The loader never gets past the segments below the boot sector.
LEMMA PlaceBound ==
  ASSUME IInv, pc \in Loading
  PROVE  es * SEGMENT + bx \in Nat /\ es * SEGMENT + bx <= INITSEG * SEGMENT
<1>1. es \in Nat /\ es <= INITSEG /\ bx \in 0 .. SEGMENT - 1 /\ (es = INITSEG => bx = 0)
  BY DEF IInv, Typed, InStep
<1>2. PICK A \in Nat, B \in Nat : A = es * SEGMENT /\ B = INITSEG * SEGMENT
  BY <1>1, SegmentBounds
<1>3. CASE es = INITSEG
  BY <1>1, <1>2, <1>3
<1>4. CASE es < INITSEG
  <2>1. es + 1 <= INITSEG /\ es + 1 \in Nat
    BY <1>1, <1>4, Types
  <2>2. (es + 1) * SEGMENT <= INITSEG * SEGMENT
    BY <2>1, SegmentBounds
  <2>3. (es + 1) * SEGMENT = es * SEGMENT + SEGMENT
    BY <1>1, SegmentBounds
  <2> QED
    BY <1>1, <1>2, <2>2, <2>3, Types
<1> QED
  BY <1>1, <1>3, <1>4, Types

\* A place below the boot sector lies on a track of the floppy.
LEMMA TrackBound ==
  ASSUME NEW p \in Nat, NEW t \in Nat, NEW h \in {0, 1}, NEW r \in Nat,
         p <= INITSEG * SEGMENT, (t * 2 + h) * SEC_PISTA + r - 1 = p
  PROVE  t < TRACKS
<1>1. TRACKS \in Nat /\ SEC_PISTA \in Nat /\ INITSEG * SEGMENT + 1 < (TRACKS * 2) * SEC_PISTA
  BY ImageAssumption
<1>2. PICK F \in Int, X \in Int, M \in Int :
        /\ F = (t * 2 + h) * SEC_PISTA /\ X = INITSEG * SEGMENT
        /\ M = (TRACKS * 2) * SEC_PISTA
  BY <1>1, Types
<1>3. F < M
  BY <1>1, <1>2
<1>4. ASSUME t >= TRACKS PROVE FALSE
  <2>1. TRACKS * 2 <= t * 2 + h /\ TRACKS * 2 \in Int /\ t * 2 + h \in Int
    BY <1>1, <1>4
  <2>2. M <= F
    BY <1>1, <1>2, <2>1, MulMono
  <2> QED
    BY <1>3, <2>2
<1> QED
  BY <1>1, <1>4

-----------------------------------------------------------------------------
(***************************************************************************)
(* Theorems.                                                               *)
(***************************************************************************)
\* Every variable of ZeosImage keeps its type, and the sector, head and track
\* that bootsect.S is at are ones a floppy of any geometry has, as long as it
\* holds what fits below the boot sector.
THEOREM ImageTypeCorrect == Spec => []TypeOK
<1>1. ASSUME IInv PROVE track \in 0 .. TRACKS - 1
  <2>1. track \in Nat /\ sread \in Nat /\ head \in {0, 1} /\ TRACKS \in Nat \ {0}
    BY <1>1, Types, ImageAssumption DEF IInv, Typed
  <2>2. CASE pc \in Loading
    <3>1. PICK p \in Nat, t \in Nat, h \in {0, 1}, r \in Nat :
            /\ p = es * SEGMENT + bx /\ p <= INITSEG * SEGMENT
            /\ t = track /\ h = head /\ r = sread
      BY <1>1, <2>1, <2>2, PlaceBound
    <3>2. (t * 2 + h) * SEC_PISTA + r - 1 = p
      BY <1>1, <2>2, <3>1 DEF IInv, InStep, DiskSector
    <3>3. t < TRACKS
      BY <3>1, <3>2, TrackBound
    <3> QED
      BY <2>1, <3>1, <3>3
  <2>3. CASE pc \notin Loading
    BY <1>1, <2>1, <2>3 DEF IInv, Untouched
  <2> QED
    BY <2>2, <2>3
<1>2. IInv => TypeOK
  BY <1>1 DEF IInv, Typed, TypeOK
<1> QED
  BY <1>2, SpecInv, PTL

\* After every read of bootsect.S memory holds the sectors behind the boot
\* sector in their order and without a gap, whatever the sizes of tracks and
\* segments are to each other.
THEOREM LoaderInOrder == Spec => []LoadedInOrder
<1>1. IInv => LoadedInOrder
  BY DEF IInv, InStep, Loading, Filled, LoadedInOrder
<1> QED
  BY <1>1, SpecInv, PTL

\* No read crosses the end of a segment or of a track, and none is empty.
THEOREM LoaderReadsFit == Spec => []ReadsFit
<1>1. IInv => ReadsFit
  BY ReadFits DEF IInv, ReadsFit
<1> QED
  BY <1>1, SpecInv, PTL

\* An image of at most SYSSIZE paragraphs is never loaded over the boot sector
\* that runs.
THEOREM LoaderKeepsBootsect == Spec => []BootsectKept
<1>1. ASSUME IInv, NEW s \in MemSectors, s >= INITSEG * SEGMENT PROVE mem[s] = NONE
  <2>1. CASE pc \in Loading
    <3>1. /\ es \in Nat /\ es <= INITSEG /\ bx \in 0 .. SEGMENT - 1 /\ (es = INITSEG => bx = 0)
          /\ mem[s] = IF s < es * SEGMENT + bx THEN s ELSE NONE
      BY <1>1, <2>1 DEF IInv, Typed, InStep, Filled
    <3>2. PICK A \in Nat, B \in Nat : A = es * SEGMENT /\ B = INITSEG * SEGMENT
      BY <3>1, SegmentBounds
    <3>3. A + bx <= B
      BY <1>1, <2>1, <3>2, PlaceBound
    <3>4. s \in Int
      <4>1. s \in 0 .. (INITSEG * SEGMENT + SEGMENT) - 1
        BY <3>1, SegmentBounds
      <4> QED
        BY <4>1
    <3> QED
      BY <1>1, <3>1, <3>2, <3>3, <3>4
  <2>2. CASE pc \notin Loading
    BY <1>1, <2>2 DEF IInv, Untouched
  <2> QED
    BY <2>1, <2>2
<1>2. IInv => BootsectKept
  BY <1>1 DEF BootsectKept
<1> QED
  BY <1>2, SpecInv, PTL

\* From end to end: when user mode is reached the user pages hold the user
\* program of build's third file, and the kernel is in memory from main on.
THEOREM ProgramsLoaded == Spec => []ProgramsInPlace
<1>1. ASSUME IInv, pc = "usr_main", NEW k \in MAIN .. sys_size - 1 PROVE MemByte(k) = Sys(k)
  <2>1. sys_size \in Nat /\ usr_size \in Nat
    BY <1>1, SyssizePatched DEF Booting
  <2>2. k \in 3 .. (sys_size + usr_size) - 1 /\ k < sys_size
    BY <2>1, ImageAssumption
  <2> QED
    BY <1>1, <2>2, MemByteFile DEF Byte
<1>2. IInv => ProgramsInPlace
  BY <1>1 DEF IInv, UserCopied, ProgramsInPlace
<1> QED
  BY <1>2, SpecInv, PTL
=============================================================================
