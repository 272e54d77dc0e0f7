------------------------------ MODULE ZeosImage ------------------------------
(***************************************************************************)
(* How the system gets into memory: zeos/build.c puts boot sector, kernel  *)
(* and user program into one disk image, zeos/bootsect.S loads the image   *)
(* from the floppy at SYSSEG, and main of zeos/system.c moves the user     *)
(* program to its pages.  Three programs must agree on lengths that build  *)
(* patches into the image.                                                 *)
(*                                                                         *)
(* The image is a sequence of bytes, each named by the file and the place  *)
(* it comes from; a patched length is one byte.  Disk and memory are       *)
(* counted in sectors from the image's second one and from SYSSEG.  The    *)
(* drive is assumed not to fail: read_track ignores the error flag.        *)
(***************************************************************************)
EXTENDS Integers, Sequences

CONSTANTS
  SECTOR,        \* bytes of a sector                                     (512)
  PARAGRAPH,     \* bytes of a paragraph, the unit of segment registers    (16)
  SEGMENT,       \* sectors of a segment of 64kB                          (128)
  SEC_PISTA,     \* sectors of a track                                     (18)
  TRACKS,        \* tracks of the floppy, under each of its two heads      (80)
  BUF,           \* bytes build copies at a time                         (1024)
  MAIN,          \* offset of the first instruction of main in the kernel  (16)
  INITSEG,       \* segments between SYSSEG and the boot sector             (8)
  SYSSIZE,       \* largest image, in paragraphs                       (0x7F00)
  SysSizes, UsrSizes   \* lengths of the two files in this instance

ParagraphsOf(n) == (n + PARAGRAPH - 1) \div PARAGRAPH
SegParagraphs   == (SEGMENT * SECTOR) \div PARAGRAPH

ASSUME ImageAssumption ==
  /\ SECTOR \in Nat /\ SECTOR >= 3 /\ PARAGRAPH \in Nat \ {0} /\ BUF \in Nat \ {0}
  /\ SEGMENT \in Nat \ {0} /\ SEC_PISTA \in Nat \ {0, 1} /\ SEC_PISTA <= SEGMENT
  /\ SECTOR % PARAGRAPH = 0 /\ MAIN \in Nat /\ MAIN >= 3
  /\ INITSEG \in Nat /\ SYSSIZE \in Nat /\ SYSSIZE < INITSEG * SegParagraphs
  /\ TRACKS \in Nat \ {0} /\ INITSEG * SEGMENT + 1 < (TRACKS * 2) * SEC_PISTA
  /\ SysSizes \subseteq {n \in Nat : n > MAIN} /\ UsrSizes \subseteq Nat

VARIABLES
  sys_size, usr_size,      \* what fstat says of the two files
  pc,
  sz,                      \* bytes of the current file still to copy
  image,                   \* the output of build
  es, bx,                  \* where to load: segments past SYSSEG, sectors in it
  sread, head, track,      \* where the floppy is
  mem,                     \* the disk sector that each sector of memory holds
  user                     \* what main copies to the user pages

buildVars  == <<sz, image>>
loaderVars == <<es, bx, sread, head, track, mem>>
vars == <<sys_size, usr_size, pc, buildVars, loaderVars, user>>

NONE == -1
\* One segment more than the loader may use.
MemSectors == 0 .. (INITSEG + 1) * SEGMENT - 1

Boot    == [from |-> "bootsect", at |-> 0]
Sys(k)  == [from |-> "system", at |-> k]
Usr(k)  == [from |-> "user", at |-> k]
Size(n) == [from |-> "size", at |-> n]
Junk    == [from |-> "junk", at |-> 0]

Init ==
  /\ sys_size \in SysSizes /\ usr_size \in UsrSizes
  /\ ParagraphsOf(sys_size + usr_size) <= SYSSIZE
  /\ pc = "bootsect" /\ sz = 0 /\ image = <<>>
  /\ es = 0 /\ bx = 0 /\ sread = 0 /\ head = 0 /\ track = 0
  /\ mem = [s \in MemSectors |-> NONE]
  /\ user = <<>>

(***************************************************************************)
(* build.  A file that cannot be opened or is not what it should be, a     *)
(* read that comes short and a failing write end it.                       *)
(***************************************************************************)
die ==
  /\ pc \in {"bootsect", "system", "user", "patch"}
  /\ pc' = "died"
  /\ UNCHANGED <<sys_size, usr_size, buildVars, loaderVars, user>>

copyBootsect ==
  /\ pc = "bootsect"
  /\ image' = [k \in 1 .. SECTOR |-> Boot]
  /\ pc' = "system" /\ sz' = sys_size
  /\ UNCHANGED <<sys_size, usr_size, loaderVars, user>>

\* The next l bytes of a file of n bytes, of which sz are left.
Chunk(file, n) ==
  LET l == IF sz > BUF THEN BUF ELSE sz
  IN  /\ image' = image \o [k \in 1 .. l |-> [from |-> file, at |-> n - sz + k - 1]]
      /\ sz' = sz - l

copySystem ==
  /\ pc = "system"
  /\ \/ sz > 0 /\ Chunk("system", sys_size) /\ UNCHANGED pc
     \/ sz = 0 /\ pc' = "user" /\ sz' = usr_size /\ UNCHANGED image
  /\ UNCHANGED <<sys_size, usr_size, loaderVars, user>>

copyUser ==
  /\ pc = "user"
  /\ \/ sz > 0 /\ Chunk("user", usr_size) /\ UNCHANGED pc
     \/ sz = 0 /\ pc' = "patch" /\ UNCHANGED buildVars
  /\ UNCHANGED <<sys_size, usr_size, loaderVars, user>>

\* Mutant: the image without the user program.
im_size_sys == ParagraphsOf(sys_size)
im_size == ParagraphsOf(sys_size + usr_size)

\* syssize lies in the boot sector, the other lengths and 0x7DDB at the start of
\* the kernel, in front of main.
patch ==
  /\ pc = "patch"
  /\ image' = [image EXCEPT ![SECTOR - 2] = Size(im_size),
                            ![SECTOR + 1] = Size(sys_size),
                            ![SECTOR + 2] = Size(usr_size),
                            ![SECTOR + 3] = Size(0)]
  /\ pc' = "boot"
  /\ UNCHANGED <<sys_size, usr_size, sz, loaderVars, user>>

(***************************************************************************)
(* read_it.  The boot sector is the first sector of the first track.       *)
(***************************************************************************)
SETUPSECS == 0
\* What read_it compares with: it is in the boot sector the BIOS has loaded.
syssize == image[SECTOR - 2].at

read_it ==
  /\ pc = "boot"
  /\ sread' = SETUPSECS + 1
  /\ pc' = "rp_read"
  /\ UNCHANGED <<sys_size, usr_size, buildVars, es, bx, head, track, mem, user>>

\* Mutant: the rest of the track whatever the segment has room for.
ok1_read_track == SEC_PISTA - sread
\* Mutant: nothing when the rest of the track does not fit.
ok1_read_none == IF bx + (SEC_PISTA - sread) <= SEGMENT THEN SEC_PISTA - sread ELSE 0
\* The rest of the track, or as much of it as the segment has room for.
ok1_read ==
  IF bx + (SEC_PISTA - sread) <= SEGMENT THEN SEC_PISTA - sread ELSE SEGMENT - bx

\* The BIOS: n sectors from the current place of the floppy, counted from the
\* first sector after the boot sector, to es:bx.  The offset bx has 16 bits.
DiskSector == (track * 2 + head) * SEC_PISTA + sread - 1
read_track(n) ==
  mem' = [s \in MemSectors |->
    IF \E k \in 0 .. n - 1 : s = es * SEGMENT + ((bx + k) % SEGMENT)
      THEN DiskSector + ((s - bx) % SEGMENT)
      ELSE mem[s]]

\* Mutant: the track changes with every head.
NextTrack_always(n) ==
  IF sread + n = SEC_PISTA
    THEN sread' = 0 /\ head' = 1 - head /\ track' = track + 1
    ELSE sread' = sread + n /\ UNCHANGED <<head, track>>
\* Mutant: an off-by-one at the end of the track.
NextTrack_late(n) ==
  IF sread + n > SEC_PISTA
    THEN sread' = 0 /\ head' = 1 - head /\ track' = track + head
    ELSE sread' = sread + n /\ UNCHANGED <<head, track>>
\* Past the last sector of a track comes the other head, or the next track.
NextTrack(n) ==
  IF sread + n = SEC_PISTA
    THEN sread' = 0 /\ head' = 1 - head /\ track' = track + head
    ELSE sread' = sread + n /\ UNCHANGED <<head, track>>

NextAddress(n) ==
  IF bx + n >= SEGMENT THEN es' = es + 1 /\ bx' = 0
                       ELSE bx' = bx + n /\ UNCHANGED es

\* Mutant: the comparison is made after loading.
MoreToRead_late == es = 0 \/ (es - 1) * SegParagraphs <= syssize
\* jbe: es, which only changes by whole segments, is not past the image.
MoreToRead == es * SegParagraphs <= syssize

rp_read ==
  /\ pc = "rp_read" /\ MoreToRead
  /\ read_track(ok1_read) /\ NextTrack(ok1_read) /\ NextAddress(ok1_read)
  /\ UNCHANGED <<sys_size, usr_size, pc, buildVars, user>>

endRead ==
  /\ pc = "rp_read" /\ ~MoreToRead
  /\ pc' = "main"
  /\ UNCHANGED <<sys_size, usr_size, buildVars, loaderVars, user>>

(***************************************************************************)
(* main moves the user program, which it finds by the patched lengths.     *)
(***************************************************************************)
\* Byte a past SYSSEG.  The floppy goes on after the image.
MemByte(a) ==
  LET k == (mem[a \div SECTOR] + 1) * SECTOR + (a % SECTOR) + 1
  IN  IF mem[a \div SECTOR] = NONE \/ k > Len(image) THEN Junk ELSE image[k]

p_sys_size == MemByte(0).at
p_usr_size == MemByte(1).at

copyToUser ==
  /\ pc = "main"
  /\ user' = [k \in 1 .. p_usr_size |-> MemByte(p_sys_size + k - 1)]
  /\ pc' = "usr_main"
  /\ UNCHANGED <<sys_size, usr_size, buildVars, loaderVars>>

Next == \/ die \/ copyBootsect \/ copySystem \/ copyUser \/ patch
        \/ read_it \/ rp_read \/ endRead \/ copyToUser

Spec == Init /\ [][Next]_vars

\* build, boot sector and main run without anyone to stop them.
FairSpec == Spec /\ WF_vars(Next)

-----------------------------------------------------------------------------
(***************************************************************************)
(* Properties.                                                             *)
(***************************************************************************)
\* Every variable keeps its type; the sector, the head and the track to read
\* next are ones the floppy has, however far the loader reads past the image.
TypeOK ==
  /\ sys_size \in SysSizes /\ usr_size \in UsrSizes
  /\ pc \in {"bootsect", "system", "user", "patch", "died", "boot", "rp_read",
             "main", "usr_main"}
  /\ sz \in Nat
  /\ es \in Nat /\ bx \in 0 .. SEGMENT - 1
  /\ sread \in 0 .. SEC_PISTA - 1 /\ head \in {0, 1} /\ track \in 0 .. TRACKS - 1
  /\ mem \in [MemSectors -> Nat \cup {NONE}]

\* The floppy and the memory stay in step, whatever mixture of whole tracks,
\* ends of segments and changes of head the loader goes through: after every
\* read memory holds the sectors that follow the boot sector, in their order,
\* without a gap, and the next one to read follows them.
LoadedInOrder ==
  pc \in {"rp_read", "main"} =>
    LET next == es * SEGMENT + bx
    IN  /\ \A s \in MemSectors : mem[s] = IF s < next THEN s ELSE NONE
        /\ DiskSector = next

\* "making sure no 64kB boundaries are crossed" (bootsect.S:200): no read of the
\* BIOS goes over the end of a segment or of a track, and each reads something.
ReadsFit ==
  pc = "rp_read" => /\ ok1_read > 0
                    /\ bx + ok1_read <= SEGMENT
                    /\ sread + ok1_read <= SEC_PISTA

\* An image of at most SYSSIZE never reaches the boot sector, which runs from
\* INITSEG while it loads, although the loader reads on to the end of a segment.
BootsectKept ==
  \A s \in MemSectors : s >= INITSEG * SEGMENT => mem[s] = NONE

\* From end to end: in user mode the pages of the user hold the user program,
\* to the last byte, and the kernel is in memory from main on.
ProgramsInPlace ==
  pc = "usr_main" =>
    /\ user = [k \in 1 .. usr_size |-> Usr(k - 1)]
    /\ \A k \in MAIN .. sys_size - 1 : MemByte(k) = Sys(k)

\* The boot comes to an end: user mode is reached unless build has failed.
Boots == <>(pc \in {"usr_main", "died"})
=============================================================================
