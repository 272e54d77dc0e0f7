-------------------------- MODULE ZeosConsoleProofs --------------------------
(***************************************************************************)
(* Proofs that write is all or nothing, that the cursor stays on the       *)
(* screen, and that the line under it shows the end of the printed text,   *)
(* for any size of the screen, of the buffer and of the chunks in which    *)
(* sys_write copies it.                                                    *)
(***************************************************************************)
EXTENDS ZeosConsole, SequenceTheorems, WellFoundedInduction, TLAPS

Bytes == Chars \cup {NL}

\* Behind its first s characters t holds the first m of b, and no more.
Holds(t, s, b, m) == Len(t) = s + m /\ \A j \in 1 .. m : t[s + j] = b[j]

\* The first m characters of the buffer are what has been printed since the
\* call began.
Printed(m) == Holds(text, start, buffer, m)

Texts == /\ text \in Seq(Bytes) /\ buffer \in Seq(Bytes)
         /\ start \in Nat /\ start <= Len(text)

\* In the loop of sys_write: what is left and what is written add up.
Writing == pc = "write" =>
             /\ call = "write" /\ written \in Nat /\ size \in Nat
             /\ written + size = Len(buffer) /\ Printed(written)

\* What is in %eax when the wrapper gets it.
InWrapper == pc = "libc" =>
               /\ eax \in Int
               /\ IF call = "write" /\ eax >= 0
                    THEN eax = Len(buffer) /\ Printed(Len(buffer))
                    ELSE /\ Len(text) = start
                         /\ call = "write" => eax \in {-EBADF, -EFAULT, -EINVAL}

\* What the caller of the wrapper gets.
Returned == pc = "returned" =>
              IF call = "write" /\ ret # -1
                THEN ret = Len(buffer) /\ Printed(Len(buffer))
                ELSE /\ Len(text) = start
                     /\ call = "write" => errno \in {EBADF, EFAULT, EINVAL}

AtBoot == pc = "boot" => start = 0

WriteInv == Texts /\ AtBoot /\ Writing /\ InWrapper /\ Returned

-----------------------------------------------------------------------------
(***************************************************************************)
(* Lemmas about sequences.                                                 *)
(***************************************************************************)
\* The buffers of a program are sequences of characters.
LEMMA BufferSeq == ASSUME NEW b \in Buffers PROVE b \in Seq(Bytes)
<1>1. PICK n \in 0 .. MaxBuffer : b \in [1 .. n -> Bytes]
  BY DEF Buffers, Bytes
<1>2. n \in Nat
  BY ConsoleAssumption
<1> QED
  BY <1>1, <1>2, SeqDef

\* The characters of a concatenation.
LEMMA ConcatBytes ==
  ASSUME NEW t \in Seq(Bytes), NEW f \in Seq(Bytes)
  PROVE  /\ t \o f \in Seq(Bytes) /\ Len(t \o f) = Len(t) + Len(f)
         /\ \A k \in 1 .. Len(t) + Len(f) :
              (t \o f)[k] = IF k <= Len(t) THEN t[k] ELSE f[k - Len(t)]
<1>1. t \o f \in Seq(Bytes) /\ Len(t \o f) = Len(t) + Len(f)
  OBVIOUS
<1>2. ASSUME NEW k \in 1 .. Len(t) + Len(f)
      PROVE  (t \o f)[k] = IF k <= Len(t) THEN t[k] ELSE f[k - Len(t)]
  OBVIOUS
<1> QED
  BY <1>1, <1>2

\* Printing the next n characters of a buffer b behind the first m.
LEMMA NextFragment ==
  ASSUME NEW t \in Seq(Bytes), NEW b \in Seq(Bytes), NEW s \in Nat, NEW m \in Nat,
         NEW n \in Nat, m + n <= Len(b), Holds(t, s, b, m)
  PROVE  LET f == SubSeq(b, m + 1, m + n)
         IN  t \o f \in Seq(Bytes) /\ Holds(t \o f, s, b, m + n)
<1> DEFINE f == SubSeq(b, m + 1, m + n)
<1>0. Len(t) = s + m /\ \A j \in 1 .. m : t[s + j] = b[j]
  BY DEF Holds
<1>1. Len(b) \in Nat
  BY LenProperties
<1>2. \A k \in m + 1 .. m + n : b[k] \in Bytes
  BY <1>1, ElementOfSeq
<1>3. /\ f \in Seq(Bytes) /\ Len(f) = n
      /\ \A k \in 1 .. n : f[k] = b[m + k]
  <2>1. /\ f \in Seq(Bytes)
        /\ Len(f) = IF m + 1 <= m + n THEN (m + n) - (m + 1) + 1 ELSE 0
        /\ \A k \in 1 .. (m + n) - (m + 1) + 1 : f[k] = b[(m + 1) + k - 1]
    BY <1>2, SubSeqProperties
  <2>2. (m + n) - (m + 1) + 1 = n /\ (m + 1 <= m + n <=> n # 0)
    OBVIOUS
  <2>3. \A k \in 1 .. n : (m + 1) + k - 1 = m + k
    OBVIOUS
  <2> QED
    BY <2>1, <2>2, <2>3
<1> HIDE DEF f
<1>4. /\ t \o f \in Seq(Bytes) /\ Len(t \o f) = Len(t) + Len(f)
      /\ \A k \in 1 .. Len(t) + Len(f) :
           (t \o f)[k] = IF k <= Len(t) THEN t[k] ELSE f[k - Len(t)]
  BY <1>3, ConcatBytes
<1>5. ASSUME NEW j \in 1 .. m + n PROVE (t \o f)[s + j] = b[j]
  <2>1. (t \o f)[s + j] = IF s + j <= s + m THEN t[s + j] ELSE f[s + j - (s + m)]
    <3>1. s + j \in 1 .. Len(t) + Len(f)
      BY <1>0, <1>3
    <3> QED
      BY <1>0, <1>4, <3>1
  <2>2. CASE j <= m
    BY <1>0, <2>1, <2>2
  <2>3. CASE j > m
    <3>1. s + j - (s + m) = j - m /\ j - m \in 1 .. n /\ m + (j - m) = j
      BY <2>3
    <3>2. f[j - m] = b[m + (j - m)]
      BY <1>3, <3>1
    <3> QED
      BY <2>1, <2>3, <3>1, <3>2
  <2>4. j <= m \/ j > m
    OBVIOUS
  <2> QED
    BY <2>2, <2>3, <2>4, Zenon
<1>6. Len(t \o f) = s + (m + n)
  <2>1. Len(t \o f) = (s + m) + n
    BY <1>0, <1>3, <1>4, Zenon
  <2> QED
    BY <2>1
<1> QED
  BY <1>4, <1>5, <1>6 DEF Holds, f

-----------------------------------------------------------------------------
(***************************************************************************)
(* The invariant is kept.                                                  *)
(***************************************************************************)
\* The kernel prints n characters more of the buffer.
LEMMA PrintsMore ==
  ASSUME WriteInv, pc = "write", NEW n \in Nat, n <= size,
         text' = text \o Fragment(n), UNCHANGED <<buffer, start>>
  PROVE  Texts' /\ Holds(text', start, buffer, written + n)
<1>1. /\ text \in Seq(Bytes) /\ buffer \in Seq(Bytes) /\ start \in Nat /\ written \in Nat
      /\ size \in Nat /\ written + size = Len(buffer) /\ Holds(text, start, buffer, written)
  BY DEF WriteInv, Texts, Writing, Printed
<1>2. text' = text \o SubSeq(buffer, written + 1, written + n)
  BY DEF Fragment
<1>3. written + n <= Len(buffer)
  BY <1>1
<1>4. text' \in Seq(Bytes) /\ Holds(text', start, buffer, written + n)
  BY <1>1, <1>2, <1>3, NextFragment
<1>5. start <= Len(text')
  BY <1>1, <1>4 DEF Holds
<1> QED
  BY <1>1, <1>4, <1>5 DEF Texts

\* A round of the loop of sys_write.
LEMMA WriteChunk == WriteInv /\ write_chunk => WriteInv'
<1> SUFFICES ASSUME WriteInv, write_chunk PROVE WriteInv'
  OBVIOUS
<1>1. /\ pc = "write" /\ size >= MAX_WRITE /\ pc' = pc /\ call' = call
      /\ text' = text \o Fragment(MAX_WRITE)
      /\ written' = written + MAX_WRITE /\ size' = size - MAX_WRITE
      /\ UNCHANGED <<buffer, start>>
  BY DEF write_chunk, copy_from_user
<1>2. MAX_WRITE \in Nat
  BY ConsoleAssumption
<1>3. /\ call = "write" /\ written \in Nat /\ size \in Nat
      /\ written + size = Len(buffer)
  BY <1>1 DEF WriteInv, Writing
<1>4. Texts' /\ Holds(text', start, buffer, written + MAX_WRITE)
  BY <1>1, <1>2, <1>3, PrintsMore
<1>5. Printed(written)'
  BY <1>1, <1>4 DEF Printed
<1>6. /\ written' \in Nat /\ size' \in Nat /\ written' + size' = Len(buffer')
  BY <1>1, <1>2, <1>3
<1> QED
  BY <1>1, <1>3, <1>4, <1>5, <1>6 DEF WriteInv, Writing, InWrapper, Returned, AtBoot

\* The rest, after which the call returns the size.
LEMMA WriteRest == WriteInv /\ write_rest => WriteInv'
<1> SUFFICES ASSUME WriteInv, write_rest PROVE WriteInv'
  OBVIOUS
<1>1. /\ pc = "write" /\ pc' = "libc" /\ call' = call /\ eax' = written + size
      /\ text' = text \o Fragment(size) /\ UNCHANGED <<buffer, start>>
  BY DEF write_rest, Return
<1>2. /\ call = "write" /\ written \in Nat /\ size \in Nat
      /\ written + size = Len(buffer)
  BY <1>1 DEF WriteInv, Writing
<1>3. Texts' /\ Holds(text', start, buffer, written + size)
  BY <1>1, <1>2, PrintsMore
<1>4. Printed(Len(buffer))'
  BY <1>1, <1>2, <1>3 DEF Printed
<1>5. eax' \in Int /\ eax' >= 0 /\ eax' = Len(buffer')
  BY <1>1, <1>2
<1> QED
  BY <1>1, <1>2, <1>3, <1>4, <1>5 DEF WriteInv, Writing, InWrapper, Returned, AtBoot

\* The beginning of write, with its error returns.
LEMMA WriteBegins ==
  ASSUME WriteInv, NEW fd, NEW null, NEW b \in Seq(Bytes), NEW n \in Int,
         n < 0 \/ n = Len(b), sys_write(fd, null, b, n)
  PROVE  WriteInv'
<1>1. /\ call' = "write" /\ start' = Len(text) /\ text' = text
  BY DEF sys_write, Enter
<1>2. CASE /\ pc' = "libc" /\ eax' \in {-EBADF, -EFAULT, -EINVAL} /\ buffer' = buffer
  <2>1. eax' \in Int /\ eax' < 0
    BY <1>2 DEF EBADF, EFAULT, EINVAL
  <2>2. Texts'
    BY <1>1, <1>2, LenProperties DEF WriteInv, Texts
  <2> QED
    BY <1>1, <1>2, <2>1, <2>2 DEF WriteInv, Writing, InWrapper, Returned, AtBoot
<1>3. CASE n >= 0 /\ buffer' = b /\ size' = n /\ written' = 0 /\ pc' = "write"
  <2>1. Len(text) \in Nat /\ Len(b) \in Nat
    BY LenProperties DEF WriteInv, Texts
  <2>2. n = Len(b)
    BY <1>3, <2>1
  <2>3. Texts'
    BY <1>1, <1>3, <2>1 DEF WriteInv, Texts
  <2>4. Printed(written)'
    BY <1>1, <1>3, <2>1 DEF Printed, Holds
  <2>5. written' \in Nat /\ size' \in Nat /\ written' + size' = Len(buffer')
    BY <1>3, <2>1, <2>2
  <2> QED
    BY <1>1, <1>3, <2>3, <2>4, <2>5 DEF WriteInv, Writing, InWrapper, Returned, AtBoot
<1> QED
  BY <1>2, <1>3 DEF sys_write, Return, writeVars

\* The other calls, which print nothing.
LEMMA OtherCalls ==
  ASSUME WriteInv, NEW c, c # "write", NEW r \in Int, Enter(c), Return(r),
         UNCHANGED <<buffer, text>>
  PROVE  WriteInv'
<1>1. pc' = "libc" /\ call' = c /\ start' = Len(text) /\ eax' = r
  BY DEF Enter, Return
<1>2. Texts'
  BY <1>1, LenProperties DEF WriteInv, Texts
<1> QED
  BY <1>1, <1>2 DEF WriteInv, Writing, InWrapper, Returned, AtBoot

\* The wrapper of write tells size or error.
LEMMA WriteWrapper == WriteInv /\ write => WriteInv'
<1> SUFFICES ASSUME WriteInv, write PROVE WriteInv'
  OBVIOUS
<1>1. /\ pc = "libc" /\ pc' = "returned" /\ call = "write" /\ call' = call
      /\ UNCHANGED <<buffer, text, start>>
      /\ IF eax < 0 THEN errno' = -eax /\ ret' = -1 ELSE ret' = eax
  BY DEF write, Wrapper, Result, writeVars
<1>2. /\ eax \in Int
      /\ IF eax >= 0 THEN eax = Len(buffer) /\ Printed(Len(buffer))
                     ELSE Len(text) = start /\ eax \in {-EBADF, -EFAULT, -EINVAL}
  BY <1>1 DEF WriteInv, InWrapper
<1>3. Texts'
  BY <1>1 DEF WriteInv, Texts
<1>4. CASE eax >= 0
  <2>1. ret' = Len(buffer') /\ ret' # -1 /\ Printed(Len(buffer))'
    BY <1>1, <1>2, <1>4 DEF Printed, Holds
  <2> QED
    BY <1>1, <1>3, <2>1 DEF WriteInv, Writing, InWrapper, Returned, AtBoot
<1>5. CASE eax < 0
  <2>1. ret' = -1 /\ errno' \in {EBADF, EFAULT, EINVAL} /\ Len(text') = start'
    BY <1>1, <1>2, <1>5 DEF EBADF, EFAULT, EINVAL
  <2> QED
    BY <1>1, <1>3, <2>1 DEF WriteInv, Writing, InWrapper, Returned, AtBoot
<1> QED
  BY <1>2, <1>4, <1>5

\* The other wrappers.
LEMMA OtherWrappers ==
  ASSUME WriteInv, NEW c, c # "write", Wrapper(c)
  PROVE  WriteInv'
<1>1. /\ pc = "libc" /\ pc' = "returned" /\ call = c /\ call' = call
      /\ UNCHANGED <<buffer, text, start>>
  BY DEF Wrapper, writeVars
<1>2. Len(text) = start /\ Texts'
  BY <1>1 DEF WriteInv, InWrapper, Texts
<1> QED
  BY <1>1, <1>2 DEF WriteInv, Writing, InWrapper, Returned, AtBoot

\* Boot, keys, ticks, and the return to the program.
LEMMA Others ==
  ASSUME WriteInv,
         \/ \E s \in Buffers : printk(s)
         \/ \E released, c : keyboard_routine(released, c)
         \/ \E face : zeos_show_clock(face)
         \/ proceed
         \/ UNCHANGED vars
  PROVE  WriteInv'
<1>1. CASE \E s \in Buffers : printk(s)
  <2>1. PICK s \in Buffers : printk(s)
    BY <1>1
  <2>2. /\ text' = s /\ pc = "boot" /\ pc' = "user" /\ UNCHANGED <<buffer, start>>
    BY <2>1 DEF printk, writeVars
  <2>3. s \in Seq(Bytes)
    BY BufferSeq
  <2>4. Len(s) \in Nat /\ start = 0
    BY <2>2, <2>3, LenProperties DEF WriteInv, AtBoot
  <2> QED
    BY <2>2, <2>3, <2>4 DEF WriteInv, Texts, Writing, InWrapper, Returned, AtBoot
<1>2. CASE (\E released, c : keyboard_routine(released, c)) \/ (\E face : zeos_show_clock(face))
  BY <1>2 DEF keyboard_routine, zeos_show_clock, writeVars, WriteInv, Texts, Writing, InWrapper,
              Returned, AtBoot, Printed
<1>3. CASE proceed
  <2>1. Texts'
    BY <1>3, EmptySeq, LenProperties DEF proceed, WriteInv, Texts
  <2> QED
    BY <1>3, <2>1 DEF proceed, WriteInv, Writing, InWrapper, Returned, AtBoot
<1>4. CASE UNCHANGED vars
  BY <1>4 DEF vars, writeVars, WriteInv, Texts, Writing, InWrapper, Returned, AtBoot, Printed
<1> QED
  BY <1>1, <1>2, <1>3, <1>4

\* Every step keeps the invariant.
LEMMA WriteStep == WriteInv /\ [Next]_vars => WriteInv'
<1> SUFFICES ASSUME WriteInv, [Next]_vars PROVE WriteInv'
  OBVIOUS
<1>1. CASE \E b \in Buffers : sys_write(1, FALSE, b, Len(b))
  <2>1. PICK b \in Buffers : sys_write(1, FALSE, b, Len(b))
    BY <1>1
  <2>2. b \in Seq(Bytes)
    BY BufferSeq
  <2>3. Len(b) \in Int
    BY <2>2, LenProperties
  <2> QED
    BY <2>1, <2>2, <2>3, WriteBegins
<1>2. CASE \E fd \in {0, 1}, null \in BOOLEAN, n \in {-1, 0} : sys_write(fd, null, <<>>, n)
  <2>1. PICK fd \in {0, 1}, null \in BOOLEAN, n \in {-1, 0} : sys_write(fd, null, <<>>, n)
    BY <1>2
  <2>2. <<>> \in Seq(Bytes) /\ n \in Int /\ (n < 0 \/ n = Len(<<>>))
    BY EmptySeq
  <2> QED
    BY <2>1, <2>2, WriteBegins
<1>3. CASE \E n \in Numbers : system_call_handler(n)
  <2>1. /\ Enter("int80") /\ Return(-ENOSYS) /\ UNCHANGED <<buffer, text>>
        /\ -ENOSYS \in Int
    BY <1>3 DEF system_call_handler, writeVars, ENOSYS
  <2> QED
    BY <2>1, OtherCalls
<1>4. CASE sys_gettime(1) \/ sys_getpid(1)
  <2>1. /\ Enter("gettime") \/ Enter("getpid")
        /\ Return(1) /\ UNCHANGED <<buffer, text>>
    BY <1>4 DEF sys_gettime, sys_getpid, writeVars
  <2> QED
    BY <2>1, OtherCalls
<1>5. CASE \E pid \in {-1, 1}, st \in BOOLEAN, known \in BOOLEAN : sys_get_stats(pid, st, known)
  <2>1. \E r \in Int : Enter("get_stats") /\ Return(r) /\ UNCHANGED <<buffer, text>>
    BY <1>5 DEF sys_get_stats, writeVars, EINVAL, EFAULT, ESRCH
  <2> QED
    BY <2>1, OtherCalls
<1>6. CASE gettime \/ get_stats \/ getpid \/ int80
  <2>1. \E c : c # "write" /\ Wrapper(c)
    BY <1>6 DEF gettime, get_stats, getpid, int80
  <2> QED
    BY <2>1, OtherWrappers
<1>7. CASE \/ \E released \in BOOLEAN, c \in Chars \cup {NL, ""} : keyboard_routine(released, c)
           \/ \E face \in [ClockCells -> Chars] : zeos_show_clock(face)
  BY <1>7, Others
<1>8. CASE (\E s \in Buffers : printk(s)) \/ proceed \/ UNCHANGED vars
  BY <1>8, Others
<1> QED
  BY <1>1, <1>2, <1>3, <1>4, <1>5, <1>6, <1>7, <1>8, WriteChunk, WriteRest, WriteWrapper
     DEF Next

\* write is all or nothing for every size of the buffer and of the chunks, with
\* keys and ticks arriving in between: it returns the size and has printed the buffer in
\* order and once, or returns -1 with an error and has printed nothing; no other
\* call prints.
THEOREM ConsoleWrites == Spec => []WriteAllOrNothing
<1>1. Init => WriteInv
  BY EmptySeq DEF Init, WriteInv, Texts, AtBoot, Writing, InWrapper, Returned
<1>2. WriteInv => WriteAllOrNothing
  <2> SUFFICES ASSUME WriteInv, pc = "returned"
               PROVE  LET printed == SubSeq(text, start + 1, Len(text)) IN
                      IF call = "write" /\ ret # -1 THEN printed = buffer /\ ret = Len(buffer)
                      ELSE /\ printed = <<>>
                           /\ call = "write" => errno \in {EBADF, EFAULT, EINVAL}
    BY DEF WriteAllOrNothing
  <2>1. /\ text \in Seq(Bytes) /\ buffer \in Seq(Bytes) /\ start \in Nat
        /\ Len(text) \in Nat /\ Len(buffer) \in Nat
    BY LenProperties DEF WriteInv, Texts
  <2>2. CASE call = "write" /\ ret # -1
    <3>1. /\ ret = Len(buffer) /\ Len(text) = start + Len(buffer)
          /\ \A j \in 1 .. Len(buffer) : text[start + j] = buffer[j]
      BY <2>2 DEF WriteInv, Returned, Printed, Holds
    <3> DEFINE p == SubSeq(text, start + 1, Len(text))
    <3>2. p \in Seq(Bytes) /\ Len(p) = Len(buffer)
      BY <2>1, <3>1
    <3>3. ASSUME NEW j \in 1 .. Len(buffer) PROVE p[j] = buffer[j]
      <4>1. p[j] = text[start + j]
        BY <2>1, <3>1
      <4> QED
        BY <3>1, <4>1
    <3> HIDE DEF p
    <3>4. p = buffer
      BY <2>1, <3>2, <3>3, SeqEqual
    <3> QED
      BY <2>2, <3>1, <3>4 DEF p
  <2>3. CASE ~ (call = "write" /\ ret # -1)
    <3>1. Len(text) = start /\ (call = "write" => errno \in {EBADF, EFAULT, EINVAL})
      BY <2>3 DEF WriteInv, Returned
    <3>2. SubSeq(text, start + 1, Len(text)) = <<>>
      BY <2>1, <3>1, SubSeqEmpty
    <3> QED
      BY <2>3, <3>1, <3>2
  <2> QED
    BY <2>2, <2>3
<1> QED
  BY <1>1, <1>2, WriteStep, PTL DEF Spec

-----------------------------------------------------------------------------
(***************************************************************************)
(* The loop of sys_write_console, by induction on the characters printed.  *)
(***************************************************************************)
\* A nonempty set of numbers has a least one.
LEMMA LeastElement ==
  ASSUME NEW S, S \subseteq Nat, S # {}
  PROVE  \E m \in S : \A n \in S : m <= n
<1>1. PICK R : R = OpToRel(<, Nat)
  OBVIOUS
<1>2. PICK m \in S : \A n \in S : ~(<<n, m>> \in R)
  <2>1. IsWellFoundedOn(R, Nat)
    BY <1>1, NatLessThanWellFounded
  <2> QED
    BY <2>1, WFMin
<1>3. \A n \in S : n < m => <<n, m>> \in R
  BY <1>1 DEF OpToRel
<1>4. ASSUME NEW n \in S PROVE m <= n
  <2>1. n \in Nat /\ m \in Nat /\ ~(n < m)
    BY <1>2, <1>3
  <2> QED
    BY <2>1
<1> QED
  BY <1>4

\* f[i] is the screen after i characters of s.
Run(f, k, s, m) == f = [i \in 0 .. m |-> IF i = 0 THEN k ELSE printc(f[i - 1], s[i])]

\* One character more.
LEMMA RunExtends ==
  ASSUME NEW f, NEW k, NEW s, NEW m \in Nat, Run(f, k, s, m)
  PROVE  \E g : Run(g, k, s, m + 1)
<1> DEFINE g == [i \in 0 .. m + 1 |-> IF i = m + 1 THEN printc(f[m], s[m + 1]) ELSE f[i]]
<1>1. \A i \in 0 .. m : f[i] = IF i = 0 THEN k ELSE printc(f[i - 1], s[i])
  BY DEF Run
<1>2. \A i \in 0 .. m : g[i] = f[i]
  OBVIOUS
<1>3. g[m + 1] = printc(f[m], s[m + 1])
  OBVIOUS
<1>4. g = [i \in 0 .. m + 1 |-> g[i]]
  OBVIOUS
<1> HIDE DEF g
<1>5. ASSUME NEW i \in 0 .. m + 1
      PROVE  g[i] = IF i = 0 THEN k ELSE printc(g[i - 1], s[i])
  <2>1. CASE i = m + 1
    <3>1. i # 0 /\ i - 1 = m /\ g[i - 1] = f[m]
      BY <1>2, <2>1
    <3> QED
      BY <1>3, <2>1, <3>1, Zenon
  <2>2. CASE i # m + 1
    <3>1. i \in 0 .. m /\ (i # 0 => i - 1 \in 0 .. m)
      BY <2>2
    <3>2. i # 0 => g[i - 1] = f[i - 1]
      BY <1>2, <3>1
    <3>3. g[i] = f[i] /\ f[i] = IF i = 0 THEN k ELSE printc(f[i - 1], s[i])
      BY <1>1, <1>2, <3>1, Zenon
    <3> QED
      BY <3>2, <3>3, Zenon
  <2> QED
    BY <2>1, <2>2
<1>6. Run(g, k, s, m + 1)
  BY <1>4, <1>5, Zenon DEF Run
<1> QED
  BY <1>6

\* The loop has a result for every number of characters.
LEMMA RunExists ==
  ASSUME NEW k, NEW s, NEW n \in Nat
  PROVE  \E f : Run(f, k, s, n)
<1> DEFINE Bad == {m \in Nat : ~ \E f : Run(f, k, s, m)}
<1>1. SUFFICES ASSUME Bad # {} PROVE FALSE
  OBVIOUS
<1>2. PICK m \in Bad : \A i \in Bad : m <= i
  <2>1. Bad \subseteq Nat
    OBVIOUS
  <2> HIDE DEF Bad
  <2> QED
    BY <1>1, <2>1, LeastElement
<1>3. m \in Nat /\ ~ \E f : Run(f, k, s, m)
  BY <1>2
<1>4. m # 0
  <2>1. SUFFICES ASSUME m = 0 PROVE \E f : Run(f, k, s, m)
    BY <1>3
  <2> DEFINE z == [i \in 0 .. 0 |-> k]
  <2>2. z = [i \in 0 .. 0 |-> IF i = 0 THEN k ELSE printc(z[i - 1], s[i])]
    OBVIOUS
  <2> HIDE DEF z
  <2>3. Run(z, k, s, m)
    BY <2>1, <2>2, Zenon DEF Run
  <2> QED
    BY <2>3
<1>5. PICK i \in Nat : m = i + 1
  BY <1>3, <1>4
<1>6. i \notin Bad
  <2>1. ~(m <= i)
    BY <1>5
  <2> QED
    BY <1>2, <2>1, Zenon
<1>7. PICK f : Run(f, k, s, i)
  BY <1>6
<1>8. \E g : Run(g, k, s, i + 1)
  BY <1>7, RunExtends
<1> QED
  BY <1>3, <1>5, <1>8, Zenon

\* sys_write_console is the end of the loop.
LEMMA ConsoleRun ==
  ASSUME NEW k, NEW s, Len(s) \in Nat
  PROVE  \E f : Run(f, k, s, Len(s)) /\ sys_write_console(k, s) = f[Len(s)]
<1> DEFINE R == CHOOSE f : f = [i \in 0 .. Len(s) |->
                                  IF i = 0 THEN k ELSE printc(f[i - 1], s[i])]
<1>1. \E f : f = [i \in 0 .. Len(s) |-> IF i = 0 THEN k ELSE printc(f[i - 1], s[i])]
  <2>1. PICK f : Run(f, k, s, Len(s))
    BY RunExists
  <2> QED
    BY <2>1, Zenon DEF Run
<1>2. R = [i \in 0 .. Len(s) |-> IF i = 0 THEN k ELSE printc(R[i - 1], s[i])]
  BY <1>1, Zenon
<1>3. sys_write_console(k, s) = R[Len(s)]
  BY Zenon DEF sys_write_console
<1> HIDE DEF R
<1> QED
  BY <1>2, <1>3, Zenon DEF Run

-----------------------------------------------------------------------------
(***************************************************************************)
(* The screen.                                                             *)
(***************************************************************************)
Screens == [Cells -> Chars \cup {Blank}]
Consoles == [x : 0 .. NUM_COLUMNS - 1, y : 0 .. NUM_ROWS - 1, screen : Screens]

\* The line under the cursor of k shows the end of the first m characters of u.
Shows(k, u, m) ==
  \A j \in 0 .. k.x - 1 :
    /\ k.x <= m
    /\ <<j, k.y>> \notin Shared => k.screen[<<j, k.y>>] = u[m - k.x + 1 + j]

\* The console after c is printed at the cursor of k, when it is not a newline.
LEMMA PrintcFields ==
  ASSUME NEW k \in Consoles, NEW c \in Bytes
  PROVE  /\ printc(k, c) \in Consoles
         /\ \A z \in Cells : z # <<k.x, k.y>> => printc(k, c).screen[z] = k.screen[z]
         /\ \/ printc(k, c).x = 0
            \/ /\ printc(k, c).x = k.x + 1 /\ printc(k, c).y = k.y
               /\ printc(k, c).screen[<<k.x, k.y>>] = c
<1>1. PICK x \in 0 .. NUM_COLUMNS - 1, y \in 0 .. NUM_ROWS - 1, sc \in Screens :
        k = [x |-> x, y |-> y, screen |-> sc]
  BY DEF Consoles
<1>2. k.x = x /\ k.y = y /\ k.screen = sc
  BY <1>1
<1>3. NextRow(y) \in 0 .. NUM_ROWS - 1 /\ 0 \in 0 .. NUM_COLUMNS - 1
  BY ConsoleAssumption DEF NextRow
<1>4. CASE c = NL
  <2>1. printc(k, c) = [x |-> 0, y |-> NextRow(y), screen |-> sc]
    BY <1>1, <1>4 DEF printc
  <2> QED
    BY <1>2, <1>3, <2>1 DEF Consoles
<1>5. CASE c # NL
  <2>1. c \in Chars /\ <<x, y>> \in Cells
    BY <1>5 DEF Bytes, Cells
  <2> DEFINE sd == [sc EXCEPT ![<<x, y>>] = c]
             shown == [k EXCEPT !.screen[<<k.x, k.y>>] = c, !.x = @ + 1]
  <2>2. sd \in Screens /\ sd[<<x, y>>] = c /\ \A z \in Cells : z # <<x, y>> => sd[z] = sc[z]
    BY <2>1 DEF Screens
  <2>3. shown = [x |-> x + 1, y |-> y, screen |-> sd]
    <3>1. /\ shown.x = x + 1 /\ shown.y = y /\ shown.screen = sd
          /\ DOMAIN shown = {"x", "y", "screen"}
          /\ shown = [i \in {"x", "y", "screen"} |-> shown[i]]
      BY <1>1, <1>2
    <3> HIDE DEF shown, sd
    <3> QED
      BY <3>1
  <2>4. printc(k, c) = IF shown.x >= NUM_COLUMNS THEN [shown EXCEPT !.x = 0, !.y = NextRow(@)]
                                                 ELSE shown
    BY <1>5 DEF printc
  <2> HIDE DEF sd, shown
  <2>5. CASE x + 1 >= NUM_COLUMNS
    <3>1. printc(k, c) = [x |-> 0, y |-> NextRow(y), screen |-> sd]
      BY <2>3, <2>4, <2>5
    <3> QED
      BY <1>2, <1>3, <2>2, <3>1 DEF Consoles
  <2>6. CASE ~(x + 1 >= NUM_COLUMNS)
    <3>1. printc(k, c) = [x |-> x + 1, y |-> y, screen |-> sd]
      BY <2>3, <2>4, <2>6
    <3>2. x + 1 \in 0 .. NUM_COLUMNS - 1
      BY <2>6, ConsoleAssumption
    <3> QED
      BY <1>2, <2>2, <3>1, <3>2 DEF Consoles
  <2> QED
    BY <2>5, <2>6
<1> QED
  BY <1>4, <1>5

\* Printing the next character of u keeps the line.
LEMMA PrintcShows ==
  ASSUME NEW k \in Consoles, NEW u, NEW m \in Nat, u[m + 1] \in Bytes, Shows(k, u, m)
  PROVE  printc(k, u[m + 1]) \in Consoles /\ Shows(printc(k, u[m + 1]), u, m + 1)
<1> DEFINE c == u[m + 1]
           p == printc(k, c)
<1>1. /\ p \in Consoles /\ \A z \in Cells : z # <<k.x, k.y>> => p.screen[z] = k.screen[z]
      /\ \/ p.x = 0
         \/ p.x = k.x + 1 /\ p.y = k.y /\ p.screen[<<k.x, k.y>>] = c
  BY PrintcFields
<1> HIDE DEF p, c
<1>2. k.x \in 0 .. NUM_COLUMNS - 1 /\ k.y \in 0 .. NUM_ROWS - 1
  BY DEF Consoles
<1>3. CASE p.x = 0
  <2>1. 0 .. p.x - 1 = {}
    BY <1>3
  <2> QED
    BY <1>1, <2>1 DEF Shows, p, c
<1>4. CASE p.x = k.x + 1 /\ p.y = k.y /\ p.screen[<<k.x, k.y>>] = c
  <2>1. k.x <= m
    <3>1. CASE k.x = 0
      BY <3>1
    <3>2. CASE k.x # 0
      <4>1. 0 \in 0 .. k.x - 1
        BY <1>2, <3>2, ConsoleAssumption
      <4> QED
        BY <4>1 DEF Shows
    <3> QED
      BY <3>1, <3>2
  <2>2. ASSUME NEW j \in 0 .. p.x - 1
        PROVE  /\ p.x <= m + 1
               /\ <<j, p.y>> \notin Shared => p.screen[<<j, p.y>>] = u[(m + 1) - p.x + 1 + j]
    <3>1. p.x <= m + 1 /\ (m + 1) - p.x + 1 + j = m - k.x + 1 + j
      BY <1>2, <1>4, <2>1, ConsoleAssumption
    <3>2. CASE j = k.x
      <4>1. m - k.x + 1 + j = m + 1
        BY <1>2, <3>2, ConsoleAssumption
      <4> QED
        BY <1>4, <3>1, <3>2, <4>1, Zenon DEF c
    <3>3. CASE j # k.x
      <4>1. j \in 0 .. k.x - 1 /\ <<j, k.y>> \in Cells /\ <<j, k.y>> # <<k.x, k.y>>
        BY <1>2, <1>4, <3>3, ConsoleAssumption DEF Cells
      <4>2. p.screen[<<j, k.y>>] = k.screen[<<j, k.y>>]
        BY <1>1, <4>1
      <4>3. <<j, k.y>> \notin Shared => k.screen[<<j, k.y>>] = u[m - k.x + 1 + j]
        BY <4>1 DEF Shows
      <4> QED
        BY <1>4, <3>1, <4>2, <4>3, Zenon
    <3> QED
      BY <3>2, <3>3
  <2>3. Shows(p, u, m + 1)
    BY <2>2 DEF Shows
  <2> QED
    BY <1>1, <2>3 DEF p, c
<1> QED
  BY <1>1, <1>3, <1>4

\* A string printed behind the text t keeps the console and its line.
LEMMA StringShows ==
  ASSUME NEW k \in Consoles, NEW t \in Seq(Bytes), NEW s \in Seq(Bytes), Shows(k, t, Len(t))
  PROVE  /\ sys_write_console(k, s) \in Consoles
         /\ Shows(sys_write_console(k, s), t \o s, Len(t) + Len(s))
<1>1. /\ Len(t) \in Nat /\ Len(s) \in Nat
      /\ \A i \in 1 .. Len(t) + Len(s) :
           (t \o s)[i] = IF i <= Len(t) THEN t[i] ELSE s[i - Len(t)]
  BY ConcatBytes, LenProperties
<1>2. PICK u : u = t \o s
  OBVIOUS
<1>3. \A i \in 1 .. Len(t) : u[i] = t[i]
  <2> SUFFICES ASSUME NEW i \in 1 .. Len(t) PROVE u[i] = t[i]
    OBVIOUS
  <2>1. i \in 1 .. Len(t) + Len(s) /\ i <= Len(t)
    BY <1>1
  <2> QED
    BY <1>1, <1>2, <2>1, Zenon
<1>4. \A i \in 1 .. Len(s) : u[Len(t) + (i - 1) + 1] = s[i] /\ s[i] \in Bytes
  <2> SUFFICES ASSUME NEW i \in 1 .. Len(s)
               PROVE  u[Len(t) + (i - 1) + 1] = s[i] /\ s[i] \in Bytes
    OBVIOUS
  <2>1. PICK h \in 1 .. Len(t) + Len(s) :
          h = Len(t) + (i - 1) + 1 /\ ~(h <= Len(t)) /\ h - Len(t) = i
    BY <1>1
  <2>2. u[h] = s[i]
    BY <1>1, <1>2, <2>1, Zenon
  <2>3. s[i] \in Bytes
    BY ElementOfSeq
  <2> QED
    BY <2>1, <2>2, <2>3, Zenon
<1>5. Shows(k, u, Len(t) + 0)
  <2>1. k.x \in Nat
    BY ConsoleAssumption DEF Consoles
  <2>2. ASSUME NEW j \in 0 .. k.x - 1
        PROVE  /\ k.x <= Len(t)
               /\ <<j, k.y>> \notin Shared => k.screen[<<j, k.y>>] = u[Len(t) - k.x + 1 + j]
    <3>1. /\ k.x <= Len(t)
          /\ <<j, k.y>> \notin Shared => k.screen[<<j, k.y>>] = t[Len(t) - k.x + 1 + j]
      BY DEF Shows
    <3>2. Len(t) - k.x + 1 + j \in 1 .. Len(t)
      BY <1>1, <2>1, <3>1
    <3> QED
      BY <1>3, <3>1, <3>2, Zenon
  <2>3. Shows(k, u, Len(t))
    BY <2>2 DEF Shows
  <2>4. Len(t) + 0 = Len(t)
    BY <1>1
  <2> QED
    BY <2>3, <2>4, Zenon
<1>6. PICK f : Run(f, k, s, Len(s)) /\ sys_write_console(k, s) = f[Len(s)]
  BY <1>1, ConsoleRun
<1>7. \A i \in 0 .. Len(s) : f[i] = IF i = 0 THEN k ELSE printc(f[i - 1], s[i])
  BY <1>6 DEF Run
<1> DEFINE Bad == {i \in 0 .. Len(s) : ~(f[i] \in Consoles /\ Shows(f[i], u, Len(t) + i))}
<1>8. Bad = {}
  <2>1. SUFFICES ASSUME Bad # {} PROVE FALSE
    OBVIOUS
  <2>2. PICK m \in Bad : \A i \in Bad : m <= i
    <3>1. Bad \subseteq Nat
      OBVIOUS
    <3> HIDE DEF Bad
    <3> QED
      BY <2>1, <3>1, LeastElement
  <2>3. m \in 0 .. Len(s) /\ ~(f[m] \in Consoles /\ Shows(f[m], u, Len(t) + m))
    BY <2>2
  <2>4. m # 0
    <3>1. SUFFICES ASSUME m = 0 PROVE FALSE
      OBVIOUS
    <3>2. f[m] = k
      BY <1>7, <2>3, <3>1
    <3> QED
      BY <1>5, <2>3, <3>1, <3>2, Zenon
  <2>5. PICK i \in 0 .. Len(s) : i = m - 1 /\ ~(m <= i)
    BY <1>1, <2>3, <2>4
  <2>6. f[i] \in Consoles /\ Shows(f[i], u, Len(t) + i)
    BY <2>2, <2>5, Zenon
  <2>7. m \in 1 .. Len(s) /\ Len(t) + i \in Nat /\ (Len(t) + i) + 1 = Len(t) + m
    BY <1>1, <2>3, <2>4, <2>5
  <2>8. u[(Len(t) + i) + 1] = s[m] /\ s[m] \in Bytes
    BY <1>4, <2>5, <2>7, Zenon
  <2>9. f[m] = printc(f[i], s[m])
    BY <1>7, <2>3, <2>4, <2>5, Zenon
  <2>10. PICK e \in Nat : e = Len(t) + i
    BY <2>7
  <2>11. printc(f[i], u[e + 1]) \in Consoles /\ Shows(printc(f[i], u[e + 1]), u, e + 1)
    BY <2>6, <2>8, <2>10, PrintcShows
  <2> QED
    BY <2>3, <2>7, <2>8, <2>9, <2>10, <2>11, Zenon
<1>9. f[Len(s)] \in Consoles /\ Shows(f[Len(s)], u, Len(t) + Len(s))
  BY <1>1, <1>8
<1> QED
  BY <1>2, <1>6, <1>9, Zenon

-----------------------------------------------------------------------------
(***************************************************************************)
(* The types of the variables, and the line under the cursor.              *)
(***************************************************************************)
\* What sys_write still has to print stays below the bound.
Room == /\ pc = "write" => Len(text) + size <= MaxText
        /\ pc = "boot" => text = <<>>

ScreenInv == con \in Consoles /\ Shows(con, text, Len(text))

ConsoleInv == WriteInv /\ TypeOK /\ Room /\ ScreenInv

\* A string printed behind the text.
LEMMA Printing ==
  ASSUME ConsoleInv, NEW s \in Seq(Bytes), con' = sys_write_console(con, s), text' = text \o s
  PROVE  ScreenInv' /\ Len(text') = Len(text) + Len(s) /\ Len(s) \in Nat /\ Len(text) \in Nat
<1>1. con \in Consoles /\ text \in Seq(Bytes) /\ Shows(con, text, Len(text))
  BY DEF ConsoleInv, ScreenInv, WriteInv, Texts
<1>2. PICK k, t : k = con /\ t = text
  OBVIOUS
<1>3. /\ sys_write_console(k, s) \in Consoles
      /\ Shows(sys_write_console(k, s), t \o s, Len(t) + Len(s))
  BY <1>1, <1>2, StringShows
<1>4. Len(t \o s) = Len(t) + Len(s) /\ Len(s) \in Nat /\ Len(t) \in Nat
  BY <1>1, <1>2, ConcatBytes, LenProperties
<1>5. PICK kk, tt : kk = con' /\ tt = text'
  OBVIOUS
<1>6. kk = sys_write_console(k, s) /\ tt = t \o s
  BY <1>2, <1>5
<1>7. kk \in Consoles /\ Shows(kk, tt, Len(tt)) /\ Len(tt) = Len(t) + Len(s)
  BY <1>3, <1>4, <1>6, Zenon
<1> QED
  BY <1>2, <1>4, <1>5, <1>7, Zenon DEF ScreenInv

\* A fragment has the length that is asked for.
LEMMA FragmentSeq ==
  ASSUME WriteInv, pc = "write", NEW n \in Nat, n <= size
  PROVE  Fragment(n) \in Seq(Bytes) /\ Len(Fragment(n)) = n
<1>1. /\ buffer \in Seq(Bytes) /\ Len(buffer) \in Nat /\ written \in Nat /\ size \in Nat
      /\ written + size = Len(buffer)
  BY LenProperties DEF WriteInv, Texts, Writing
<1>2. \A i \in written + 1 .. written + n : buffer[i] \in Bytes
  BY <1>1, ElementOfSeq
<1>3. /\ SubSeq(buffer, written + 1, written + n) \in Seq(Bytes)
      /\ Len(SubSeq(buffer, written + 1, written + n)) =
           IF written + 1 <= written + n THEN (written + n) - (written + 1) + 1 ELSE 0
  BY <1>1, <1>2, SubSeqProperties
<1> QED
  BY <1>1, <1>3 DEF Fragment

\* The length of a buffer.
LEMMA BufferLength ==
  ASSUME NEW b \in Buffers
  PROVE  Len(b) \in 0 .. MaxBuffer /\ b \in Seq(Bytes)
<1>1. PICK n \in 0 .. MaxBuffer : b \in [1 .. n -> Bytes]
  BY DEF Buffers, Bytes
<1>2. n \in Nat /\ DOMAIN b = 1 .. n
  BY <1>1, ConsoleAssumption
<1>3. b \in Seq(Bytes)
  BY BufferSeq
<1>4. Len(b) = n
  BY <1>2, <1>3, LenProperties
<1> QED
  BY <1>1, <1>3, <1>4

\* A program may write nothing.
LEMMA EmptyBuffer == <<>> \in Buffers /\ Len(<<>>) = 0
<1>1. <<>> \in [1 .. 0 -> Chars \cup {NL}]
  OBVIOUS
<1>2. 0 \in 0 .. MaxBuffer
  BY ConsoleAssumption
<1> QED
  BY <1>1, <1>2 DEF Buffers

\* The console is typed as TypeOK says.
LEMMA ConsoleTypes ==
  ASSUME NEW k \in Consoles
  PROVE  k.x \in 0 .. NUM_COLUMNS - 1 /\ k.y \in 0 .. NUM_ROWS - 1 /\ k.screen \in Screens
BY DEF Consoles

\* A step that prints nothing.
LEMMA Quiet ==
  ASSUME ConsoleInv, UNCHANGED <<con, text>>
  PROVE  ScreenInv'
BY DEF ConsoleInv, ScreenInv

\* What changes no cell but those the interrupts share, and leaves the cursor.
LEMMA OverlayShows ==
  ASSUME NEW k \in Consoles, NEW u, NEW m, Shows(k, u, m), NEW sd \in Screens,
         \A z \in Cells : z \notin Shared => sd[z] = k.screen[z],
         NEW kk, kk = [k EXCEPT !.screen = sd]
  PROVE  kk \in Consoles /\ Shows(kk, u, m)
<1>1. PICK x \in 0 .. NUM_COLUMNS - 1, y \in 0 .. NUM_ROWS - 1, sc \in Screens :
        k = [x |-> x, y |-> y, screen |-> sc]
  BY DEF Consoles
<1>2. kk \in Consoles /\ kk.x = k.x /\ kk.y = k.y /\ kk.screen = sd
  BY <1>1 DEF Consoles
<1>3. ASSUME NEW j \in 0 .. kk.x - 1
      PROVE  /\ kk.x <= m
             /\ <<j, kk.y>> \notin Shared => kk.screen[<<j, kk.y>>] = u[m - kk.x + 1 + j]
  <2>1. j \in 0 .. k.x - 1 /\ <<j, k.y>> \in Cells
    BY <1>1, <1>2, ConsoleAssumption DEF Cells
  <2>2. /\ k.x <= m
        /\ <<j, k.y>> \notin Shared => k.screen[<<j, k.y>>] = u[m - k.x + 1 + j]
    BY <2>1 DEF Shows
  <2>3. <<j, k.y>> \notin Shared => sd[<<j, k.y>>] = k.screen[<<j, k.y>>]
    BY <2>1, Zenon
  <2> QED
    BY <1>2, <2>2, <2>3, Zenon
<1>4. Shows(kk, u, m)
  BY <1>3 DEF Shows
<1> QED
  BY <1>2, <1>4

\* A key changes the corner of the screen only, and leaves the cursor.
LEMMA KeyShows ==
  ASSUME NEW k \in Consoles, NEW c \in Bytes, NEW u, NEW m, Shows(k, u, m), NEW kk,
         kk = [k EXCEPT !.screen = printc([k EXCEPT !.x = 0, !.y = 0], c).screen]
  PROVE  kk \in Consoles /\ Shows(kk, u, m)
<1>1. PICK x \in 0 .. NUM_COLUMNS - 1, y \in 0 .. NUM_ROWS - 1, sc \in Screens :
        k = [x |-> x, y |-> y, screen |-> sc]
  BY DEF Consoles
<1>2. PICK h : h = [k EXCEPT !.x = 0, !.y = 0]
  OBVIOUS
<1>3. /\ printc(h, c) \in Consoles
      /\ \A z \in Cells : z # <<0, 0>> => printc(h, c).screen[z] = k.screen[z]
  <2>1. h = [x |-> 0, y |-> 0, screen |-> sc]
    BY <1>1, <1>2
  <2>2. h \in Consoles /\ h.x = 0 /\ h.y = 0 /\ h.screen = sc /\ k.screen = sc
    BY <1>1, <2>1, ConsoleAssumption DEF Consoles
  <2>3. /\ printc(h, c) \in Consoles
        /\ \A z \in Cells : z # <<h.x, h.y>> => printc(h, c).screen[z] = h.screen[z]
    BY <2>2, PrintcFields, Zenon
  <2> QED
    BY <2>2, <2>3, Zenon
<1>4. PICK sd \in Screens : sd = printc(h, c).screen
  BY <1>3, ConsoleTypes
<1>5. kk = [k EXCEPT !.screen = sd]
  BY <1>2, <1>4
<1>6. \A z \in Cells : z \notin Shared => sd[z] = k.screen[z]
  BY <1>3, <1>4, Zenon DEF Shared
<1> QED
  BY <1>5, <1>6, OverlayShows

\* So does the clock with its own cells.
LEMMA ClockShows ==
  ASSUME NEW k \in Consoles, NEW face \in [ClockCells -> Chars], NEW u, NEW m,
         Shows(k, u, m), NEW kk,
         kk = [k EXCEPT !.screen = [z \in Cells |-> IF z \in ClockCells
                                                    THEN face[z] ELSE k.screen[z]]]
  PROVE  kk \in Consoles /\ Shows(kk, u, m)
<1>1. PICK sd : sd = [z \in Cells |-> IF z \in ClockCells THEN face[z] ELSE k.screen[z]]
  OBVIOUS
<1>2. k.screen \in Screens
  BY ConsoleTypes
<1>3. sd \in Screens
  BY <1>1, <1>2 DEF Screens
<1>4. \A z \in Cells : z \notin Shared => sd[z] = k.screen[z]
  BY <1>1 DEF Shared
<1>5. kk = [k EXCEPT !.screen = sd]
  BY <1>1, Zenon
<1> QED
  BY <1>3, <1>4, <1>5, OverlayShows

\* At boot nothing is printed, and the cursor is at the start of a line.
LEMMA InitConsole == Init => ConsoleInv
<1> SUFFICES ASSUME Init PROVE ConsoleInv
  OBVIOUS
<1>1. WriteInv
  BY EmptySeq DEF Init, WriteInv, Texts, AtBoot, Writing, InWrapper, Returned
<1>2. con \in Consoles /\ con.x = 0
  BY ConsoleAssumption DEF Init, Consoles, Screens
<1>3. Shows(con, text, Len(text))
  <2>1. 0 .. con.x - 1 = {}
    BY <1>2
  <2> QED
    BY <2>1 DEF Shows
<1>4. <<>> \in Buffers
  BY EmptyBuffer
<1>5. TypeOK
  BY <1>2, <1>4, ConsoleTypes, ConsoleAssumption DEF Init, TypeOK, Screens
<1> QED
  BY <1>1, <1>2, <1>3, <1>5 DEF ConsoleInv, ScreenInv, Room, Init

\* What the kernel prints at boot.
LEMMA PrintkConsole ==
  ASSUME ConsoleInv, NEW s \in Buffers, printk(s), WriteInv'
  PROVE  ConsoleInv'
<1>1. /\ pc = "boot" /\ pc' = "user" /\ con' = sys_write_console(con, s) /\ text' = s
      /\ UNCHANGED <<buffer, size, written, eax, errno, ret>>
  BY DEF printk, writeVars
<1>2. s \in Seq(Bytes) /\ Len(s) \in 0 .. MaxBuffer
  BY BufferLength
<1>3. text' = text \o s
  <2>1. text = <<>>
    BY <1>1 DEF ConsoleInv, Room
  <2>2. <<>> \o s = s
    BY <1>2, ConcatEmptySeq
  <2> QED
    BY <1>1, <2>1, <2>2, Zenon
<1>4. ScreenInv'
  BY <1>1, <1>2, <1>3, Printing
<1>5. Len(text') \in 0 .. MaxText + MaxBuffer
  BY <1>1, <1>2, ConsoleAssumption
<1>6. TypeOK'
  BY <1>1, <1>4, <1>5, ConsoleTypes DEF ConsoleInv, TypeOK, ScreenInv, Screens
<1> QED
  BY <1>1, <1>4, <1>6 DEF ConsoleInv, Room

\* A key, at any point of user code.
LEMMA KeyConsole ==
  ASSUME ConsoleInv, NEW released \in BOOLEAN, NEW c \in Chars \cup {NL, ""},
         keyboard_routine(released, c), WriteInv'
  PROVE  ConsoleInv'
<1>1. UNCHANGED <<pc, buffer, size, written, eax, errno, ret, text>>
  BY DEF keyboard_routine, writeVars
<1>2. PICK d \in Bytes : d = IF c = "" THEN "C" ELSE c
  BY ConsoleAssumption DEF Bytes
<1>3. ScreenInv'
  <2>1. CASE con' = con
    BY <1>1, <2>1, Quiet
  <2>2. CASE con' = printc_xy(0, 0, d)
    <3>1. PICK k, kk, u, m : k = con /\ kk = con' /\ u = text /\ m = Len(text)
      OBVIOUS
    <3>2. kk = [k EXCEPT !.screen = printc([k EXCEPT !.x = 0, !.y = 0], d).screen]
      BY <2>2, <3>1 DEF printc_xy
    <3>3. k \in Consoles /\ Shows(k, u, m)
      BY <3>1 DEF ConsoleInv, ScreenInv
    <3>4. kk \in Consoles /\ Shows(kk, u, m)
      BY <3>2, <3>3, KeyShows
    <3> QED
      BY <1>1, <3>1, <3>4 DEF ScreenInv
  <2> QED
    BY <1>2, <2>1, <2>2 DEF keyboard_routine
<1>4. TypeOK'
  BY <1>1, <1>3, ConsoleTypes DEF ConsoleInv, TypeOK, ScreenInv, Screens
<1> QED
  BY <1>1, <1>3, <1>4 DEF ConsoleInv, Room

\* A tick that shows the clock, at any point of user code.
LEMMA ClockConsole ==
  ASSUME ConsoleInv, NEW face \in [ClockCells -> Chars], zeos_show_clock(face), WriteInv'
  PROVE  ConsoleInv'
<1>1. UNCHANGED <<pc, buffer, size, written, eax, errno, ret, text>>
  BY DEF zeos_show_clock, writeVars
<1>2. ScreenInv'
  <2>1. PICK k, kk, u, m : k = con /\ kk = con' /\ u = text /\ m = Len(text)
    OBVIOUS
  <2>2. kk = [k EXCEPT !.screen = [z \in Cells |-> IF z \in ClockCells
                                                   THEN face[z] ELSE k.screen[z]]]
    BY <2>1 DEF zeos_show_clock
  <2>3. k \in Consoles /\ Shows(k, u, m)
    BY <2>1 DEF ConsoleInv, ScreenInv
  <2>4. kk \in Consoles /\ Shows(kk, u, m)
    BY <2>2, <2>3, ClockShows
  <2> QED
    BY <1>1, <2>1, <2>4 DEF ScreenInv
<1>3. TypeOK'
  BY <1>1, <1>2, ConsoleTypes DEF ConsoleInv, TypeOK, ScreenInv, Screens
<1> QED
  BY <1>1, <1>2, <1>3 DEF ConsoleInv, Room

\* A round of the loop of sys_write.
LEMMA ChunkConsole == ASSUME ConsoleInv, write_chunk, WriteInv' PROVE ConsoleInv'
<1>1. /\ pc = "write" /\ pc' = pc /\ size >= MAX_WRITE
      /\ con' = sys_write_console(con, Fragment(MAX_WRITE))
      /\ text' = text \o Fragment(MAX_WRITE)
      /\ written' = written + MAX_WRITE /\ size' = size - MAX_WRITE
      /\ UNCHANGED <<buffer, eax, errno, ret>>
  BY DEF write_chunk, copy_from_user
<1>2. PICK n \in Nat : n = MAX_WRITE /\ n <= size
  BY <1>1, ConsoleAssumption
<1>3. /\ written \in Nat /\ size \in Nat /\ written + size = Len(buffer)
      /\ buffer \in Buffers /\ Len(buffer) \in 0 .. MaxBuffer /\ Len(text) + size <= MaxText
  BY <1>1, BufferLength DEF ConsoleInv, WriteInv, Writing, TypeOK, Room
<1>4. Fragment(n) \in Seq(Bytes) /\ Len(Fragment(n)) = n
  BY <1>1, <1>2, FragmentSeq DEF ConsoleInv
<1>5. ScreenInv' /\ Len(text') = Len(text) + n /\ Len(text) \in Nat
  <2>1. PICK s \in Seq(Bytes) : s = Fragment(n) /\ Len(s) = n
    BY <1>4
  <2>2. con' = sys_write_console(con, s) /\ text' = text \o s
    BY <1>1, <1>2, <2>1, Zenon
  <2> QED
    BY <2>1, <2>2, Printing
<1>6. /\ written' \in 0 .. MaxBuffer /\ size' \in -1 .. MaxBuffer
      /\ Len(text') + size' <= MaxText /\ Len(text') \in 0 .. MaxText + MaxBuffer
  BY <1>1, <1>2, <1>3, <1>5, ConsoleAssumption
<1>7. TypeOK'
  BY <1>1, <1>5, <1>6, ConsoleTypes DEF ConsoleInv, TypeOK, ScreenInv, Screens
<1> QED
  BY <1>1, <1>5, <1>6, <1>7 DEF ConsoleInv, Room

\* The rest of the buffer.
LEMMA RestConsole == ASSUME ConsoleInv, write_rest, WriteInv' PROVE ConsoleInv'
<1>1. /\ pc = "write" /\ pc' = "libc" /\ con' = sys_write_console(con, Fragment(size))
      /\ text' = text \o Fragment(size)
      /\ written' = written + size /\ size' = 0 /\ eax' = written + size
      /\ UNCHANGED <<buffer, errno, ret>>
  BY DEF write_rest, Return
<1>2. /\ written \in Nat /\ size \in Nat /\ written + size = Len(buffer)
      /\ buffer \in Buffers /\ Len(buffer) \in 0 .. MaxBuffer /\ Len(text) + size <= MaxText
  BY <1>1, BufferLength DEF ConsoleInv, WriteInv, Writing, TypeOK, Room
<1>3. PICK s \in Seq(Bytes) : s = Fragment(size) /\ Len(s) = size
  <2>1. PICK n \in Nat : n = size /\ n <= size
    BY <1>2
  <2>2. Fragment(n) \in Seq(Bytes) /\ Len(Fragment(n)) = n
    BY <1>1, <2>1, FragmentSeq DEF ConsoleInv
  <2> QED
    BY <2>1, <2>2
<1>4. ScreenInv' /\ Len(text') = Len(text) + size /\ Len(text) \in Nat
  <2>1. con' = sys_write_console(con, s) /\ text' = text \o s
    BY <1>1, <1>3, Zenon
  <2> QED
    BY <1>3, <2>1, Printing
<1>5. /\ written' \in 0 .. MaxBuffer /\ size' \in -1 .. MaxBuffer /\ eax' \in Int
      /\ Len(text') \in 0 .. MaxText + MaxBuffer
  BY <1>1, <1>2, <1>4, ConsoleAssumption
<1>6. TypeOK'
  BY <1>1, <1>4, <1>5, ConsoleTypes DEF ConsoleInv, TypeOK, ScreenInv, Screens
<1> QED
  BY <1>1, <1>4, <1>6 DEF ConsoleInv, Room

\* sys_write up to its loop, or its early returns.
LEMMA BeginConsole ==
  ASSUME ConsoleInv, NEW fd, NEW null, NEW b \in Buffers, NEW n \in Int, n <= MaxBuffer,
         sys_write(fd, null, b, n), WriteInv'
  PROVE  ConsoleInv'
<1>1. /\ pc = "user" /\ Len(text) + n <= MaxText /\ UNCHANGED <<con, errno, ret, text>>
  BY DEF sys_write, Enter
<1>2. ScreenInv'
  BY <1>1, Quiet
<1>3. CASE pc' = "libc" /\ eax' \in {-EBADF, -EFAULT, -EINVAL} /\ UNCHANGED writeVars
  <2>1. TypeOK'
    BY <1>1, <1>3 DEF ConsoleInv, TypeOK, writeVars, EBADF, EFAULT, EINVAL
  <2> QED
    BY <1>2, <1>3, <2>1 DEF ConsoleInv, Room
<1>4. CASE n >= 0 /\ buffer' = b /\ size' = n /\ written' = 0 /\ pc' = "write" /\ eax' = eax
  <2>1. TypeOK'
    BY <1>1, <1>4, ConsoleAssumption DEF ConsoleInv, TypeOK
  <2> QED
    BY <1>1, <1>2, <1>4, <2>1 DEF ConsoleInv, Room
<1> QED
  BY <1>3, <1>4 DEF sys_write, Return

\* The steps that neither print nor touch the arguments of write.
LEMMA QuietConsole ==
  ASSUME ConsoleInv, UNCHANGED <<con, text, buffer, size, written>>,
         pc' \in {"libc", "returned"},
         eax' \in Int, errno' \in Nat, ret' \in Int, WriteInv'
  PROVE  ConsoleInv'
<1>1. ScreenInv'
  BY Quiet
<1>2. TypeOK'
  BY DEF ConsoleInv, TypeOK
<1> QED
  BY <1>1, <1>2 DEF ConsoleInv, Room

\* The program goes on.
LEMMA ProceedConsole == ASSUME ConsoleInv, proceed, WriteInv' PROVE ConsoleInv'
<1>1. ScreenInv'
  BY Quiet DEF proceed
<1>2. TypeOK'
  BY EmptyBuffer, ConsoleAssumption DEF ConsoleInv, TypeOK, proceed
<1> QED
  BY <1>1, <1>2 DEF ConsoleInv, Room, proceed

\* A step that changes nothing.
LEMMA StutterConsole == ASSUME ConsoleInv, UNCHANGED vars, WriteInv' PROVE ConsoleInv'
BY DEF ConsoleInv, TypeOK, Room, ScreenInv, vars, writeVars

\* Every step keeps the invariant.
LEMMA ConsoleStep == ConsoleInv /\ [Next]_vars => ConsoleInv'
<1> SUFFICES ASSUME ConsoleInv, [Next]_vars PROVE ConsoleInv'
  OBVIOUS
<1>1. WriteInv'
  BY WriteStep DEF ConsoleInv
<1>2. eax \in Int /\ errno \in Nat /\ ret \in Int
  BY DEF ConsoleInv, TypeOK
<1>3. CASE \E s \in Buffers : printk(s)
  BY <1>1, <1>3, PrintkConsole
<1>4. CASE \E released \in BOOLEAN, c \in Chars \cup {NL, ""} : keyboard_routine(released, c)
  BY <1>1, <1>4, KeyConsole
<1>11. CASE \E face \in [ClockCells -> Chars] : zeos_show_clock(face)
  BY <1>1, <1>11, ClockConsole
<1>5. CASE \E n \in Numbers : system_call_handler(n)
  <2>1. /\ UNCHANGED <<con, text, buffer, size, written, errno, ret>> /\ pc' = "libc"
        /\ eax' \in Int
    BY <1>5 DEF system_call_handler, Return, writeVars, ENOSYS
  <2> QED
    BY <1>1, <1>2, <2>1, QuietConsole
<1>6. CASE sys_gettime(1) \/ sys_getpid(1)
  <2>1. /\ UNCHANGED <<con, text, buffer, size, written, errno, ret>> /\ pc' = "libc"
        /\ eax' \in Int
    BY <1>6 DEF sys_gettime, sys_getpid, Return, writeVars
  <2> QED
    BY <1>1, <1>2, <2>1, QuietConsole
<1>7. CASE \E pid \in {-1, 1}, st \in BOOLEAN, known \in BOOLEAN : sys_get_stats(pid, st, known)
  <2>1. /\ UNCHANGED <<con, text, buffer, size, written, errno, ret>> /\ pc' = "libc"
        /\ eax' \in Int
    BY <1>7 DEF sys_get_stats, Return, writeVars, EINVAL, EFAULT, ESRCH
  <2> QED
    BY <1>1, <1>2, <2>1, QuietConsole
<1>8. CASE \E b \in Buffers : sys_write(1, FALSE, b, Len(b))
  <2>1. PICK b \in Buffers : sys_write(1, FALSE, b, Len(b))
    BY <1>8
  <2>2. PICK n \in Int : n = Len(b) /\ n <= MaxBuffer
    BY BufferLength, ConsoleAssumption
  <2>3. sys_write(1, FALSE, b, n)
    BY <2>1, <2>2, Zenon
  <2> QED
    BY <1>1, <2>2, <2>3, BeginConsole
<1>9. CASE \E fd \in {0, 1}, null \in BOOLEAN, n \in {-1, 0} : sys_write(fd, null, <<>>, n)
  <2>1. PICK fd \in {0, 1}, null \in BOOLEAN, n \in {-1, 0} : sys_write(fd, null, <<>>, n)
    BY <1>9
  <2>2. n \in Int /\ n <= MaxBuffer
    BY ConsoleAssumption
  <2> QED
    BY <1>1, <2>1, <2>2, EmptyBuffer, BeginConsole
<1>10. CASE write \/ gettime \/ get_stats \/ getpid \/ int80
  <2>1. /\ UNCHANGED <<con, text, buffer, size, written, eax>> /\ pc' = "returned"
    BY <1>10 DEF write, gettime, get_stats, getpid, int80, Wrapper, writeVars
  <2>2. errno' \in Nat /\ ret' \in Int
    BY <1>2, <1>10 DEF write, gettime, get_stats, getpid, int80, Result
  <2> QED
    BY <1>1, <1>2, <2>1, <2>2, QuietConsole
<1> QED
  BY <1>1, <1>3, <1>4, <1>5, <1>6, <1>7, <1>8, <1>9, <1>10, <1>11, ChunkConsole, RestConsole,
     ProceedConsole, StutterConsole DEF Next

\* The invariant holds in every state.
LEMMA SpecConsole == Spec => []ConsoleInv
BY InitConsole, ConsoleStep, PTL DEF Spec

\* The cursor never leaves the screen, whatever is printed and however long its
\* lines are, so no character goes outside the video memory; the counters of
\* sys_write stay within the buffer, and errno is never negative.
THEOREM ConsoleTypeCorrect == Spec => []TypeOK
<1>1. ConsoleInv => TypeOK
  BY DEF ConsoleInv
<1> QED
  BY <1>1, SpecConsole, PTL

\* For every size of the screen, of the chunks and of the buffers, and wherever
\* the clock is shown, the line under the cursor shows the end of what was
\* printed, but for the corner and the cells of the clock, through every chunk of
\* a write and every key and tick that arrives between two calls or in a wrapper.
THEOREM ConsoleLineShows == Spec => []LineShowsText
<1>1. ConsoleInv => LineShowsText
  BY DEF ConsoleInv, ScreenInv, Shows, LineShowsText
<1> QED
  BY <1>1, SpecConsole, PTL
=============================================================================
