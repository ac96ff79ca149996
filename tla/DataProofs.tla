----------------------------- MODULE DataProofs -----------------------------
(***************************************************************************)
(* The data structures of hiredis, and the text of its protocol.           *)
(* Strings: the header, the memory and the text agree after every sequence *)
(* of operations, for any widths of the headers, any texts and any lengths *)
(* up to the bound; each operation is shown to turn a string that stands   *)
(* for a text into one that stands for the text it should be.  Numerals:   *)
(* what the parser reads is what the formatter writes.  Commands: what is  *)
(* written is read back as its arguments.  Hash tables: the chains hold    *)
(* the entries of the map through growth, replacement and deletion, and an *)
(* iteration returns each of them once.                                    *)
(***************************************************************************)
EXTENDS Sds, Commands, Dict, ReaderProofs

-----------------------------------------------------------------------------
(* Memory *)

(* The provers do not know that a literal is in STRING. *)
Char == STRING \cup {NUL, Junk, "a"}

Header == [type : Types, len : Nat, alloc : Nat, buf : Seq(Char)]

(* The header holds its numbers, and the memory is as large as it says.    *)
Memory(h) ==
    /\ h \in Header
    /\ h.len <= sdsalloc(h) /\ sdsalloc(h) < Modulus[h.type] /\ sdsalloc(h) < Len(h.buf)
    /\ h.type # 5 => Len(h.buf) = h.alloc + 1

Holds(h, t) ==
    /\ t \in Seq(Char) /\ Len(t) <= Len(h.buf)
    /\ \A i \in 1 .. Len(t) : h.buf[i] = t[i]

(* The length counts the text, which need not be terminated yet.           *)
Counted(h, t) == Memory(h) /\ h.len = Len(t) /\ Holds(h, t)

IsText(h, t) == Counted(h, t) /\ h.buf[Len(t) + 1] = NUL

(* The inductive invariant. *)
SdsInv == IsText(s, text) /\ Len(text) <= MaxText

LEMMA CharFacts == NUL \in Char /\ Junk \in Char /\ "a" \in Char
BY DEF Char

LEMMA TextSound ==
    ASSUME NEW h, NEW t, IsText(h, t)
    PROVE  /\ sdslen(h) = Len(t) /\ Content(h) = t
           /\ h.buf[h.len + 1] = NUL
           /\ sdsalloc(h) >= h.len /\ Len(h.buf) > sdsalloc(h)
           /\ h.type # 5 => Len(h.buf) = h.alloc + 1
<1>1. Memory(h) /\ h.len = Len(t) /\ t \in Seq(Char) /\ h.buf \in Seq(Char) /\ Len(t) <= Len(h.buf)
      /\ (\A i \in 1 .. Len(t) : h.buf[i] = t[i]) /\ h.buf[Len(t) + 1] = NUL
    BY DEF IsText, Counted, Holds, Memory, Header
<1>2. Content(h) = t
    <2> DEFINE c == SubSeq(h.buf, 1, Len(t))
    <2>1. c \in Seq(Char) /\ Len(c) = Len(t) /\ \A i \in 1 .. Len(t) : c[i] = h.buf[i]
        BY <1>1
    <2> HIDE DEF c
    <2>2. c = t
        BY <1>1, <2>1, SeqEqual
    <2> QED
        BY <1>1, <2>2 DEF Content, Cut, c
<1>3. sdsalloc(h) \in Nat /\ h.len \in Nat /\ Len(h.buf) \in Nat
    BY <1>1 DEF Memory, Header, sdsalloc
<1> QED
    BY <1>1, <1>2, <1>3 DEF Memory, sdslen

(* The type that sdsReqType chooses can count what it is asked for. *)
LEMMA ReqType ==
    ASSUME NEW n \in Nat, n < Modulus[64]
    PROVE  sdsReqType(n) \in Types /\ n < Modulus[sdsReqType(n)]
<1> DEFINE ts == {t \in {8, 16, 32} : n < Modulus[t] - 1} \cup {64}
<1>0. Modulus \in [Types -> Nat \ {0}] /\ {8, 16, 32, 64, 5} \subseteq Types
    BY SdsAssumption DEF Types
<1>1. CASE n < Modulus[5]
    BY <1>0, <1>1 DEF sdsReqType
<1>2. CASE ~(n < Modulus[5])
    <2>1. ts \in SUBSET Nat /\ ts # {} /\ ts \subseteq {8, 16, 32, 64}
        OBVIOUS
    <2>2. \A t \in ts : n < Modulus[t]
        BY <1>0
    <2> HIDE DEF ts
    <2>3. Min(ts) \in ts
        BY <2>1, MinFacts
    <2>4. sdsReqType(n) = Min(ts)
        BY <1>2 DEF sdsReqType, ts
    <2>5. Min(ts) \in Types /\ n < Modulus[Min(ts)]
        BY <1>0, <2>1, <2>2, <2>3
    <2> QED
        BY <2>4, <2>5
<1> QED
    BY <1>1, <1>2

(* A write inside the memory replaces what it covers. *)
LEMMA WriteIs ==
    ASSUME NEW h, h \in Header, NEW at \in Nat, NEW b \in Seq(Char), at + Len(b) <= Len(h.buf)
    PROVE  LET w == Write(h, at, b)
           IN  /\ w \in Header /\ w.type = h.type /\ w.len = h.len /\ w.alloc = h.alloc
               /\ Len(w.buf) = Len(h.buf)
               /\ \A i \in 1 .. Len(h.buf) :
                     w.buf[i] = IF i > at /\ i <= at + Len(b) THEN b[i - at] ELSE h.buf[i]
<1> PICK u \in Seq(Char) : u = h.buf
    BY DEF Header
<1> DEFINE n == Len(u)
           k == Len(b)
           x == SubSeq(u, 1, at)
           y == SubSeq(u, at + k + 1, n)
<1>0. n \in Nat /\ k \in Nat /\ at + k <= n
    OBVIOUS
<1>1. x \in Seq(Char) /\ Len(x) = at /\ \A i \in 1 .. at : x[i] = u[i]
    BY <1>0
<1>2. y \in Seq(Char) /\ Len(y) = n - at - k /\ \A i \in 1 .. n - at - k : y[i] = u[i + at + k]
    BY <1>0
<1>3. Write(h, at, b) = [h EXCEPT !.buf = x \o b \o y]
    BY DEF Write, Cut, From
<1> HIDE DEF n, k, x, y
<1>4. x \o b \in Seq(Char) /\ Len(x \o b) = at + k
      /\ \A i \in 1 .. at + k : (x \o b)[i] = IF i <= at THEN x[i] ELSE b[i - at]
    <2>1. PICK c \in Seq(Char) : c = x
        BY <1>1
    <2>2. /\ c \o b \in Seq(Char) /\ Len(c \o b) = Len(c) + Len(b)
          /\ \A i \in 1 .. Len(c) + Len(b) :
                (c \o b)[i] = IF i <= Len(c) THEN c[i] ELSE b[i - Len(c)]
        BY ConcatProperties
    <2>3. Len(c) = at /\ Len(b) = k
        BY <1>1, <2>1 DEF k
    <2> QED
        BY <2>1, <2>2, <2>3
<1> DEFINE v == x \o b
           z == v \o y
<1>5. v \in Seq(Char) /\ Len(v) = at + k
      /\ \A i \in 1 .. at + k : v[i] = IF i <= at THEN x[i] ELSE b[i - at]
    BY <1>4
<1> HIDE DEF v
<1>6. /\ z \in Seq(Char) /\ Len(z) = n
      /\ \A i \in 1 .. n : z[i] = IF i <= at + k THEN v[i] ELSE y[i - (at + k)]
    <2>1. PICK c \in Seq(Char), e \in Seq(Char) : c = v /\ e = y
        BY <1>2, <1>5
    <2>2. /\ c \o e \in Seq(Char) /\ Len(c \o e) = Len(c) + Len(e)
          /\ \A i \in 1 .. Len(c) + Len(e) :
                (c \o e)[i] = IF i <= Len(c) THEN c[i] ELSE e[i - Len(c)]
        BY ConcatProperties
    <2>3. Len(c) = at + k /\ Len(e) = n - at - k
        BY <1>2, <1>5, <2>1
    <2>4. Len(c) + Len(e) = n
        BY <1>0, <2>3
    <2> QED
        BY <2>1, <2>2, <2>3, <2>4
<1> HIDE DEF z
<1>7. \A i \in 1 .. n : z[i] = IF i > at /\ i <= at + k THEN b[i - at] ELSE u[i]
    <2> TAKE i \in 1 .. n
    <2>1. CASE i <= at
        BY <2>1, <1>0, <1>1, <1>5, <1>6
    <2>2. CASE i > at /\ i <= at + k
        <3>1. i \in 1 .. at + k /\ ~(i <= at)
            BY <2>2, <1>0
        <3>2. v[i] = b[i - at]
            BY <3>1, <1>5
        <3>3. z[i] = v[i]
            BY <2>2, <1>6
        <3> QED
            BY <2>2, <3>2, <3>3
    <2>3. CASE i > at + k
        <3>1. i - (at + k) \in 1 .. n - at - k /\ i - (at + k) + at + k = i
            BY <2>3, <1>0
        <3>2. y[i - (at + k)] = u[i]
            BY <1>2, <3>1
        <3> QED
            BY <2>3, <3>2, <1>0, <1>6
    <2> QED
        BY <2>1, <2>2, <2>3, <1>0
<1>8. Write(h, at, b) = [h EXCEPT !.buf = z]
    BY <1>3 DEF z, v
<1>9. [h EXCEPT !.buf = z] \in Header /\ [h EXCEPT !.buf = z].buf = z
      /\ [h EXCEPT !.buf = z].type = h.type /\ [h EXCEPT !.buf = z].len = h.len
      /\ [h EXCEPT !.buf = z].alloc = h.alloc
    BY <1>6 DEF Header
<1> QED
    BY <1>6, <1>7, <1>8, <1>9 DEF n, k

(* A write keeps the memory and what stands before it. *)
LEMMA WriteHolds ==
    ASSUME NEW h, Memory(h), NEW t, Holds(h, t), NEW b \in Seq(Char),
           Len(t) + Len(b) <= Len(h.buf)
    PROVE  LET w == Write(h, Len(t), b)
           IN  /\ Memory(w) /\ w.len = h.len /\ w.type = h.type /\ sdsalloc(w) = sdsalloc(h)
               /\ Len(w.buf) = Len(h.buf)
               /\ Holds(w, t \o b)
<1> PICK w : w = Write(h, Len(t), b)
    OBVIOUS
<1>0. h \in Header /\ t \in Seq(Char) /\ Len(t) \in Nat /\ Len(b) \in Nat /\ Len(h.buf) \in Nat
    BY DEF Memory, Holds, Header
<1>1. /\ w \in Header /\ w.type = h.type /\ w.len = h.len /\ w.alloc = h.alloc
      /\ Len(w.buf) = Len(h.buf)
      /\ \A i \in 1 .. Len(h.buf) :
            w.buf[i] = IF i > Len(t) /\ i <= Len(t) + Len(b) THEN b[i - Len(t)] ELSE h.buf[i]
    BY <1>0, WriteIs
<1>2. sdsalloc(w) = sdsalloc(h)
    BY <1>1 DEF sdsalloc
<1>3. Memory(w)
    BY <1>1, <1>2 DEF Memory
<1>4. t \o b \in Seq(Char) /\ Len(t \o b) = Len(t) + Len(b)
      /\ \A i \in 1 .. Len(t) + Len(b) : (t \o b)[i] = IF i <= Len(t) THEN t[i] ELSE b[i - Len(t)]
    BY <1>0, ConcatProperties
<1>5. ASSUME NEW i \in 1 .. Len(t \o b)
      PROVE  w.buf[i] = (t \o b)[i]
    <2>1. i \in 1 .. Len(h.buf) /\ i \in 1 .. Len(t) + Len(b)
        BY <1>0, <1>4
    <2>2. CASE i <= Len(t)
        <3>1. i \in 1 .. Len(t)
            BY <2>1, <2>2
        <3>2. h.buf[i] = t[i]
            BY <3>1 DEF Holds
        <3>3. ~(i > Len(t))
            BY <2>2, <1>0
        <3> QED
            BY <1>1, <1>4, <2>1, <2>2, <3>2, <3>3
    <2>3. CASE i > Len(t)
        <3>1. i <= Len(t) + Len(b) /\ ~(i <= Len(t))
            BY <2>1, <2>3, <1>0
        <3> QED
            BY <1>1, <1>4, <2>1, <2>3, <3>1
    <2> QED
        BY <1>0, <2>1, <2>2, <2>3
<1>6. Holds(w, t \o b)
    BY <1>0, <1>1, <1>4, <1>5 DEF Holds
<1> QED
    BY <1>1, <1>2, <1>3, <1>6

(* The length may be set to whatever the memory has room for. *)
LEMMA SetLength ==
    ASSUME NEW h, Memory(h), NEW t, Holds(h, t), Len(t) <= sdsalloc(h)
    PROVE  LET w == sdssetlen(h, Len(t))
           IN  Counted(w, t) /\ w.buf = h.buf /\ sdsalloc(w) >= Len(t)
<1> PICK n \in Nat : n = Len(t)
    BY DEF Holds
<1> PICK w : w = sdssetlen(h, n)
    OBVIOUS
<1>1. h \in Header /\ h.type \in Types /\ h.len \in Nat /\ h.alloc \in Nat /\ sdsalloc(h) \in Nat
      /\ Modulus[h.type] \in Nat /\ Len(h.buf) \in Nat
    BY SdsAssumption DEF Memory, Header, sdsalloc
<1>2. n < Modulus[h.type]
    BY <1>1 DEF Memory
<1>3. n % Modulus[h.type] = n
    <2> PICK m \in Nat : m = Modulus[h.type]
        BY <1>1
    <2>1. n < m
        BY <1>2
    <2> QED
        BY <2>1
<1>4. w = [h EXCEPT !.len = n]
    BY <1>3 DEF sdssetlen
<1>5. w \in Header /\ w.len = n /\ w.type = h.type /\ w.alloc = h.alloc /\ w.buf = h.buf
    BY <1>1, <1>4 DEF Header
<1>6. Memory(w)
    <2>1. CASE h.type = 5
        <3>1. sdsalloc(w) = n /\ sdsalloc(h) = h.len
            BY <1>5, <2>1 DEF sdsalloc
        <3>2. n < Len(h.buf)
            BY <1>1, <3>1 DEF Memory
        <3> QED
            BY <1>1, <1>2, <1>5, <2>1, <3>1, <3>2 DEF Memory
    <2>2. CASE h.type # 5
        <3>1. sdsalloc(w) = sdsalloc(h)
            BY <1>5, <2>2 DEF sdsalloc
        <3> QED
            BY <1>5, <2>2, <3>1 DEF Memory
    <2> QED
        BY <2>1, <2>2
<1>7. Holds(w, t)
    BY <1>5 DEF Holds
<1>8. sdsalloc(w) >= n
    <2>1. sdsalloc(w) \in Nat /\ n <= sdsalloc(w)
        BY <1>5, <1>6 DEF Memory, Header, sdsalloc
    <2> QED
        BY <2>1
<1> QED
    BY <1>5, <1>6, <1>7, <1>8 DEF Counted

LEMMA Terminates ==
    ASSUME NEW h, Memory(h), NEW t, Holds(h, t), Len(t) <= sdsalloc(h)
    PROVE  IsText(Terminated(h, Len(t)), t)
<1> PICK w : w = Write(h, Len(t), <<NUL>>)
    OBVIOUS
<1>1. h \in Header /\ t \in Seq(Char) /\ Len(t) \in Nat /\ Len(h.buf) \in Nat /\ sdsalloc(h) \in Nat
    BY DEF Memory, Holds, Header, sdsalloc
<1>2. <<NUL>> \in Seq(Char) /\ Len(<<NUL>>) = 1 /\ <<NUL>>[1] = NUL
    BY CharFacts
<1>3. Len(t) + Len(<<NUL>>) <= Len(h.buf)
    BY <1>1, <1>2 DEF Memory
<1>4. /\ Memory(w) /\ sdsalloc(w) = sdsalloc(h) /\ Len(w.buf) = Len(h.buf)
      /\ Holds(w, t \o <<NUL>>)
    BY <1>2, <1>3, WriteHolds
<1>5. Len(t \o <<NUL>>) = Len(t) + 1 /\ (t \o <<NUL>>)[Len(t) + 1] = NUL
      /\ \A i \in 1 .. Len(t) : (t \o <<NUL>>)[i] = t[i]
    BY <1>1, <1>2
<1>6. Holds(w, t) /\ w.buf[Len(t) + 1] = NUL
    BY <1>1, <1>3, <1>4, <1>5 DEF Holds
<1>7. IsText(sdssetlen(w, Len(t)), t)
    BY <1>1, <1>4, <1>6, SetLength DEF IsText
<1> QED
    BY <1>7 DEF Terminated

LEMMA Unwrapped == \A x, k \in Nat : x < k => x % k = x
OBVIOUS

(* New memory holds the bytes that are copied into it: the text and what   *)
(* came after it.                                                          *)
LEMMA NewMemory ==
    ASSUME NEW type \in Types, NEW size \in Nat, size < Modulus[type],
           NEW t \in Seq(Char), Len(t) <= size, type = 5 => size = Len(t), NEW e \in Char
    PROVE  LET h == Allocated(type, Len(t), size, t \o <<e>>)
           IN  /\ Counted(h, t) /\ h.buf[Len(t) + 1] = e
               /\ sdsalloc(h) = size /\ h.type = type
<1> PICK b : b = t \o <<e>>
    OBVIOUS
<1>b. b \in Seq(Char)
    OBVIOUS
<1> DEFINE n == Len(t)
           m == size - n
           f == Fill(m, Junk)
<1>0. n \in Nat /\ m \in Nat /\ n + m = size
    OBVIOUS
<1>1. Len(b) = n + 1 /\ b[n + 1] = e /\ \A i \in 1 .. n : b[i] = t[i]
    BY <1>b
<1>2. f \in Seq(Char) /\ Len(f) = m
    BY <1>0, CharFacts DEF Fill
<1>3. size + 1 - Len(b) = m
    BY <1>0, <1>1
<1> HIDE DEF m, f
<1> PICK buf : buf = b \o f
    OBVIOUS
<1>4. /\ buf \in Seq(Char) /\ Len(buf) = size + 1
      /\ \A i \in 1 .. n + 1 : buf[i] = b[i]
    <2>1. PICK c \in Seq(Char) : c = f
        BY <1>2
    <2>b. b \in Seq(Char)
        BY <1>b
    <2>2. /\ b \o c \in Seq(Char) /\ Len(b \o c) = Len(b) + Len(c)
          /\ \A i \in 1 .. Len(b) + Len(c) :
                (b \o c)[i] = IF i <= Len(b) THEN b[i] ELSE c[i - Len(b)]
        BY <2>b, ConcatProperties
    <2>3. Len(b) = n + 1 /\ Len(c) = m
        BY <1>1, <1>2, <2>1
    <2>5. Len(b) + Len(c) = size + 1
        <3>1. Len(b) + Len(c) = n + 1 + m
            BY <2>3
        <3>2. n + 1 + m = size + 1
            BY <1>0
        <3> QED
            BY <3>1, <3>2
    <2> QED
        BY <1>0, <2>1, <2>2, <2>3, <2>5
<1>5. Modulus[type] \in Nat /\ n < Modulus[type]
    BY <1>0, SdsAssumption
<1>6. n % Modulus[type] = n /\ size % Modulus[type] = size
    <2> PICK k \in Nat : k = Modulus[type]
        BY <1>5
    <2>1. n < k /\ size < k
        BY <1>5
    <2> QED
        BY <1>0, <2>1, Unwrapped
<1> PICK h : h = [type |-> type, len |-> n, alloc |-> IF type = 5 THEN 0 ELSE size, buf |-> buf]
    OBVIOUS
<1>7. Allocated(type, n, size, b) = h
    BY <1>3, <1>6 DEF Allocated, f
<1>8. h \in Header /\ h.type = type /\ h.len = n /\ h.buf = buf
      /\ h.alloc = IF type = 5 THEN 0 ELSE size
    BY <1>0, <1>4 DEF Header
<1>9. sdsalloc(h) = size
    BY <1>8 DEF sdsalloc
<1>10. Memory(h)
    BY <1>0, <1>4, <1>8, <1>9 DEF Memory
<1>11. Holds(h, t) /\ h.buf[n + 1] = e
    BY <1>0, <1>1, <1>4, <1>8 DEF Holds
<1>12. Counted(h, t)
    BY <1>8, <1>10, <1>11 DEF Counted
<1> QED
    BY <1>7, <1>8, <1>9, <1>11, <1>12

(* The bytes that are copied: the text and what stands after it. *)
LEMMA Copied ==
    ASSUME NEW h, NEW t, Counted(h, t)
    PROVE  Cut(h.buf, h.len + 1) = t \o <<h.buf[Len(t) + 1]>> /\ h.buf[Len(t) + 1] \in Char
<1>1. Memory(h) /\ h.len = Len(t) /\ t \in Seq(Char) /\ h.buf \in Seq(Char)
      /\ (\A i \in 1 .. Len(t) : h.buf[i] = t[i])
    BY DEF Counted, Holds, Memory, Header
<1>2. Len(t) \in Nat /\ Len(h.buf) \in Nat /\ Len(t) < Len(h.buf)
    BY <1>1 DEF Memory, Header, sdsalloc
<1> PICK u \in Seq(Char) : u = h.buf
    BY <1>1
<1> PICK c : c = SubSeq(u, 1, Len(t) + 1)
    OBVIOUS
<1> PICK after \in Char : after = h.buf[Len(t) + 1]
    BY <1>1, <1>2
<1> PICK e : e = t \o <<after>>
    OBVIOUS
<1>3. c \in Seq(Char) /\ Len(c) = Len(t) + 1 /\ \A i \in 1 .. Len(t) + 1 : c[i] = u[i]
    BY <1>2
<1>4. e \in Seq(Char) /\ Len(e) = Len(t) + 1 /\ e[Len(t) + 1] = after /\ \A i \in 1 .. Len(t) : e[i] = t[i]
    BY <1>1
<1>5. \A i \in 1 .. Len(t) + 1 : c[i] = e[i]
    <2> TAKE i \in 1 .. Len(t) + 1
    <2>1. CASE i = Len(t) + 1
        BY <1>1, <1>2, <1>3, <1>4, <2>1
    <2>2. CASE i # Len(t) + 1
        <3>1. i \in 1 .. Len(t)
            BY <1>2, <2>2
        <3> QED
            BY <1>1, <1>3, <1>4, <3>1
    <2> QED
        BY <2>1, <2>2
<1>6. c = e
    BY <1>3, <1>4, <1>5, SeqEqual
<1> QED
    BY <1>1, <1>6 DEF Cut

LEMMA Room ==
    ASSUME NEW h, NEW t, Counted(h, t), NEW add \in Nat, Len(t) + add <= MaxText + 1
    PROVE  LET r == sdsMakeRoomFor(h, add)
           IN  /\ Counted(r, t) /\ sdsalloc(r) >= Len(t) + add
               /\ r.buf[Len(t) + 1] = h.buf[Len(t) + 1]
<1> DEFINE newlen == Len(t) + add
           size == IF newlen < MaxPrealloc THEN newlen * 2 ELSE newlen + MaxPrealloc
           type == IF sdsReqType(size) = 5 THEN 8 ELSE sdsReqType(size)
<1>0. h.len = Len(t) /\ Len(t) \in Nat /\ t \in Seq(Char) /\ sdsalloc(h) \in Nat
    BY DEF Counted, Holds, Memory, Header, sdsalloc
<1>1. CASE sdsavail(h) >= add
    <2>1. sdsMakeRoomFor(h, add) = h
        BY <1>1 DEF sdsMakeRoomFor
    <2>2. sdsalloc(h) >= Len(t) + add
        BY <1>0, <1>1 DEF sdsavail, sdslen
    <2> QED
        BY <2>1, <2>2
<1>2. CASE ~(sdsavail(h) >= add)
    <2>0. MaxPrealloc \in Nat /\ MaxText \in Nat /\ MaxText + 1 + MaxPrealloc < Modulus[64]
          /\ Modulus \in [Types -> Nat \ {0}] /\ Modulus[5] < Modulus[8] /\ {5, 8, 64} \subseteq Types
        BY SdsAssumption DEF Types
    <2>1. newlen \in Nat /\ size \in Nat /\ newlen <= size /\ size <= MaxText + 1 + MaxPrealloc
        <3>1. newlen \in Nat /\ newlen <= MaxText + 1
            BY <1>0
        <3> HIDE DEF newlen
        <3> QED
            BY <2>0, <3>1
    <2>2. size < Modulus[64]
        <3>1. Modulus[64] \in Nat
            BY <2>0
        <3> HIDE DEF size
        <3> QED
            BY <2>0, <2>1, <3>1
    <2> HIDE DEF size, newlen
    <2>3. sdsReqType(size) \in Types /\ size < Modulus[sdsReqType(size)]
        BY <2>1, <2>2, ReqType
    <2>4. type \in Types /\ type # 5 /\ size < Modulus[type]
        <3>1. CASE sdsReqType(size) = 5
            <4>1. Modulus[5] \in Nat /\ Modulus[8] \in Nat
                BY <2>0
            <4> QED
                BY <2>0, <2>1, <2>3, <3>1, <4>1
        <3>2. CASE sdsReqType(size) # 5
            BY <2>3, <3>2
        <3> QED
            BY <3>1, <3>2
    <2>5. sdsMakeRoomFor(h, add) = Allocated(type, Len(t), size, t \o <<h.buf[Len(t) + 1]>>)
        <3>1. Cut(h.buf, h.len + 1) = t \o <<h.buf[Len(t) + 1]>>
            BY Copied
        <3>2. sdslen(h) = Len(t)
            BY <1>0 DEF sdslen
        <3>3. sdsMakeRoomFor(h, add) = Allocated(type, sdslen(h), size, Cut(h.buf, h.len + 1))
            BY <1>2, <3>2 DEF sdsMakeRoomFor, size, newlen
        <3> QED
            BY <3>1, <3>2, <3>3
    <2> HIDE DEF type
    <2>6. Len(t) <= size
        BY <1>0, <2>1 DEF newlen
    <2> PICK e \in Char : e = h.buf[Len(t) + 1]
        BY Copied
    <2> PICK r : r = Allocated(type, Len(t), size, t \o <<e>>)
        OBVIOUS
    <2>7. Counted(r, t) /\ sdsalloc(r) = size /\ r.buf[Len(t) + 1] = e
        BY <1>0, <2>1, <2>4, <2>6, NewMemory
    <2> QED
        BY <2>1, <2>5, <2>7 DEF newlen
<1> QED
    BY <1>1, <1>2

(* A string stays one. *)
LEMMA RoomText ==
    ASSUME NEW h, NEW t, IsText(h, t), NEW add \in Nat, Len(t) + add <= MaxText + 1
    PROVE  LET r == sdsMakeRoomFor(h, add)
           IN  IsText(r, t) /\ sdsalloc(r) >= Len(t) + add
BY Room DEF IsText

-----------------------------------------------------------------------------
(* Operations *)

LEMMA TextFacts ==
    ASSUME NEW h, NEW t, IsText(h, t)
    PROVE  /\ Memory(h) /\ Holds(h, t) /\ h.len = Len(t)
           /\ t \in Seq(Char) /\ Len(t) \in Nat /\ h.buf \in Seq(Char) /\ Len(h.buf) \in Nat
           /\ sdsalloc(h) \in Nat /\ Len(t) <= sdsalloc(h) /\ sdsalloc(h) < Len(h.buf)
           /\ h.buf[Len(t) + 1] = NUL /\ \A i \in 1 .. Len(t) : h.buf[i] = t[i]
           /\ h.type \in Types
BY DEF IsText, Counted, Memory, Holds, Header, sdsalloc

LEMMA JoinFacts ==
    ASSUME NEW t \in Seq(Char), NEW b \in Seq(Char)
    PROVE  /\ t \o b \in Seq(Char) /\ Len(t \o b) = Len(t) + Len(b)
           /\ Len(t) \in Nat /\ Len(b) \in Nat
           /\ \A i \in 1 .. Len(t) + Len(b) : (t \o b)[i] = IF i <= Len(t) THEN t[i] ELSE b[i - Len(t)]
BY ConcatProperties

(* What is written after the text belongs to it when it is terminated. *)
LEMMA Appended ==
    ASSUME NEW h, Memory(h), NEW t, Holds(h, t), NEW b \in Seq(Char),
           Len(t) + Len(b) <= sdsalloc(h)
    PROVE  IsText(Terminated(Write(h, Len(t), b), Len(t) + Len(b)), t \o b)
<1>1. Len(t) + Len(b) <= Len(h.buf) /\ t \in Seq(Char)
    BY DEF Memory, Header, Holds, sdsalloc
<1> PICK w : w = Write(h, Len(t), b)
    OBVIOUS
<1>2. Memory(w) /\ sdsalloc(w) = sdsalloc(h) /\ Holds(w, t \o b)
    BY <1>1, WriteHolds
<1>3. Len(t \o b) = Len(t) + Len(b)
    BY <1>1, JoinFacts
<1>4. IsText(Terminated(w, Len(t \o b)), t \o b)
    BY <1>2, <1>3, Terminates
<1> QED
    BY <1>3, <1>4

LEMMA NewText ==
    ASSUME NEW t \in Seq(Char), Len(t) <= MaxText
    PROVE  IsText(sdsnewlen(t), t)
<1> DEFINE type == IF t = <<>> THEN 8 ELSE sdsReqType(Len(t))
<1>1. MaxText \in Nat /\ MaxPrealloc \in Nat /\ MaxText + 1 + MaxPrealloc < Modulus[64]
      /\ Modulus \in [Types -> Nat \ {0}] /\ {5, 8, 64} \subseteq Types
    BY SdsAssumption DEF Types
<1>2. Len(t) \in Nat /\ Len(t) < Modulus[64]
    <2>1. Len(t) \in Nat /\ Modulus[64] \in Nat
        BY <1>1
    <2> QED
        BY <1>1, <2>1
<1>3. type \in Types /\ Len(t) < Modulus[type]
    <2>1. CASE t = <<>>
        <3>1. Len(t) = 0 /\ Modulus[8] \in Nat \ {0}
            BY <1>1, <2>1
        <3> QED
            BY <1>1, <2>1, <3>1
    <2>2. CASE t # <<>>
        BY <1>2, <2>2, ReqType
    <2> QED
        BY <2>1, <2>2
<1>4. Append(t, NUL) = t \o <<NUL>>
    BY CharFacts, AppendIsConcat
<1>5. sdsnewlen(t) = Allocated(type, Len(t), Len(t), t \o <<NUL>>)
    BY <1>4 DEF sdsnewlen
<1> HIDE DEF type
<1> QED
    BY <1>2, <1>3, <1>5, NewMemory, CharFacts DEF IsText

LEMMA CatText ==
    ASSUME NEW h, NEW t, IsText(h, t), NEW b \in Seq(Char), Len(t) + Len(b) <= MaxText
    PROVE  IsText(sdscatlen(h, b), t \o b)
<1>0. h.len = Len(t) /\ Len(t) \in Nat /\ Len(b) \in Nat /\ MaxText \in Nat
    BY TextFacts, SdsAssumption
<1> PICK r : r = sdsMakeRoomFor(h, Len(b))
    OBVIOUS
<1>1. IsText(r, t) /\ sdsalloc(r) >= Len(t) + Len(b)
    BY <1>0, RoomText
<1>2. Memory(r) /\ Holds(r, t) /\ sdsalloc(r) \in Nat
    BY <1>1, TextFacts
<1>3. IsText(Terminated(Write(r, Len(t), b), Len(t) + Len(b)), t \o b)
    BY <1>0, <1>1, <1>2, Appended
<1> QED
    BY <1>0, <1>3 DEF sdscatlen

LEMMA CpyText ==
    ASSUME NEW h, NEW t, IsText(h, t), NEW b \in Seq(Char), Len(b) <= MaxText
    PROVE  IsText(sdscpylen(h, b), b)
<1>0. h.len = Len(t) /\ Len(t) \in Nat /\ Len(b) \in Nat /\ MaxText \in Nat /\ sdsalloc(h) \in Nat
      /\ Len(t) <= sdsalloc(h) /\ Memory(h)
    BY TextFacts, SdsAssumption
<1> PICK r : r = IF sdsalloc(h) < Len(b) THEN sdsMakeRoomFor(h, Len(b) - h.len) ELSE h
    OBVIOUS
<1>1. Memory(r) /\ sdsalloc(r) >= Len(b) /\ sdsalloc(r) \in Nat
    <2>1. CASE sdsalloc(h) < Len(b)
        <3>1. Len(b) - Len(t) \in Nat /\ Len(t) + (Len(b) - Len(t)) = Len(b) /\ Len(b) <= MaxText + 1
            BY <1>0, <2>1
        <3>2. IsText(r, t) /\ sdsalloc(r) >= Len(t) + (Len(b) - Len(t))
            BY <1>0, <2>1, <3>1, RoomText
        <3> QED
            BY <3>1, <3>2, TextFacts
    <2>2. CASE ~(sdsalloc(h) < Len(b))
        BY <1>0, <2>2
    <2> QED
        BY <2>1, <2>2
<1>2. Holds(r, <<>>) /\ Len(<<>>) = 0 /\ <<>> \o b = b
    BY <1>1 DEF Holds, Memory, Header
<1>3. IsText(Terminated(Write(r, Len(<<>>), b), Len(<<>>) + Len(b)), <<>> \o b)
    <2>1. Len(<<>>) + Len(b) <= sdsalloc(r)
        BY <1>0, <1>1, <1>2
    <2> QED
        BY <1>1, <1>2, <2>1, Appended
<1>4. IsText(Terminated(Write(r, 0, b), Len(b)), b)
    BY <1>0, <1>2, <1>3
<1> QED
    BY <1>4 DEF sdscpylen

LEMMA FillFacts ==
    ASSUME NEW n \in Nat, NEW f, f = Fill(n, NUL)
    PROVE  f \in Seq(Char) /\ Len(f) = n /\ \A i \in 1 .. n : f[i] = NUL
BY CharFacts DEF Fill

LEMMA GrowText ==
    ASSUME NEW h, NEW t, IsText(h, t), NEW n \in Int, Len(t \o Fill(n - Len(t), NUL)) <= MaxText
    PROVE  IsText(sdsgrowzero(h, n), t \o Fill(n - Len(t), NUL))
<1>0. h.len = Len(t) /\ Len(t) \in Nat /\ MaxText \in Nat /\ t \in Seq(Char) /\ NUL \in Char
    BY TextFacts, SdsAssumption, CharFacts
<1>1. CASE n <= Len(t)
    <2>1. Fill(n - Len(t), NUL) = <<>>
        BY <1>0, <1>1 DEF Fill
    <2>2. sdsgrowzero(h, n) = h
        BY <1>0, <1>1 DEF sdsgrowzero
    <2>3. t \o <<>> = t
        BY <1>0, ConcatEmptySeq
    <2> QED
        BY <2>1, <2>2, <2>3
<1>2. CASE ~(n <= Len(t))
    <2> PICK m \in Nat : m = n - Len(t) /\ Len(t) + m = n
        BY <1>0, <1>2
    <2> PICK f : f = Fill(m, NUL)
        OBVIOUS
    <2> PICK g : g = Fill(m + 1, NUL)
        OBVIOUS
    <2>1. f \in Seq(Char) /\ Len(f) = m /\ \A i \in 1 .. m : f[i] = NUL
        BY CharFacts, FillFacts
    <2>2. g \in Seq(Char) /\ Len(g) = m + 1 /\ \A i \in 1 .. m + 1 : g[i] = NUL
        BY CharFacts, FillFacts
    <2> PICK x : x = t \o f
        OBVIOUS
    <2> PICK y : y = t \o g
        OBVIOUS
    <2>3. x \in Seq(Char) /\ Len(x) = n
          /\ \A i \in 1 .. n : x[i] = IF i <= Len(t) THEN t[i] ELSE NUL
        <3>1. x \in Seq(Char) /\ Len(x) = Len(t) + m
              /\ \A i \in 1 .. Len(t) + m : x[i] = IF i <= Len(t) THEN t[i] ELSE f[i - Len(t)]
            BY <1>0, <2>1, JoinFacts
        <3>2. \A i \in 1 .. n : i > Len(t) => i - Len(t) \in 1 .. m
            BY <1>0
        <3> QED
            BY <1>0, <2>1, <3>1, <3>2
    <2>4. y \in Seq(Char) /\ Len(y) = n + 1
          /\ \A i \in 1 .. n + 1 : y[i] = IF i <= Len(t) THEN t[i] ELSE NUL
        <3>1. y \in Seq(Char) /\ Len(y) = Len(t) + (m + 1)
              /\ \A i \in 1 .. Len(t) + (m + 1) : y[i] = IF i <= Len(t) THEN t[i] ELSE g[i - Len(t)]
            BY <1>0, <2>2, JoinFacts, SMTT(30)
        <3>2. \A i \in 1 .. n + 1 : i > Len(t) => i - Len(t) \in 1 .. m + 1
            BY <1>0
        <3>3. Len(t) + (m + 1) = n + 1
            BY <1>0
        <3> QED
            BY <1>0, <2>2, <3>1, <3>2, <3>3, SMTT(30)
    <2> PICK r : r = sdsMakeRoomFor(h, m)
        OBVIOUS
    <2>5. n <= MaxText
        BY <2>3
    <2>6. IsText(r, t) /\ sdsalloc(r) >= n
        BY <1>0, <2>5, RoomText
    <2>7. Memory(r) /\ Holds(r, t) /\ n + 1 <= Len(r.buf)
        BY <2>6, TextFacts
    <2> PICK w : w = Write(r, Len(t), g)
        OBVIOUS
    <2>8. Memory(w) /\ sdsalloc(w) = sdsalloc(r) /\ Holds(w, y)
        <3>1. Len(t) + Len(g) <= Len(r.buf)
            BY <1>0, <2>2, <2>7
        <3> QED
            BY <2>2, <2>7, <3>1, WriteHolds
    <2>9. Holds(w, x) /\ w.buf[n + 1] = NUL
        <3>0. n \in Nat /\ n > Len(t)
            BY <1>0, <1>2
        <3>1. \A i \in 1 .. n : x[i] = y[i]
            <4> TAKE i \in 1 .. n
            <4>1. i \in 1 .. n + 1
                BY <3>0
            <4> QED
                BY <2>3, <2>4, <4>1
        <3>2. y[n + 1] = NUL /\ n + 1 \in 1 .. n + 1
            <4>1. n + 1 \in 1 .. n + 1 /\ ~(n + 1 <= Len(t))
                BY <1>0, <3>0
            <4> QED
                BY <2>4, <4>1
        <3> QED
            BY <1>0, <2>3, <2>4, <2>8, <3>1, <3>2, SMTT(30) DEF Holds
    <2>10. IsText(sdssetlen(w, n), x)
        <3>1. Len(x) <= sdsalloc(w)
            BY <2>3, <2>6, <2>8
        <3> PICK v : v = sdssetlen(w, Len(x))
            OBVIOUS
        <3>2. Counted(v, x) /\ v.buf = w.buf
            BY <2>8, <2>9, <3>1, SetLength
        <3>3. v = sdssetlen(w, n) /\ w.buf[Len(x) + 1] = NUL
            BY <2>3, <2>9
        <3> QED
            BY <3>2, <3>3 DEF IsText
    <2>11. sdsgrowzero(h, n) = sdssetlen(w, n)
        BY <1>0, <1>2 DEF sdsgrowzero
    <2> QED
        BY <2>10, <2>11
<1> QED
    BY <1>1, <1>2

LEMMA ShrinkText ==
    ASSUME NEW h, NEW t, IsText(h, t), Len(t) <= MaxText
    PROVE  IsText(sdsRemoveFreeSpace(h), t)
<1>1. h.len = Len(t) /\ Len(t) \in Nat /\ t \in Seq(Char)
    BY TextFacts
<1>2. Len(t) < Modulus[64]
    <2>1. Modulus[64] \in Nat /\ MaxText + 1 + MaxPrealloc < Modulus[64] /\ MaxText \in Nat /\ MaxPrealloc \in Nat
        BY SdsAssumption DEF Types
    <2> QED
        BY <1>1, <2>1
<1>3. sdsReqType(Len(t)) \in Types /\ Len(t) < Modulus[sdsReqType(Len(t))]
    BY <1>1, <1>2, ReqType
<1>4. Cut(h.buf, h.len + 1) = t \o <<NUL>>
    BY Copied DEF IsText
<1>5. sdsRemoveFreeSpace(h) = Allocated(sdsReqType(Len(t)), Len(t), Len(t), t \o <<NUL>>)
    BY <1>1, <1>4 DEF sdsRemoveFreeSpace
<1> QED
    BY <1>1, <1>3, <1>5, NewMemory, CharFacts DEF IsText

LEMMA Prefix ==
    ASSUME NEW h, NEW t, IsText(h, t), NEW n \in Nat, n <= Len(t)
    PROVE  LET u == SubSeq(t, 1, n)
           IN  Holds(h, u) /\ Len(u) = n /\ n <= sdsalloc(h)
<1>1. /\ Len(t) \in Nat /\ t \in Seq(Char) /\ Len(t) <= Len(h.buf) /\ sdsalloc(h) \in Nat
      /\ Len(h.buf) \in Nat /\ Len(t) <= sdsalloc(h) /\ \A i \in 1 .. Len(t) : h.buf[i] = t[i]
    BY TextFacts DEF Holds
<1> PICK u : u = SubSeq(t, 1, n)
    OBVIOUS
<1>2. u \in Seq(Char) /\ Len(u) = n /\ \A i \in 1 .. n : u[i] = t[i]
    BY <1>1
<1>3. \A i \in 1 .. Len(u) : h.buf[i] = u[i]
    BY <1>1, <1>2
<1> QED
    BY <1>1, <1>2, <1>3 DEF Holds

(* The string is cut off after its first bytes. *)
LEMMA CutText ==
    ASSUME NEW h, NEW t, IsText(h, t), NEW n \in Nat, n <= Len(t)
    PROVE  IsText(Terminated(h, n), SubSeq(t, 1, n))
<1> PICK u : u = SubSeq(t, 1, n)
    OBVIOUS
<1>1. Holds(h, u) /\ Len(u) = n /\ n <= sdsalloc(h) /\ Memory(h)
    BY Prefix, TextFacts
<1> QED
    BY <1>1, Terminates

(* A part of the string moves to the front. *)
LEMMA MoveText ==
    ASSUME NEW h, NEW t, IsText(h, t), NEW a \in Nat, NEW n \in Nat, a + n <= Len(t)
    PROVE  IsText(Terminated(Write(h, 0, SubSeq(h.buf, a + 1, a + n)), n), SubSeq(t, a + 1, a + n))
<1>1. /\ Len(t) \in Nat /\ t \in Seq(Char) /\ Len(t) <= Len(h.buf) /\ sdsalloc(h) \in Nat
      /\ Len(t) <= sdsalloc(h) /\ Memory(h) /\ h.buf \in Seq(Char) /\ Len(h.buf) \in Nat
      /\ \A i \in 1 .. Len(t) : h.buf[i] = t[i]
    BY TextFacts DEF Holds
<1> PICK buf \in Seq(Char) : buf = h.buf
    BY <1>1
<1> PICK u : u = SubSeq(t, a + 1, a + n)
    OBVIOUS
<1> PICK v : v = SubSeq(buf, a + 1, a + n)
    OBVIOUS
<1>2. u \in Seq(Char) /\ Len(u) = n /\ \A i \in 1 .. n : u[i] = t[a + i]
    BY <1>1
<1>3. v \in Seq(Char) /\ Len(v) = n /\ \A i \in 1 .. n : v[i] = buf[a + i]
    <2>1. a + n <= Len(buf) /\ a + 1 \in Nat /\ a + n \in Nat
        BY <1>1
    <2>2. v \in Seq(Char)
        BY <2>1
    <2>3. Len(v) = n
        BY <2>1
    <2> QED
        BY <2>1, <2>2, <2>3
<1>4. u = v
    <2>1. \A i \in 1 .. n : a + i \in 1 .. Len(t)
        BY <1>1
    <2>2. \A i \in 1 .. n : u[i] = v[i]
        BY <1>1, <1>2, <1>3, <2>1
    <2> QED
        BY <1>2, <1>3, <2>2, SeqEqual
<1>5. Holds(h, <<>>) /\ Len(<<>>) = 0 /\ <<>> \o v = v /\ Len(<<>>) + Len(v) = n /\ n <= sdsalloc(h)
    <2>1. <<>> \o v = v
        BY <1>3, ConcatEmptySeq
    <2>2. n <= sdsalloc(h) /\ Len(<<>>) + Len(v) = n /\ Len(<<>>) = 0
        BY <1>1, <1>3
    <2> QED
        BY <1>1, <2>1, <2>2 DEF Holds
<1>6. IsText(Terminated(Write(h, Len(<<>>), v), Len(<<>>) + Len(v)), <<>> \o v)
    BY <1>1, <1>3, <1>5, Appended
<1>7. IsText(Terminated(Write(h, 0, v), n), v)
    BY <1>5, <1>6
<1> QED
    BY <1>4, <1>7

LEMMA ReadText ==
    ASSUME NEW h, NEW t, IsText(h, t), NEW b \in Seq(Char), Len(t) + Len(b) <= MaxText
    PROVE  IsText(sdsIncrLen(Write(sdsMakeRoomFor(h, Len(b)), h.len, b), Len(b)), t \o b)
<1>0. h.len = Len(t) /\ Len(t) \in Nat /\ Len(b) \in Nat /\ MaxText \in Nat
    BY TextFacts, SdsAssumption
<1> PICK r : r = sdsMakeRoomFor(h, Len(b))
    OBVIOUS
<1>1. IsText(r, t) /\ sdsalloc(r) >= Len(t) + Len(b)
    BY <1>0, RoomText
<1>2. Memory(r) /\ Holds(r, t) /\ sdsalloc(r) \in Nat /\ r.len = Len(t) /\ sdsalloc(r) < Len(r.buf)
      /\ Len(r.buf) \in Nat /\ r.type \in Types
    BY <1>1, TextFacts
<1> PICK w : w = Write(r, Len(t), b)
    OBVIOUS
<1>3. Memory(w) /\ w.len = Len(t) /\ w.type = r.type /\ sdsalloc(w) = sdsalloc(r) /\ Holds(w, t \o b)
    <2>1. Len(t) + Len(b) <= Len(r.buf)
        BY <1>0, <1>1, <1>2
    <2> QED
        BY <1>2, <2>1, WriteHolds
<1>4. Len(t \o b) = Len(t) + Len(b)
    <2>1. t \in Seq(Char)
        BY TextFacts
    <2> QED
        BY <2>1, JoinFacts
<1>5. (w.len + Len(b)) % Modulus[w.type] = Len(t) + Len(b)
    <2>1. sdsalloc(r) < Modulus[r.type] /\ Modulus[r.type] \in Nat
        BY <1>2, SdsAssumption DEF Memory
    <2>2. Len(t) + Len(b) < Modulus[r.type] /\ Len(t) + Len(b) \in Nat
        BY <1>0, <1>1, <1>2, <2>1
    <2> QED
        BY <1>3, <2>1, <2>2, Unwrapped
<1>6. sdsIncrLen(w, Len(b)) = Terminated(w, Len(t) + Len(b))
    BY <1>5 DEF sdsIncrLen
<1>7. IsText(Terminated(w, Len(t \o b)), t \o b)
    BY <1>1, <1>3, <1>4, Terminates
<1> QED
    BY <1>0, <1>4, <1>6, <1>7

LEMMA DropText ==
    ASSUME NEW h, NEW t, IsText(h, t), NEW n \in Nat, n > 0, IncrLenAsserts(h, -n)
    PROVE  IsText(sdsIncrLen(h, -n), Cut(t, Len(t) - n))
<1>0. h.len = Len(t) /\ Len(t) \in Nat /\ sdsalloc(h) \in Nat /\ Len(t) <= sdsalloc(h) /\ h.type \in Types
      /\ Memory(h)
    BY TextFacts
<1>1. h.len >= n
    <2>1. -n < 0 /\ -(-n) = n
        OBVIOUS
    <2> QED
        BY <2>1 DEF IncrLenAsserts
<1> PICK m \in Nat : m = Len(t) - n /\ h.len + (-n) = m /\ m <= Len(t)
    BY <1>0, <1>1
<1>2. m % Modulus[h.type] = m
    <2>1. sdsalloc(h) < Modulus[h.type] /\ Modulus[h.type] \in Nat
        BY <1>0, SdsAssumption DEF Memory
    <2>2. m < Modulus[h.type]
        BY <1>0, <2>1
    <2> QED
        BY <2>1, <2>2, Unwrapped
<1>3. sdsIncrLen(h, -n) = Terminated(h, m)
    BY <1>2 DEF sdsIncrLen
<1> QED
    BY <1>3, CutText DEF Cut

(* One part of a format, which is not terminated. *)
LEMMA PartText ==
    ASSUME NEW h, NEW t, Counted(h, t), NEW b \in Seq(Char), Len(t) + Len(b) <= MaxText
    PROVE  Counted(CatPart(h, b), t \o b)
<1>0. /\ h.len = Len(t) /\ Len(t) \in Nat /\ Len(b) \in Nat /\ MaxText \in Nat /\ sdsalloc(h) \in Nat
      /\ t \in Seq(Char) /\ Len(t) <= sdsalloc(h)
    BY SdsAssumption DEF Counted, Holds, Memory, Header, sdsalloc
<1> PICK one : one = IF sdsavail(h) = 0 THEN sdsMakeRoomFor(h, 1) ELSE h
    OBVIOUS
<1>1. Counted(one, t)
    <2>1. Len(t) + 1 <= MaxText + 1
        BY <1>0
    <2> QED
        BY <2>1, Room
<1>2. one.len = Len(t) /\ sdsalloc(one) \in Nat
    BY <1>1 DEF Counted, Holds, Memory, Header, sdsalloc
<1> PICK r : r = IF sdsavail(one) < Len(b) THEN sdsMakeRoomFor(one, Len(b)) ELSE one
    OBVIOUS
<1>3. Counted(r, t) /\ Len(t) + Len(b) <= sdsalloc(r)
    <2>1. CASE sdsavail(one) < Len(b)
        <3>1. Len(t) + Len(b) <= MaxText + 1
            BY <1>0
        <3>2. Counted(r, t) /\ sdsalloc(r) >= Len(t) + Len(b)
            BY <1>0, <1>1, <2>1, <3>1, Room
        <3>3. sdsalloc(r) \in Nat
            BY <3>2 DEF Counted, Memory, Header, sdsalloc
        <3> QED
            BY <1>0, <3>2, <3>3
    <2>2. CASE ~(sdsavail(one) < Len(b))
        <3>1. sdsavail(one) = sdsalloc(one) - Len(t)
            BY <1>2 DEF sdsavail, sdslen
        <3> QED
            BY <1>0, <1>1, <1>2, <2>2, <3>1
    <2> QED
        BY <2>1, <2>2
<1> PICK w : w = Write(r, Len(t), b)
    OBVIOUS
<1>4. Memory(w) /\ sdsalloc(w) = sdsalloc(r) /\ Holds(w, t \o b)
    <2>1. Memory(r) /\ Holds(r, t) /\ sdsalloc(r) < Len(r.buf) /\ sdsalloc(r) \in Nat /\ Len(r.buf) \in Nat
        BY <1>3 DEF Counted, Memory, Header, sdsalloc
    <2>2. Len(t) + Len(b) <= Len(r.buf)
        BY <1>0, <1>3, <2>1
    <2> QED
        BY <2>1, <2>2, WriteHolds
<1>5. Len(t \o b) = Len(t) + Len(b)
    BY <1>0, JoinFacts
<1>6. Counted(sdssetlen(w, Len(t \o b)), t \o b)
    BY <1>3, <1>4, <1>5, SetLength
<1>7. CatPart(h, b) = sdssetlen(w, Len(t) + Len(b))
    BY <1>0 DEF CatPart
<1> QED
    BY <1>5, <1>6, <1>7

(* The terminator at the end. *)
LEMMA Ended ==
    ASSUME NEW h, NEW t, Counted(h, t)
    PROVE  IsText(Write(h, Len(t), <<NUL>>), t)
<1>1. /\ Memory(h) /\ Holds(h, t) /\ h.len = Len(t) /\ t \in Seq(Char) /\ Len(t) \in Nat
      /\ Len(h.buf) \in Nat
    BY DEF Counted, Memory, Header, Holds
<1>2. Len(t) < Len(h.buf)
    <2>1. h.len <= sdsalloc(h) /\ sdsalloc(h) < Len(h.buf) /\ sdsalloc(h) \in Nat
        BY DEF Counted, Memory, Header, sdsalloc
    <2> QED
        BY <1>1, <2>1
<1> PICK e : e = <<NUL>>
    OBVIOUS
<1>3. e \in Seq(Char) /\ Len(e) = 1 /\ e[1] = NUL
    BY CharFacts
<1> PICK w : w = Write(h, Len(t), e)
    OBVIOUS
<1>4. Memory(w) /\ w.len = h.len /\ Holds(w, t \o e) /\ Len(w.buf) = Len(h.buf)
    <2>1. Len(t) + Len(e) <= Len(h.buf)
        BY <1>1, <1>2, <1>3
    <2> QED
        BY <1>1, <1>3, <2>1, WriteHolds
<1> PICK y : y = t \o e
    OBVIOUS
<1>5. y \in Seq(Char) /\ Len(y) = Len(t) + 1 /\ y[Len(t) + 1] = NUL
      /\ \A i \in 1 .. Len(t) : y[i] = t[i]
    <2>1. Len(t) \in Nat
        BY <1>1
    <2>2. y \in Seq(Char) /\ Len(y) = Len(t) + 1
          /\ \A i \in 1 .. Len(t) + 1 : y[i] = IF i <= Len(t) THEN t[i] ELSE e[i - Len(t)]
        BY <1>1, <1>3, JoinFacts
    <2>3. y[Len(t) + 1] = e[1]
        BY <2>1, <2>2
    <2> QED
        BY <1>3, <2>1, <2>2, <2>3
<1>6. Holds(w, t) /\ w.buf[Len(t) + 1] = NUL
    <2>1. Len(t) <= Len(w.buf)
        BY <1>1, <1>2, <1>4
    <2>2. \A i \in 1 .. Len(t) + 1 : w.buf[i] = y[i]
        BY <1>4, <1>5 DEF Holds
    <2>3. \A i \in 1 .. Len(t) : w.buf[i] = t[i]
        BY <1>1, <1>5, <2>2
    <2>4. w.buf[Len(t) + 1] = NUL
        BY <1>1, <1>5, <2>2
    <2> QED
        BY <1>1, <2>1, <2>3, <2>4 DEF Holds
<1> QED
    BY <1>1, <1>4, <1>6 DEF IsText, Counted

(* The three parts of a format, and the terminator. *)
LEMMA FmtText ==
    ASSUME NEW h, NEW t, IsText(h, t), NEW b \in Seq(Char), NEW c \in Seq(Char), NEW d \in Seq(Char),
           Len(t \o b \o c \o d) <= MaxText
    PROVE  IsText(sdscatfmt(h, <<b, c, d>>), t \o b \o c \o d)
<1>0. t \in Seq(Char) /\ Len(t) \in Nat /\ MaxText \in Nat /\ Counted(h, t)
    BY TextFacts, SdsAssumption DEF IsText
<1> PICK x1 : x1 = t \o b
    OBVIOUS
<1> PICK x2 : x2 = x1 \o c
    OBVIOUS
<1> PICK x3 : x3 = x2 \o d
    OBVIOUS
<1>1. x1 \in Seq(Char) /\ Len(x1) = Len(t) + Len(b) /\ Len(b) \in Nat
    BY <1>0, JoinFacts
<1>2. x2 \in Seq(Char) /\ Len(x2) = Len(x1) + Len(c) /\ Len(c) \in Nat
    BY <1>1, JoinFacts
<1>3. x3 \in Seq(Char) /\ Len(x3) = Len(x2) + Len(d) /\ Len(d) \in Nat
    BY <1>2, JoinFacts
<1>4. Len(x3) <= MaxText /\ Len(x2) <= MaxText /\ Len(x1) <= MaxText
    <2>1. Len(x3) <= MaxText
        OBVIOUS
    <2> QED
        BY <1>0, <1>1, <1>2, <1>3, <2>1
<1> PICK h1 : h1 = CatPart(h, b)
    OBVIOUS
<1> PICK h2 : h2 = CatPart(h1, c)
    OBVIOUS
<1> PICK h3 : h3 = CatPart(h2, d)
    OBVIOUS
<1>5. Counted(h1, x1)
    BY <1>0, <1>1, <1>4, PartText
<1>6. Counted(h2, x2)
    BY <1>2, <1>4, <1>5, PartText
<1>7. Counted(h3, x3)
    BY <1>3, <1>4, <1>6, PartText
<1> DEFINE parts == <<b, c, d>>
           Is(f) == f = [i \in 0 .. Len(parts) |-> IF i = 0 THEN h ELSE CatPart(f[i - 1], parts[i])]
           after == CHOOSE f : Is(f)
<1>8. Len(parts) = 3 /\ parts[1] = b /\ parts[2] = c /\ parts[3] = d
    OBVIOUS
<1> HIDE DEF parts
<1>9. Is(after)
    <2> PICK g : g = [i \in 0 .. 3 |-> IF i = 0 THEN h ELSE IF i = 1 THEN h1 ELSE IF i = 2 THEN h2 ELSE h3]
        OBVIOUS
    <2>1. g[0] = h /\ g[1] = h1 /\ g[2] = h2 /\ g[3] = h3
        OBVIOUS
    <2>2. \A i \in 0 .. 3 : g[i] = IF i = 0 THEN h ELSE CatPart(g[i - 1], parts[i])
        <3> TAKE i \in 0 .. 3
        <3>1. CASE i = 0
            BY <2>1, <3>1
        <3>2. CASE i = 1
            BY <1>8, <2>1, <3>2
        <3>3. CASE i = 2
            BY <1>8, <2>1, <3>3
        <3>4. CASE i = 3
            BY <1>8, <2>1, <3>4
        <3> QED
            BY <3>1, <3>2, <3>3, <3>4
    <2>3. g = [i \in 0 .. 3 |-> g[i]]
        OBVIOUS
    <2>4. Is(g)
        BY <1>8, <2>2, <2>3
    <2> QED
        BY <2>4
<1>10. sdscatfmt(h, parts) = Write(after[Len(parts)], after[Len(parts)].len, <<NUL>>)
    BY DEF sdscatfmt
<1>11. after[0] = h /\ after[1] = CatPart(after[0], b) /\ after[2] = CatPart(after[1], c)
       /\ after[3] = CatPart(after[2], d)
    <2> HIDE DEF after
    <2>1. \A i \in 0 .. 3 : after[i] = IF i = 0 THEN h ELSE CatPart(after[i - 1], parts[i])
        BY <1>8, <1>9
    <2>2. after[0] = h
        BY <2>1
    <2>3. after[1] = CatPart(after[0], b)
        BY <1>8, <2>1
    <2>4. after[2] = CatPart(after[1], c)
        BY <1>8, <2>1
    <2>5. after[3] = CatPart(after[2], d)
        BY <1>8, <2>1
    <2> QED
        BY <2>2, <2>3, <2>4, <2>5
<1> HIDE DEF after
<1>12. after[3] = h3
    BY <1>11
<1>13. h3.len = Len(x3)
    BY <1>7 DEF Counted
<1>14. sdscatfmt(h, <<b, c, d>>) = Write(h3, Len(x3), <<NUL>>)
    BY <1>8, <1>10, <1>12, <1>13 DEF parts
<1> QED
    BY <1>7, <1>14, Ended

(* The string ends at its first NUL. *)
LEMMA UpdateText ==
    ASSUME NEW h, NEW t, IsText(h, t)
    PROVE  IsText(sdsupdatelen(h), CString(t)) /\ Len(CString(t)) <= Len(t)
<1>1. /\ Memory(h) /\ t \in Seq(Char) /\ Len(t) \in Nat /\ h.buf \in Seq(Char) /\ Len(h.buf) \in Nat
      /\ Len(t) < Len(h.buf) /\ h.buf[Len(t) + 1] = NUL /\ \A i \in 1 .. Len(t) : h.buf[i] = t[i]
    BY TextFacts
<1> PICK buf \in Seq(Char) : buf = h.buf
    BY <1>1
<1> PICK k \in Nat : k = Len(t)
    BY <1>1
<1> DEFINE E == {i \in DOMAIN buf : buf[i] = NUL}
           F == {i \in DOMAIN t : t[i] = NUL}
<1>2. E \in SUBSET Nat /\ k + 1 \in E /\ (\A i \in E : i >= 1) /\ E # {}
    <2>1. DOMAIN buf = 1 .. Len(buf) /\ k + 1 \in 1 .. Len(buf)
        BY <1>1
    <2> QED
        BY <1>1, <2>1
<1>3. F \in SUBSET Nat /\ (\A i \in F : i <= k) /\ F \subseteq E /\ \A i \in E : i <= k => i \in F
    <2>1. DOMAIN buf = 1 .. Len(buf) /\ DOMAIN t = 1 .. k /\ k < Len(buf)
        BY <1>1
    <2> QED
        BY <1>1, <2>1
<1>4. CString(buf) = SubSeq(buf, 1, Min(E) - 1)
    BY <1>2 DEF CString
<1>5. CString(t) = IF F = {} THEN t ELSE SubSeq(t, 1, Min(F) - 1)
    BY DEF CString
<1> HIDE DEF E, F
<1>6. Min(E) \in E /\ \A y \in E : Min(E) <= y
    BY <1>2, MinFacts
<1> PICK m : m = Min(E)
    OBVIOUS
<1>m. m \in Nat /\ m >= 1 /\ m <= k + 1
    BY <1>2, <1>6
<1> PICK n \in Nat : n = m - 1 /\ n <= k /\ n + 1 = m
    BY <1>m
<1>7. CString(t) = SubSeq(t, 1, n)
    <2>1. CASE F = {}
        <3>1. n = k
            BY <1>2, <1>3, <1>6, <2>1
        <3> PICK u : u = SubSeq(t, 1, k)
            OBVIOUS
        <3>2. u \in Seq(Char) /\ Len(u) = k /\ \A i \in 1 .. k : u[i] = t[i]
            BY <1>1
        <3>3. u = t
            BY <1>1, <3>2, SeqEqual
        <3> QED
            BY <1>5, <2>1, <3>1, <3>3
    <2>2. CASE F # {}
        <3>1. Min(F) \in F /\ \A y \in F : Min(F) <= y
            BY <1>3, <2>2, MinFacts
        <3>2. Min(F) \in E /\ Min(F) <= k /\ Min(F) \in Nat /\ Min(E) \in Nat
            BY <1>2, <1>3, <1>6, <3>1
        <3>3. Min(E) <= k
            BY <1>6, <3>2
        <3>4. Min(E) \in F
            BY <1>3, <1>6, <3>3
        <3>5. Min(E) = Min(F)
            BY <1>6, <3>1, <3>2, <3>4
        <3> QED
            BY <1>5, <2>2, <3>5
    <2> QED
        BY <2>1, <2>2
<1> PICK u : u = SubSeq(t, 1, n)
    OBVIOUS
<1>8. Holds(h, u) /\ Len(u) = n /\ n <= sdsalloc(h)
    BY Prefix
<1>9. Len(CString(buf)) = n
    <2>1. n <= Len(buf)
        BY <1>1
    <2>2. Len(SubSeq(buf, 1, n)) = n
        BY <2>1
    <2> QED
        BY <1>4, <2>2
<1>10. h.buf[n + 1] = NUL
    BY <1>6 DEF E
<1> PICK w : w = sdssetlen(h, Len(u))
    OBVIOUS
<1>11. Counted(w, u) /\ w.buf = h.buf
    BY <1>1, <1>8, SetLength
<1>12. IsText(w, u)
    BY <1>8, <1>10, <1>11 DEF IsText
<1>13. w = sdsupdatelen(h)
    BY <1>8, <1>9 DEF sdsupdatelen
<1> QED
    BY <1>7, <1>8, <1>12, <1>13

Mapped(t) == [i \in DOMAIN t |-> IF t[i] = "a" THEN NUL ELSE t[i]]

LEMMA MapText ==
    ASSUME NEW h, NEW t, IsText(h, t)
    PROVE  IsText(sdsmapchars(h, [c \in {"a"} |-> NUL]), Mapped(t)) /\ Len(Mapped(t)) = Len(t)
<1>1. /\ Memory(h) /\ h.len = Len(t) /\ t \in Seq(Char) /\ Len(t) \in Nat /\ h.buf \in Seq(Char)
      /\ Len(h.buf) \in Nat /\ Len(t) < Len(h.buf) /\ h.buf[Len(t) + 1] = NUL
      /\ \A i \in 1 .. Len(t) : h.buf[i] = t[i]
    BY TextFacts
<1> PICK buf \in Seq(Char) : buf = h.buf
    BY <1>1
<1> PICK k \in Nat : k = Len(t)
    BY <1>1
<1> PICK m : m = [c \in {"a"} |-> NUL]
    OBVIOUS
<1> PICK v : v = [i \in DOMAIN buf |-> IF i <= k /\ buf[i] \in DOMAIN m THEN m[buf[i]] ELSE buf[i]]
    OBVIOUS
<1>2. \A c : (c \in DOMAIN m <=> c = "a") /\ (c = "a" => m[c] = NUL)
    OBVIOUS
<1>3. v \in Seq(Char) /\ Len(v) = Len(buf)
      /\ \A i \in 1 .. Len(buf) : v[i] = IF i <= k /\ buf[i] = "a" THEN NUL ELSE buf[i]
    <2>1. v = [i \in 1 .. Len(buf) |-> IF i <= k /\ buf[i] = "a" THEN NUL ELSE buf[i]]
        BY <1>2
    <2> QED
        BY <2>1, CharFacts, SMTT(30)
<1> PICK u : u = Mapped(t)
    OBVIOUS
<1>4. u \in Seq(Char) /\ Len(u) = k /\ \A i \in 1 .. k : u[i] = IF t[i] = "a" THEN NUL ELSE t[i]
    <2>1. u = [i \in 1 .. k |-> IF t[i] = "a" THEN NUL ELSE t[i]]
        BY <1>1 DEF Mapped
    <2>2. \A i \in 1 .. k : t[i] \in Char
        BY <1>1
    <2> QED
        BY <2>1, <2>2, CharFacts
<1> PICK w : w = [h EXCEPT !.buf = v]
    OBVIOUS
<1>5. w = sdsmapchars(h, m)
    BY <1>1 DEF sdsmapchars
<1>6. h \in Header
    BY <1>1 DEF Memory
<1>7. w \in Header /\ w.buf = v /\ w.len = h.len /\ w.alloc = h.alloc /\ w.type = h.type
    BY <1>3, <1>6 DEF Header
<1>8. Memory(w)
    BY <1>1, <1>3, <1>7 DEF Memory, sdsalloc
<1>9. \A i \in 1 .. k : v[i] = u[i]
    <2> TAKE i \in 1 .. k
    <2>1. i \in 1 .. Len(buf) /\ i <= k /\ buf[i] = t[i]
        BY <1>1
    <2> QED
        BY <1>3, <1>4, <2>1
<1>10. v[k + 1] = NUL
    <2>1. k + 1 \in 1 .. Len(buf) /\ ~(k + 1 <= k)
        BY <1>1
    <2> QED
        BY <1>1, <1>3, <2>1
<1>11. IsText(w, u)
    BY <1>1, <1>3, <1>4, <1>7, <1>8, <1>9, <1>10 DEF IsText, Counted, Holds
<1> QED
    BY <1>4, <1>5, <1>11

LEMMA ClearText ==
    ASSUME NEW h, NEW t, IsText(h, t)
    PROVE  IsText(sdsclear(h), <<>>) /\ Len(<<>>) = 0
<1>1. t \in Seq(Char) /\ Len(t) \in Nat
    BY TextFacts
<1>2. SubSeq(t, 1, 0) = <<>>
    BY <1>1
<1>3. IsText(Terminated(h, 0), SubSeq(t, 1, 0))
    BY <1>1, CutText
<1> QED
    BY <1>2, <1>3 DEF sdsclear

Trimmed(t, cset) ==
    LET kept == {i \in DOMAIN t : t[i] \notin cset}
    IN  IF kept = {} THEN <<>> ELSE SubSeq(t, Min(kept), Max(kept))

LEMMA TrimText ==
    ASSUME NEW h, NEW t, IsText(h, t), NEW cset
    PROVE  IsText(sdstrim(h, cset), Trimmed(t, cset)) /\ Len(Trimmed(t, cset)) <= Len(t)
<1>1. h.len = Len(t) /\ t \in Seq(Char) /\ Len(t) \in Nat /\ \A i \in 1 .. Len(t) : h.buf[i] = t[i]
    BY TextFacts
<1> PICK k \in Nat : k = Len(t)
    BY <1>1
<1> DEFINE E == {i \in 1 .. h.len : h.buf[i] \notin cset}
           F == {i \in DOMAIN t : t[i] \notin cset}
<1>2. E = F /\ F \in SUBSET (0 .. k) /\ F \in SUBSET Nat /\ \A i \in F : i >= 1
    BY <1>1
<1>3. sdstrim(h, cset) = IF E = {} THEN Terminated(h, 0)
                         ELSE Terminated(Write(h, 0, SubSeq(h.buf, Min(E), Max(E))), Max(E) - Min(E) + 1)
    BY DEF sdstrim
<1>4. Trimmed(t, cset) = IF F = {} THEN <<>> ELSE SubSeq(t, Min(F), Max(F))
    BY DEF Trimmed
<1> HIDE DEF E, F
<1>5. CASE F = {}
    <2>1. IsText(Terminated(h, 0), <<>>) /\ Len(<<>>) = 0
        BY ClearText DEF sdsclear
    <2> QED
        BY <1>2, <1>3, <1>4, <1>5, <2>1
<1>6. CASE F # {}
    <2>1. Min(F) \in F /\ Max(F) \in F /\ \A y \in F : Min(F) <= y
        BY <1>2, <1>6, MinFacts, MaxFacts
    <2> PICK lo : lo = Min(F)
        OBVIOUS
    <2> PICK hi : hi = Max(F)
        OBVIOUS
    <2>2. lo \in Nat /\ hi \in Nat /\ lo >= 1 /\ lo <= hi /\ hi <= k
        <3>1. lo \in F /\ hi \in F /\ lo <= hi
            BY <2>1
        <3>2. \A i \in F : i \in Nat /\ i >= 1 /\ i <= k
            BY <1>2
        <3> QED
            BY <3>1, <3>2
    <2> PICK a \in Nat : a + 1 = lo
        <3>1. lo - 1 \in Nat /\ lo - 1 + 1 = lo
            BY <2>2
        <3> QED
            BY <3>1
    <2> PICK n \in Nat : n = hi - lo + 1 /\ a + n = hi
        <3>1. hi - lo + 1 \in Nat /\ a + (hi - lo + 1) = hi
            BY <2>2
        <3> QED
            BY <3>1
    <2>3. IsText(Terminated(Write(h, 0, SubSeq(h.buf, a + 1, a + n)), n), SubSeq(t, a + 1, a + n))
        BY <2>2, MoveText
    <2>4. sdstrim(h, cset) = Terminated(Write(h, 0, SubSeq(h.buf, a + 1, a + n)), n)
        BY <1>2, <1>3, <1>6
    <2>5. Trimmed(t, cset) = SubSeq(t, a + 1, a + n)
        BY <1>4, <1>6
    <2> PICK u : u = SubSeq(t, a + 1, a + n)
        OBVIOUS
    <2>6. Len(u) = n
        BY <1>1, <2>2
    <2>7. n <= k
        BY <2>2
    <2> QED
        BY <2>3, <2>4, <2>5, <2>6, <2>7
<1> QED
    BY <1>5, <1>6

LEMMA MaxOf == ASSUME NEW x \in Int, NEW y \in Int PROVE Max({x, y}) = IF x >= y THEN x ELSE y
<1> DEFINE m == IF x >= y THEN x ELSE y
<1>1. m \in {x, y} /\ \A z \in {x, y} : m >= z
    OBVIOUS
<1>2. \A u \in {x, y} : (\A z \in {x, y} : u >= z) => u = m
    OBVIOUS
<1> QED
    BY <1>1, <1>2 DEF Max

LEMMA MinOf == ASSUME NEW x \in Int, NEW y \in Int PROVE Min({x, y}) = IF x <= y THEN x ELSE y
<1> DEFINE m == IF x <= y THEN x ELSE y
<1>1. m \in {x, y} /\ \A z \in {x, y} : m =< z
    OBVIOUS
<1>2. \A u \in {x, y} : (\A z \in {x, y} : u =< z) => u = m
    OBVIOUS
<1> QED
    BY <1>1, <1>2 DEF Min

LEMMA NoText == ASSUME NEW q \in Seq(Char), Len(q) = 0 PROVE q = <<>>
OBVIOUS

LEMMA EmptyPart ==
    ASSUME NEW q \in Seq(Char), NEW i \in Int, NEW j \in Int, i > j
    PROVE  SubSeq(q, i, j) = <<>>
OBVIOUS

Ranged(t, a, b) ==
    LET Place(i) == IF i < 0 THEN Len(t) + i ELSE i
    IN  SubSeq(t, Max({Place(a), 0}) + 1, Min({Place(b) + 1, Len(t)}))

LEMMA RangeText ==
    ASSUME NEW h, NEW t, IsText(h, t), NEW a \in Int, NEW b \in Int, -b <= Len(t)
    PROVE  IsText(sdsrange(h, a, b), Ranged(t, a, b)) /\ Len(Ranged(t, a, b)) <= Len(t)
<1>1. h.len = Len(t) /\ t \in Seq(Char) /\ Len(t) \in Nat /\ h.buf \in Seq(Char)
    BY TextFacts
<1> PICK k \in Nat : k = Len(t)
    BY <1>1
<1> DEFINE pa == IF a < 0 THEN k + a ELSE a
           pb == IF b < 0 THEN k + b ELSE b
<1>2. pa \in Int /\ pb \in Int /\ pb >= 0
    BY <1>1
<1> PICK x \in Nat : x = IF pa >= 0 THEN pa ELSE 0
    BY <1>2
<1> PICK y \in Nat : y = IF pb + 1 <= k THEN pb + 1 ELSE k
    BY <1>2
<1>3. Ranged(t, a, b) = SubSeq(t, x + 1, y) /\ y <= k
    <2>1. Max({pa, 0}) = x
        BY <1>2, MaxOf
    <2>2. Min({pb + 1, k}) = y
        BY <1>2, MinOf
    <2>3. Ranged(t, a, b) = SubSeq(t, Max({pa, 0}) + 1, Min({pb + 1, k}))
        BY DEF Ranged
    <2>4. y <= k
        BY <1>2
    <2> QED
        BY <2>1, <2>2, <2>3, <2>4
<1> HIDE DEF pa, pb
<1>4. ASSUME x + 1 > y
      PROVE  Ranged(t, a, b) = <<>>
    <2>1. x + 1 \in Int /\ y \in Int
        OBVIOUS
    <2> QED
        BY <1>1, <1>3, <1>4, <2>1, EmptyPart
<1>5. CASE k = 0
    <2>1. sdsrange(h, a, b) = h
        BY <1>1, <1>5 DEF sdsrange
    <2>2. t = <<>>
        BY <1>1, <1>5, NoText
    <2>3. x + 1 > y
        BY <1>3, <1>5
    <2> QED
        BY <1>1, <1>4, <2>1, <2>2, <2>3
<1>6. CASE k # 0
    <2> DEFINE First(i) == IF i >= 0 THEN i ELSE Max({0, h.len + i})
               fb == IF First(b) >= h.len THEN h.len - 1 ELSE First(b)
               len == IF First(a) >= h.len THEN 0 ELSE RangeLen(First(a), fb)
    <2>1. First(a) = x
        <3>1. CASE a >= 0
            <4>1. First(a) = a
                BY <3>1
            <4> QED
                BY <3>1, <4>1 DEF pa, pb
        <3>2. CASE ~(a >= 0)
            <4>1. First(a) = Max({0, k + a})
                BY <1>1, <3>2
            <4>2. Max({0, k + a}) = IF 0 >= k + a THEN 0 ELSE k + a
                BY MaxOf
            <4> QED
                BY <3>2, <4>1, <4>2 DEF pa
        <3> QED
            BY <3>1, <3>2
    <2>2. First(b) = pb
        <3>1. CASE b >= 0
            <4>1. First(b) = b
                BY <3>1
            <4> QED
                BY <3>1, <4>1 DEF pa, pb
        <3>2. CASE ~(b >= 0)
            <4>1. First(b) = Max({0, k + b})
                BY <1>1, <3>2
            <4>2. Max({0, k + b}) = IF 0 >= k + b THEN 0 ELSE k + b
                BY MaxOf
            <4> QED
                BY <1>2, <3>2, <4>1, <4>2 DEF pb
        <3> QED
            BY <3>1, <3>2
    <2>3. sdsrange(h, a, b) = Terminated(Write(h, 0, SubSeq(h.buf, First(a) + 1, First(a) + len)), len)
        BY <1>1, <1>6 DEF sdsrange
    <2>4. len = IF x + 1 > y THEN 0 ELSE y - x
        <3>1. fb = y - 1
            <4>1. fb = IF pb >= k THEN k - 1 ELSE pb
                BY <1>1, <2>2
            <4> HIDE DEF fb
            <4> QED
                BY <1>2, <4>1
        <3>2. len = IF x >= k THEN 0 ELSE RangeLen(x, y - 1)
            BY <1>1, <2>1, <3>1
        <3>3. RangeLen(x, y - 1) = IF x > y - 1 THEN 0 ELSE (y - 1) - x + 1
            BY DEF RangeLen
        <3> PICK z : z = RangeLen(x, y - 1)
            OBVIOUS
        <3>4. z = IF x + 1 > y THEN 0 ELSE y - x
            <4> HIDE DEF len
            <4> QED
                BY <3>3
        <3>5. x >= k => x + 1 > y
            BY <1>3
        <3> HIDE DEF len
        <3> QED
            BY <3>2, <3>4, <3>5
    <2> HIDE DEF len, First, fb
    <2>5. CASE x + 1 > y
        <3>1. len = 0
            BY <2>4, <2>5
        <3>2. SubSeq(h.buf, x + 1, x + 0) = <<>>
            <4>1. x + 1 \in Int /\ x + 0 \in Int /\ x + 1 > x + 0
                OBVIOUS
            <4> QED
                BY <1>1, <4>1, EmptyPart
        <3>3. SubSeq(h.buf, 0 + 1, 0 + 0) = <<>> /\ SubSeq(t, 0 + 1, 0 + 0) = <<>>
            BY <1>1, EmptyPart
        <3>4. IsText(Terminated(Write(h, 0, SubSeq(h.buf, 0 + 1, 0 + 0)), 0), SubSeq(t, 0 + 1, 0 + 0))
            <4>1. 0 + 0 <= Len(t) /\ 0 \in Nat
                BY <1>1
            <4> QED
                BY <4>1, MoveText
        <3>5. IsText(Terminated(Write(h, 0, <<>>), 0), <<>>)
            BY <3>3, <3>4
        <3>6. sdsrange(h, a, b) = Terminated(Write(h, 0, <<>>), 0)
            BY <2>1, <2>3, <3>1, <3>2
        <3> QED
            BY <1>1, <1>4, <2>5, <3>5, <3>6
    <2>6. CASE ~(x + 1 > y)
        <3> PICK n \in Nat : n = y - x /\ x + n = y
            <4>1. y - x \in Nat /\ x + (y - x) = y
                BY <2>6
            <4> QED
                BY <4>1
        <3>1. len = n
            BY <2>4, <2>6
        <3>2. IsText(Terminated(Write(h, 0, SubSeq(h.buf, x + 1, x + n)), n), SubSeq(t, x + 1, x + n))
            <4>1. x + n <= Len(t)
                BY <1>3
            <4> QED
                BY <4>1, MoveText
        <3>3. sdsrange(h, a, b) = Terminated(Write(h, 0, SubSeq(h.buf, x + 1, x + n)), n)
            BY <2>1, <2>3, <3>1
        <3> PICK u : u = SubSeq(t, x + 1, y)
            OBVIOUS
        <3>4. Len(u) = n
            BY <1>1, <1>3, <2>6, SMTT(30)
        <3>5. n <= k
            BY <1>3
        <3> QED
            BY <1>3, <3>2, <3>3, <3>4, <3>5
    <2> QED
        BY <2>5, <2>6
<1> QED
    BY <1>5, <1>6

-----------------------------------------------------------------------------
(* Every operation keeps the invariant *)

LEMMA PieceFacts == ASSUME NEW t \in Piece PROVE t \in Seq(Char)
<1>1. t \in Seq(STRING)
    BY SdsAssumption
<1> PICK n \in Nat : n = Len(t)
    BY <1>1
<1>2. t \in [1 .. n -> STRING]
    BY <1>1
<1>3. t \in [1 .. n -> Char]
    BY <1>2 DEF Char
<1> QED
    BY <1>3

LEMMA Outcome ==
    ASSUME NEW sds, NEW t, Becomes(sds, t), IsText(sds, t)
    PROVE  SdsInv'
BY DEF Becomes, SdsInv, IsText, Counted, Memory, Holds, Header, sdsalloc, Char

LEMMA SdsStart == SdsInit => SdsInv
<1> SUFFICES ASSUME SdsInit
             PROVE  SdsInv
    OBVIOUS
<1>1. <<>> \in Seq(Char) /\ Len(<<>>) = 0 /\ MaxText \in Nat
    BY SdsAssumption
<1>2. 0 <= MaxText
    BY <1>1
<1>3. IsText(sdsnewlen(<<>>), <<>>)
    BY <1>1, <1>2, NewText
<1> QED
    BY <1>1, <1>2, <1>3 DEF SdsInit, SdsInv

LEMMA TextStep ==
    ASSUME SdsInv, NEW t \in Piece, New(t) \/ Cat(t) \/ CatFmt(t) \/ Cpy(t) \/ ReadInto(t)
    PROVE  SdsInv'
<1>1. t \in Seq(Char) /\ Len(t) \in Nat /\ IsText(s, text) /\ text \in Seq(Char) /\ Len(text) \in Nat
    BY PieceFacts, TextFacts DEF SdsInv
<1>2. Len(text \o t) = Len(text) + Len(t)
    BY <1>1, JoinFacts
<1>3. CASE New(t)
    <2>1. Becomes(sdsnewlen(t), t) /\ Len(t) <= MaxText
        BY <1>3 DEF New, Becomes
    <2>2. IsText(sdsnewlen(t), t)
        BY <1>1, <2>1, NewText
    <2> QED
        BY <2>1, <2>2, Outcome
<1>4. CASE Cat(t)
    <2>1. Becomes(sdscatlen(s, t), text \o t) /\ Len(text \o t) <= MaxText
        BY <1>4 DEF Cat, Becomes
    <2>2. IsText(sdscatlen(s, t), text \o t)
        BY <1>1, <1>2, <2>1, CatText
    <2> QED
        BY <2>1, <2>2, Outcome
<1>5. CASE CatFmt(t)
    <2> PICK c : c = <<"a">>
        OBVIOUS
    <2>0. c \in Seq(Char)
        BY CharFacts
    <2>1. Becomes(sdscatfmt(s, <<t, c, t>>), text \o t \o c \o t) /\ Len(text \o t \o c \o t) <= MaxText
        BY <1>5 DEF CatFmt, Becomes
    <2>2. IsText(sdscatfmt(s, <<t, c, t>>), text \o t \o c \o t)
        BY <1>1, <2>0, <2>1, FmtText
    <2> QED
        BY <2>1, <2>2, Outcome
<1>6. CASE Cpy(t)
    <2>1. Becomes(sdscpylen(s, t), t) /\ Len(t) <= MaxText
        BY <1>6 DEF Cpy, Becomes
    <2>2. IsText(sdscpylen(s, t), t)
        BY <1>1, <2>1, CpyText
    <2> QED
        BY <2>1, <2>2, Outcome
<1>7. CASE ReadInto(t)
    <2> PICK r : r = sdsIncrLen(Write(sdsMakeRoomFor(s, Len(t)), s.len, t), Len(t))
        OBVIOUS
    <2>1. Becomes(r, text \o t) /\ Len(text \o t) <= MaxText
        BY <1>7 DEF ReadInto, Becomes
    <2>2. IsText(r, text \o t)
        BY <1>1, <1>2, <2>1, ReadText
    <2> QED
        BY <2>1, <2>2, Outcome
<1> QED
    BY <1>3, <1>4, <1>5, <1>6, <1>7

LEMMA NumberStep ==
    ASSUME SdsInv, NEW n \in Passed, Grow(n) \/ Drop(n)
    PROVE  SdsInv'
<1>1. n \in Int /\ IsText(s, text)
    BY SdsAssumption DEF SdsInv
<1>2. CASE Grow(n)
    <2> PICK u : u = text \o Fill(n - Len(text), NUL)
        OBVIOUS
    <2>1. Becomes(sdsgrowzero(s, n), u) /\ Len(u) <= MaxText
        BY <1>2 DEF Grow, Becomes
    <2>2. IsText(sdsgrowzero(s, n), u)
        BY <1>1, <2>1, GrowText
    <2> QED
        BY <2>1, <2>2, Outcome
<1>3. CASE Drop(n)
    <2>1. n \in Nat /\ n > 0 /\ IncrLenAsserts(s, -n) /\ Becomes(sdsIncrLen(s, -n), Cut(text, Len(text) - n))
        BY <1>1, <1>3 DEF Drop
    <2>2. IsText(sdsIncrLen(s, -n), Cut(text, Len(text) - n))
        BY <1>1, <2>1, DropText
    <2> QED
        BY <2>1, <2>2, Outcome
<1> QED
    BY <1>2, <1>3

LEMMA RangeStep ==
    ASSUME SdsInv, NEW a \in Passed, NEW b \in Passed, Range_(a, b)
    PROVE  SdsInv'
<1>1. a \in Int /\ b \in Int /\ IsText(s, text)
    BY SdsAssumption DEF SdsInv
<1>2. -b <= Len(text) /\ Becomes(sdsrange(s, a, b), Ranged(text, a, b))
    BY DEF Range_, Ranged
<1>3. IsText(sdsrange(s, a, b), Ranged(text, a, b))
    BY <1>1, <1>2, RangeText
<1> QED
    BY <1>2, <1>3, Outcome

LEMMA OtherStep ==
    ASSUME SdsInv, NEW cset, Shrink \/ Clear \/ Update \/ Map \/ Trim(cset)
    PROVE  SdsInv'
<1>1. IsText(s, text) /\ Len(text) <= MaxText
    BY DEF SdsInv
<1>2. CASE Shrink
    <2>1. Becomes(sdsRemoveFreeSpace(s), text)
        BY <1>2 DEF Shrink
    <2> QED
        BY <1>1, <2>1, ShrinkText, Outcome
<1>3. CASE Clear
    <2>1. Becomes(sdsclear(s), <<>>)
        BY <1>3 DEF Clear
    <2>2. IsText(sdsclear(s), <<>>)
        BY <1>1, ClearText
    <2> QED
        BY <2>1, <2>2, Outcome
<1>4. CASE Update
    <2>1. Becomes(sdsupdatelen(s), CString(text))
        BY <1>4 DEF Update
    <2>2. IsText(sdsupdatelen(s), CString(text))
        BY <1>1, UpdateText
    <2> QED
        BY <2>1, <2>2, Outcome
<1>5. CASE Map
    <2> PICK m : m = sdsmapchars(s, [c \in {"a"} |-> NUL])
        OBVIOUS
    <2>1. Becomes(m, Mapped(text))
        BY <1>5 DEF Map, Mapped
    <2>2. IsText(m, Mapped(text))
        BY <1>1, MapText
    <2> QED
        BY <2>1, <2>2, Outcome
<1>6. CASE Trim(cset)
    <2>1. Becomes(sdstrim(s, cset), Trimmed(text, cset))
        BY <1>6 DEF Trim, Trimmed
    <2>2. IsText(sdstrim(s, cset), Trimmed(text, cset))
        BY <1>1, TrimText
    <2> QED
        BY <2>1, <2>2, Outcome
<1> QED
    BY <1>2, <1>3, <1>4, <1>5, <1>6

LEMMA SdsStep == SdsInv /\ [SdsNext]_sdsVars => SdsInv'
<1> SUFFICES ASSUME SdsInv, [SdsNext]_sdsVars
             PROVE  SdsInv'
    OBVIOUS
<1>1. CASE SdsNext
    BY <1>1, TextStep, NumberStep, RangeStep, OtherStep DEF SdsNext
<1>2. CASE UNCHANGED sdsVars
    <2>1. s' = s /\ text' = text
        BY <1>2 DEF sdsVars
    <2>2. Becomes(s, text)
        BY <2>1 DEF Becomes, SdsInv
    <2> QED
        BY <2>2, Outcome DEF SdsInv
<1> QED
    BY <1>1, <1>2

(* Whatever operations a string goes through, and whatever types of header *)
(* sdsMakeRoomFor and sdsRemoveFreeSpace give it on the way, sds.c keeps   *)
(* the length that the header counts that of the text, the text in front   *)
(* of a terminator, and the memory as large as the header says: of any     *)
(* widths of the five headers and any size of SDS_MAX_PREALLOC.            *)
THEOREM StringsSound == SdsSpec => []SdsSound
<1>1. SdsInv => SdsSound
    BY TextSound DEF SdsInv, SdsSound
<1> QED
    BY <1>1, SdsStart, SdsStep, PTL DEF SdsSpec

-----------------------------------------------------------------------------
(* Numerals *)

LEMMA TenFacts ==
    ASSUME NEW n \in Nat
    PROVE  /\ n \div 10 \in Nat /\ n % 10 \in 0 .. 9 /\ n = (n \div 10) * 10 + (n % 10)
           /\ n >= 10 => n \div 10 > 0 /\ n \div 10 < n
           /\ n < 10 => n % 10 = n
OBVIOUS

LEMMA TenTimes == \A v \in Nat, d \in 0 .. 9 : v * 10 + d \in Nat
OBVIOUS

LEMMA TenUnique ==
    ASSUME NEW m \in Nat, NEW d \in 0 .. 9
    PROVE  /\ (m * 10 + d) \div 10 = m /\ (m * 10 + d) % 10 = d
           /\ m > 0 => m * 10 + d >= 10
<1> PICK k \in Nat : k = m * 10 + d
    OBVIOUS
<1> PICK q \in Nat : q = k \div 10
    BY TenFacts
<1> PICK r \in 0 .. 9 : r = k % 10
    BY TenFacts
<1>1. q * 10 + r = m * 10 + d
    BY TenFacts
<1>2. q = m /\ r = d
    BY <1>1
<1>3. m > 0 => m * 10 + d >= 10
    OBVIOUS
<1> QED
    BY <1>2, <1>3

(* The last digit of n, and the digits before it. *)
LastDigit(n) == Digits[(n % 10) + 1]
Before(n, h) == IF n < 10 THEN <<>> ELSE h[n \div 10]
DigitsUpTo(m, h) ==
    h \in [0 .. m -> Seq(DigitSet)] /\ \A n \in 0 .. m : h[n] = <<LastDigit(n)>> \o Before(n, h)

LEMMA LastFacts == \A n \in Nat : LastDigit(n) \in DigitSet /\ Value[LastDigit(n)] = n % 10
BY TenFacts, DigitFacts DEF LastDigit

LEMMA OneFirst ==
    ASSUME NEW S, NEW c \in S, NEW q \in Seq(S)
    PROVE  <<c>> \o q \in Seq(S)
OBVIOUS

LEMMA UpToExists == \A m \in Nat : \E h : DigitsUpTo(m, h)
<1> DEFINE T == {m \in Nat : \E h : DigitsUpTo(m, h)}
<1>1. 0 \in T
    <2> PICK h : h = [n \in 0 .. 0 |-> <<LastDigit(0)>>]
        OBVIOUS
    <2>1. h[0] = <<LastDigit(0)>> \o Before(0, h) /\ <<LastDigit(0)>> \in Seq(DigitSet)
        <3>1. <<LastDigit(0)>> \in Seq(DigitSet)
            BY LastFacts
        <3>2. Before(0, h) = <<>>
            BY DEF Before
        <3> QED
            BY <3>1, <3>2, ConcatEmptySeq
    <2>2. DigitsUpTo(0, h)
        BY <2>1 DEF DigitsUpTo
    <2> QED
        BY <2>2
<1>2. ASSUME NEW m \in T
      PROVE  m + 1 \in T
    <2>0. m \in Nat
        BY <1>2
    <2> PICK h : DigitsUpTo(m, h)
        BY <1>2
    <2> PICK new : new = <<LastDigit(m + 1)>> \o Before(m + 1, h)
        OBVIOUS
    <2>1. new \in Seq(DigitSet)
        <3>1. Before(m + 1, h) \in Seq(DigitSet)
            <4>1. CASE m + 1 < 10
                BY <4>1 DEF Before
            <4>2. CASE ~(m + 1 < 10)
                <5>1. (m + 1) \div 10 \in 0 .. m
                    BY <2>0, <4>2, TenFacts
                <5> QED
                    BY <4>2, <5>1 DEF Before, DigitsUpTo
            <4> QED
                BY <4>1, <4>2
        <3>2. LastDigit(m + 1) \in DigitSet
            BY <2>0, LastFacts
        <3> QED
            BY <3>1, <3>2, OneFirst
    <2> PICK g : g = [n \in 0 .. m + 1 |-> IF n <= m THEN h[n] ELSE new]
        OBVIOUS
    <2>2. g \in [0 .. m + 1 -> Seq(DigitSet)] /\ (\A n \in 0 .. m : g[n] = h[n]) /\ g[m + 1] = new
        BY <2>0, <2>1 DEF DigitsUpTo
    <2>3. \A n \in 0 .. m + 1 : Before(n, g) = Before(n, h)
        <3> TAKE n \in 0 .. m + 1
        <3>1. CASE n < 10
            BY <3>1 DEF Before
        <3>2. CASE ~(n < 10)
            <4>1. n \div 10 \in 0 .. m
                BY <2>0, <3>2, TenFacts
            <4> QED
                BY <2>2, <3>2, <4>1 DEF Before
        <3> QED
            BY <3>1, <3>2
    <2>4. \A n \in 0 .. m + 1 : g[n] = <<LastDigit(n)>> \o Before(n, g)
        <3> TAKE n \in 0 .. m + 1
        <3>1. CASE n <= m
            <4>1. n \in 0 .. m
                BY <2>0, <3>1
            <4>2. g[n] = <<LastDigit(n)>> \o Before(n, h)
                BY <2>2, <4>1 DEF DigitsUpTo
            <4> QED
                BY <2>3, <4>2
        <3>2. CASE ~(n <= m)
            <4>1. n = m + 1
                BY <2>0, <3>2
            <4> QED
                BY <2>2, <2>3, <4>1
        <3> QED
            BY <3>1, <3>2
    <2>5. DigitsUpTo(m + 1, g)
        BY <2>2, <2>4 DEF DigitsUpTo
    <2> QED
        BY <2>0, <2>5
<1> HIDE DEF T
<1>3. \A m \in Nat : m \in T
    BY <1>1, <1>2, Induction DEF T
<1> QED
    BY <1>3 DEF T

LEMMA UpToAgree ==
    ASSUME NEW m \in Nat, NEW h, DigitsUpTo(m, h), NEW k \in Nat, NEW g, DigitsUpTo(k, g)
    PROVE  \A n \in Nat : n <= m /\ n <= k => h[n] = g[n]
<1> DEFINE T == {n \in Nat : n <= m /\ n <= k => h[n] = g[n]}
<1>1. ASSUME NEW n \in Nat, \A i \in Nat : i < n => i \in T
      PROVE  n \in T
    <2> SUFFICES ASSUME n <= m, n <= k
                 PROVE  h[n] = g[n]
        OBVIOUS
    <2>1. Before(n, h) = Before(n, g)
        <3>1. CASE n < 10
            BY <3>1 DEF Before
        <3>2. CASE ~(n < 10)
            <4>1. n \div 10 \in Nat /\ n \div 10 < n /\ n \div 10 <= m /\ n \div 10 <= k
                BY <3>2, TenFacts
            <4>2. h[n \div 10] = g[n \div 10]
                BY <1>1, <4>1
            <4> QED
                BY <3>2, <4>2 DEF Before
        <3> QED
            BY <3>1, <3>2
    <2>2. n \in 0 .. m /\ n \in 0 .. k
        OBVIOUS
    <2> QED
        BY <2>1, <2>2 DEF DigitsUpTo
<1> HIDE DEF T
<1>2. \A n \in Nat : n \in T
    BY <1>1, StrongInduction DEF T
<1> QED
    BY <1>2 DEF T

(* The recursive definition of the digits holds. *)
LEMMA ReversedFacts ==
    ASSUME NEW n \in Nat
    PROVE  Reversed[n] \in Seq(DigitSet) /\ Reversed[n] = <<LastDigit(n)>> \o Before(n, Reversed)
<1> DEFINE Def(f) == [i \in Nat |-> <<Digits[(i % 10) + 1]>> \o (IF i < 10 THEN <<>> ELSE f[i \div 10])]
           H(m) == CHOOSE h : DigitsUpTo(m, h)
           g == [i \in Nat |-> H(i)[i]]
<1>1. \A m \in Nat : DigitsUpTo(m, H(m))
    BY UpToExists
<1> HIDE DEF H
<1>2. \A i \in Nat : g[i] = <<LastDigit(i)>> \o Before(i, g)
    <2> TAKE i \in Nat
    <2>1. i \in 0 .. i
        OBVIOUS
    <2>2. H(i)[i] = <<LastDigit(i)>> \o Before(i, H(i))
        BY <1>1, <2>1 DEF DigitsUpTo
    <2>3. Before(i, g) = Before(i, H(i))
        <3>1. CASE i < 10
            BY <3>1 DEF Before
        <3>2. CASE ~(i < 10)
            <4> PICK j \in Nat : j = i \div 10 /\ j <= i
                BY <3>2, TenFacts
            <4>1. j <= j
                OBVIOUS
            <4>2. H(i)[j] = H(j)[j]
                BY <1>1, <4>1, UpToAgree
            <4> QED
                BY <3>2, <4>2 DEF Before
        <3> QED
            BY <3>1, <3>2
    <2> QED
        BY <2>2, <2>3
<1>3. g = Def(g)
    <2> PICK f : f = g
        OBVIOUS
    <2>1. f = [i \in Nat |-> f[i]]
        OBVIOUS
    <2>2. \A i \in Nat : f[i] = <<Digits[(i % 10) + 1]>> \o (IF i < 10 THEN <<>> ELSE f[i \div 10])
        <3> HIDE DEF g
        <3> QED
            BY <1>2 DEF LastDigit, Before
    <2>3. f = Def(f)
        BY <2>1, <2>2
    <2> QED
        BY <2>3
<1>4. Reversed = CHOOSE f : f = Def(f)
    BY DEF Reversed
<1>5. Reversed = Def(Reversed)
    <2> HIDE DEF Def, g
    <2> QED
        BY <1>3, <1>4
<1>6. \A i \in Nat : Reversed[i] = <<LastDigit(i)>> \o Before(i, Reversed)
    <2> PICK r : r = Reversed
        OBVIOUS
    <2>1. r = Def(r)
        BY <1>5
    <2>2. \A i \in Nat : r[i] = <<Digits[(i % 10) + 1]>> \o (IF i < 10 THEN <<>> ELSE r[i \div 10])
        BY <2>1
    <2>3. \A i \in Nat : r[i] = <<LastDigit(i)>> \o Before(i, r)
        BY <2>2 DEF LastDigit, Before
    <2> QED
        BY <2>3
<1> HIDE DEF Def, g
<1> DEFINE T == {i \in Nat : Reversed[i] \in Seq(DigitSet)}
<1>7. ASSUME NEW i \in Nat, \A j \in Nat : j < i => j \in T
      PROVE  i \in T
    <2>1. Before(i, Reversed) \in Seq(DigitSet)
        <3>1. CASE i < 10
            BY <3>1 DEF Before
        <3>2. CASE ~(i < 10)
            <4>1. i \div 10 \in Nat /\ i \div 10 < i
                BY <3>2, TenFacts
            <4> QED
                BY <1>7, <3>2, <4>1 DEF Before
        <3> QED
            BY <3>1, <3>2
    <2>2. <<LastDigit(i)>> \o Before(i, Reversed) \in Seq(DigitSet)
        BY <2>1, LastFacts, OneFirst
    <2> QED
        BY <1>6, <2>2
<1> HIDE DEF T
<1>8. \A i \in Nat : i \in T
    BY <1>7, StrongInduction DEF T
<1> QED
    BY <1>6, <1>8 DEF T

(* The digits of n, the most significant first. *)
Numeral(n) == Reverse(Reversed[n])

LEMMA OneLast ==
    ASSUME NEW S, NEW c \in S, NEW q \in Seq(S), NEW y, y = q \o <<c>>
    PROVE  /\ y \in Seq(S) /\ Len(y) = Len(q) + 1 /\ y[Len(q) + 1] = c
           /\ \A i \in 1 .. Len(q) : y[i] = q[i]
OBVIOUS

LEMMA AsText ==
    ASSUME NEW S, NEW n \in Nat, NEW f \in [1 .. n -> S]
    PROVE  f \in Seq(S) /\ Len(f) = n
OBVIOUS

LEMMA ReverseOne ==
    ASSUME NEW S, NEW c \in S, NEW q \in Seq(S)
    PROVE  Reverse(<<c>> \o q) = Reverse(q) \o <<c>> /\ Reverse(q) \in Seq(S)
<1> PICK k \in Nat : k = Len(q)
    OBVIOUS
<1>x. PICK x : x = <<c>> \o q
    OBVIOUS
<1>1. x \in Seq(S) /\ Len(x) = k + 1 /\ x[1] = c /\ \A i \in 1 .. k : x[i + 1] = q[i]
    BY <1>x
<1>r. PICK r : r = Reverse(q)
    OBVIOUS
<1>2. r = [i \in 1 .. k |-> q[(k - i) + 1]]
    BY <1>r DEF Reverse
<1>3. \A i \in 1 .. k : (k - i) + 1 \in 1 .. k
    OBVIOUS
<1>4. r \in Seq(S) /\ Len(r) = k /\ \A i \in 1 .. k : r[i] = q[(k - i) + 1]
    BY <1>2, <1>3
<1>y. PICK y : y = r \o <<c>>
    OBVIOUS
<1>5. y \in Seq(S) /\ Len(y) = k + 1 /\ y[k + 1] = c /\ \A i \in 1 .. k : y[i] = r[i]
    <2>1. r \in Seq(S) /\ Len(r) = k
        BY <1>4
    <2>2. y \in Seq(S) /\ Len(y) = Len(r) + 1 /\ y[Len(r) + 1] = c /\ \A i \in 1 .. Len(r) : y[i] = r[i]
        <3>1. y = r \o <<c>> /\ c \in S
            BY <1>y
        <3>2. ASSUME NEW u \in Seq(S), NEW w, w = u \o <<c>>
              PROVE  /\ w \in Seq(S) /\ Len(w) = Len(u) + 1 /\ w[Len(u) + 1] = c
                     /\ \A i \in 1 .. Len(u) : w[i] = u[i]
            BY <3>2, OneLast
        <3> QED
            BY <2>1, <3>1, <3>2
    <2> QED
        BY <2>1, <2>2
<1> PICK z : z = Reverse(x)
    OBVIOUS
<1>6. z = [i \in 1 .. k + 1 |-> x[((k + 1) - i) + 1]]
    BY <1>1 DEF Reverse
<1>7. \A i \in 1 .. k + 1 : ((k + 1) - i) + 1 \in 1 .. k + 1
    OBVIOUS
<1>8. z \in Seq(S) /\ Len(z) = k + 1 /\ \A i \in 1 .. k + 1 : z[i] = x[((k + 1) - i) + 1]
    <2>1. \A i \in 1 .. k + 1 : x[((k + 1) - i) + 1] \in S
        BY <1>1, <1>7
    <2> PICK m \in Nat : m = k + 1
        OBVIOUS
    <2>2. z = [i \in 1 .. m |-> x[((k + 1) - i) + 1]]
        BY <1>6
    <2>3. z \in Seq(S) /\ Len(z) = m
        <3>1. \A i \in 1 .. m : x[((k + 1) - i) + 1] \in S
            BY <2>1
        <3>2. z \in [1 .. m -> S]
            BY <2>2, <3>1
        <3> QED
            BY <3>2, AsText
    <2> QED
        BY <1>6, <2>3
<1>9. \A i \in 1 .. k + 1 : z[i] = y[i]
    <2> TAKE i \in 1 .. k + 1
    <2>1. CASE i = k + 1
        <3>1. ((k + 1) - (k + 1)) + 1 = 1 /\ k + 1 \in 1 .. k + 1
            OBVIOUS
        <3>2. z[k + 1] = x[1]
            BY <1>8, <3>1
        <3> QED
            BY <1>1, <1>5, <2>1, <3>2
    <2>2. CASE i # k + 1
        <3>1. i \in 1 .. k /\ (k - i) + 1 \in 1 .. k /\ ((k + 1) - i) + 1 = ((k - i) + 1) + 1
            BY <2>2
        <3>2. y[i] = q[(k - i) + 1]
            BY <1>4, <1>5, <3>1
        <3>3. x[((k - i) + 1) + 1] = q[(k - i) + 1]
            BY <1>1, <3>1
        <3> QED
            BY <1>8, <3>1, <3>2, <3>3
    <2> QED
        BY <2>1, <2>2
<1>10. z = y
    BY <1>5, <1>8, <1>9, SeqEqual
<1> QED
    BY <1>4, <1>10, <1>x, <1>y, <1>r

LEMMA NumeralFacts ==
    ASSUME NEW n \in Nat
    PROVE  /\ Numeral(n) \in Seq(DigitSet)
           /\ n < 10 => Numeral(n) = <<LastDigit(n)>>
           /\ n >= 10 => Numeral(n) = Numeral(n \div 10) \o <<LastDigit(n)>>
<1> PICK c : c = LastDigit(n)
    OBVIOUS
<1>1. c \in DigitSet
    BY LastFacts
<1> PICK q : q = Before(n, Reversed)
    OBVIOUS
<1>2. q \in Seq(DigitSet) /\ Reversed[n] = <<c>> \o q
    <2>1. Reversed[n] = <<c>> \o q
        BY ReversedFacts
    <2>2. q \in Seq(DigitSet)
        <3>1. CASE n < 10
            BY <3>1 DEF Before
        <3>2. CASE ~(n < 10)
            BY <3>2, TenFacts, ReversedFacts DEF Before
        <3> QED
            BY <3>1, <3>2
    <2> QED
        BY <2>1, <2>2
<1>3. Numeral(n) = Reverse(q) \o <<c>> /\ Reverse(q) \in Seq(DigitSet)
    BY <1>1, <1>2, ReverseOne DEF Numeral
<1>4. Numeral(n) \in Seq(DigitSet)
    <2> PICK r \in Seq(DigitSet) : r = Reverse(q)
        BY <1>3
    <2>1. r \o <<c>> \in Seq(DigitSet)
        BY <1>1
    <2> QED
        BY <1>3, <2>1
<1>5. n < 10 => Numeral(n) = <<c>>
    <2> SUFFICES ASSUME n < 10
                 PROVE  Numeral(n) = <<c>>
        OBVIOUS
    <2>1. q = <<>>
        BY DEF Before
    <2>2. Reverse(q) = <<>>
        BY <2>1 DEF Reverse
    <2>3. <<c>> \in Seq(DigitSet)
        BY <1>1
    <2> QED
        BY <1>3, <2>2, <2>3, ConcatEmptySeq
<1>6. n >= 10 => Numeral(n) = Numeral(n \div 10) \o <<c>>
    BY <1>3 DEF Before, Numeral
<1> QED
    BY <1>4, <1>5, <1>6

(* Values is a function of the text. *)
LEMMA ValuesUnique ==
    ASSUME NEW x \in Seq(DigitSet), NEW y \in Seq(DigitSet), NEW h, Values(x, h), NEW g, Values(y, g),
           Len(x) <= Len(y), \A i \in 1 .. Len(x) : x[i] = y[i]
    PROVE  \A i \in 0 .. Len(x) : h[i] = g[i]
<1> DEFINE T == {i \in Nat : i <= Len(x) => h[i] = g[i]}
<1>0. Len(x) \in Nat /\ Len(y) \in Nat
    OBVIOUS
<1>1. 0 \in T
    BY DEF Values
<1>2. ASSUME NEW i \in T
      PROVE  i + 1 \in T
    <2> SUFFICES ASSUME i + 1 <= Len(x)
                 PROVE  h[i + 1] = g[i + 1]
        BY <1>2
    <2>1. i \in Nat /\ h[i] = g[i] /\ i + 1 \in 1 .. Len(x) /\ i + 1 \in 1 .. Len(y) /\ i + 1 - 1 = i
        BY <1>0, <1>2
    <2>2. h[i + 1] = Digit(h[i], Value[x[i + 1]]) /\ g[i + 1] = Digit(g[i], Value[y[i + 1]])
        BY <2>1 DEF Values
    <2> QED
        BY <2>1, <2>2
<1> HIDE DEF T
<1>3. \A i \in Nat : i \in T
    BY <1>1, <1>2, Induction DEF T
<1> QED
    BY <1>0, <1>3 DEF T

LEMMA MagnitudeLast ==
    ASSUME NEW x \in Seq(DigitSet), NEW y \in Seq(DigitSet), Len(y) = Len(x) + 1,
           \A i \in 1 .. Len(x) : x[i] = y[i]
    PROVE  Magnitude(y) = Digit(Magnitude(x), Value[y[Len(x) + 1]])
<1>1. PICK h : Values(x, h) /\ Magnitude(x) = h[Len(x)]
    BY MagnitudeFacts
<1>2. PICK g : Values(y, g) /\ Magnitude(y) = g[Len(y)]
    BY MagnitudeFacts
<1>3. Len(x) \in Nat /\ Len(x) <= Len(y) /\ Len(x) \in 0 .. Len(x)
    OBVIOUS
<1>4. \A i \in 0 .. Len(x) : h[i] = g[i]
    BY <1>1, <1>2, <1>3, ValuesUnique
<1>5. h[Len(x)] = g[Len(x)]
    BY <1>3, <1>4
<1>6. g[Len(x) + 1] = Digit(g[Len(x)], Value[y[Len(x) + 1]])
    <2>1. Len(x) + 1 \in 1 .. Len(y) /\ Len(x) + 1 - 1 = Len(x)
        BY <1>3
    <2> QED
        BY <1>2, <2>1 DEF Values
<1> QED
    BY <1>1, <1>2, <1>5, <1>6

LEMMA MagnitudeOne ==
    ASSUME NEW x \in Seq(DigitSet), NEW c \in DigitSet
    PROVE  Magnitude(x \o <<c>>) = Digit(Magnitude(x), Value[c])
<1>1. PICK y : y = x \o <<c>>
    OBVIOUS
<1>2. y \in Seq(DigitSet) /\ Len(y) = Len(x) + 1 /\ y[Len(x) + 1] = c
      /\ \A i \in 1 .. Len(x) : x[i] = y[i]
    BY <1>1, OneLast
<1>3. Magnitude(y) = Digit(Magnitude(x), Value[y[Len(x) + 1]])
    BY <1>2, MagnitudeLast
<1> QED
    BY <1>1, <1>2, <1>3

LEMMA MagnitudeNone == Magnitude(<<>>) = 0
<1>1. <<>> \in Seq(DigitSet) /\ Len(<<>>) = 0
    OBVIOUS
<1> QED
    BY <1>1, MagnitudeFacts DEF Values

LEMMA DigitIs ==
    ASSUME NEW v \in Nat, NEW d \in 0 .. 9
    PROVE  /\ v * 10 + d <= ULLONG_MAX => Digit(v, d) = v * 10 + d
           /\ Digit(v, d) # -1 => Digit(v, d) = v * 10 + d
<1> PICK m \in Nat : m = ULLONG_MAX
    BY RespAssumption DEF ULLONG_MAX
<1> PICK q \in Nat : q = m \div 10
    BY TenFacts
<1>1. m = q * 10 + (m % 10) /\ m % 10 \in 0 .. 9
    BY TenFacts
<1>2. v * 10 + d <= m => v <= q
    BY <1>1
<1>3. Digit(v, d) = IF v > q \/ v * 10 > m - d THEN -1 ELSE v * 10 + d
    <2>1. v # -1
        OBVIOUS
    <2> QED
        BY <2>1 DEF Digit
<1>4. v * 10 \in Nat /\ v * 10 + d \in Nat
    OBVIOUS
<1> QED
    BY <1>2, <1>3, <1>4

(* The digits of n are read as n. *)
LEMMA ReadBack ==
    ASSUME NEW n \in Nat, n <= ULLONG_MAX
    PROVE  Magnitude(Numeral(n)) = n
<1> DEFINE T == {i \in Nat : i <= ULLONG_MAX => Magnitude(Numeral(i)) = i}
<1>0. ULLONG_MAX \in Nat
    BY RespAssumption DEF ULLONG_MAX
<1>1. ASSUME NEW i \in Nat, \A j \in Nat : j < i => j \in T
      PROVE  i \in T
    <2> SUFFICES ASSUME i <= ULLONG_MAX
                 PROVE  Magnitude(Numeral(i)) = i
        OBVIOUS
    <2>1. LastDigit(i) \in DigitSet /\ Value[LastDigit(i)] = i % 10 /\ i % 10 \in 0 .. 9
        BY LastFacts, TenFacts
    <2>2. CASE i < 10
        <3>1. Numeral(i) = <<>> \o <<LastDigit(i)>>
            <4>1. <<LastDigit(i)>> \in Seq(DigitSet)
                BY <2>1
            <4> QED
                BY <2>2, <4>1, NumeralFacts, ConcatEmptySeq
        <3>2. Magnitude(Numeral(i)) = Digit(0, i % 10)
            <4>1. <<>> \in Seq(DigitSet)
                OBVIOUS
            <4> QED
                BY <2>1, <3>1, <4>1, MagnitudeOne, MagnitudeNone
        <3>3. i % 10 = i /\ 0 * 10 + (i % 10) = i
            BY <2>2, TenFacts
        <3> QED
            BY <2>1, <3>2, <3>3, DigitIs
    <2>3. CASE ~(i < 10)
        <3> PICK j \in Nat : j = i \div 10 /\ j < i /\ i = j * 10 + (i % 10)
            BY <2>3, TenFacts
        <3>1. j <= ULLONG_MAX
            BY <1>0
        <3>2. Magnitude(Numeral(j)) = j
            BY <1>1, <3>1
        <3>3. Numeral(i) = Numeral(j) \o <<LastDigit(i)>> /\ Numeral(j) \in Seq(DigitSet)
            <4>1. Numeral(i) = Numeral(i \div 10) \o <<LastDigit(i)>>
                <5>1. i >= 10
                    BY <2>3
                <5> QED
                    BY <5>1, NumeralFacts
            <4>2. Numeral(j) \in Seq(DigitSet)
                BY NumeralFacts
            <4> QED
                BY <4>1, <4>2
        <3>4. Magnitude(Numeral(i)) = Digit(j, i % 10)
            BY <2>1, <3>2, <3>3, MagnitudeOne
        <3> QED
            BY <2>1, <3>4, DigitIs
    <2> QED
        BY <2>2, <2>3
<1> HIDE DEF T
<1>2. \A i \in Nat : i \in T
    BY <1>1, StrongInduction DEF T
<1> QED
    BY <1>2 DEF T

(* Its first digit is not zero, unless n is. *)
LEMMA NumeralFirst ==
    ASSUME NEW n \in Nat
    PROVE  Numeral(n) # <<>> /\ Numeral(n)[1] \in DigitSet /\ (n > 0 => Numeral(n)[1] # "0")
<1> DEFINE T == {i \in Nat : Numeral(i) # <<>> /\ (i > 0 => Numeral(i)[1] # "0")}
<1>1. ASSUME NEW i \in Nat, \A j \in Nat : j < i => j \in T
      PROVE  i \in T
    <2>1. LastDigit(i) \in DigitSet /\ Value[LastDigit(i)] = i % 10
        BY LastFacts
    <2>2. CASE i < 10
        <3>1. Numeral(i) = <<LastDigit(i)>> /\ i % 10 = i
            BY <2>2, NumeralFacts, TenFacts
        <3>2. i > 0 => LastDigit(i) # "0"
            <4>1. Value["0"] = 0
                <5>1. Digits[0 + 1] = "0" /\ 0 \in 0 .. 9
                    BY DEF Digits
                <5> QED
                    BY <5>1, DigitFacts
            <4> QED
                BY <2>1, <3>1, <4>1
        <3> QED
            BY <3>1, <3>2
    <2>3. CASE ~(i < 10)
        <3> PICK j \in Nat : j = i \div 10 /\ j < i /\ j > 0
            BY <2>3, TenFacts
        <3> PICK q : q = Numeral(j)
            OBVIOUS
        <3>1. q \in Seq(DigitSet) /\ q # <<>> /\ q[1] # "0"
            BY <1>1, NumeralFacts
        <3>2. Numeral(i) = q \o <<LastDigit(i)>>
            BY <2>3, NumeralFacts
        <3> PICK y : y = q \o <<LastDigit(i)>>
            OBVIOUS
        <3>3. Len(y) = Len(q) + 1 /\ Len(q) \in Nat /\ Len(q) >= 1 /\ \A k \in 1 .. Len(q) : y[k] = q[k]
            <4>1. Len(q) \in Nat /\ Len(q) # 0
                BY <3>1
            <4> QED
                BY <2>1, <3>1, <4>1, OneLast
        <3>4. y # <<>> /\ y[1] = q[1]
            BY <3>3
        <3> QED
            BY <3>1, <3>2, <3>4
    <2> QED
        BY <2>2, <2>3
<1> HIDE DEF T
<1>2. \A i \in Nat : i \in T
    BY <1>1, StrongInduction DEF T
<1>3. Numeral(n) \in Seq(DigitSet)
    BY NumeralFacts
<1>4. Numeral(n) # <<>> /\ (n > 0 => Numeral(n)[1] # "0")
    BY <1>2 DEF T
<1> QED
    BY <1>3, <1>4

(* Digits that are read as v are the digits of v. *)
LEMMA WriteBack ==
    ASSUME NEW x \in Seq(DigitSet), x # <<>>, x[1] # "0", Magnitude(x) # -1
    PROVE  Magnitude(x) \in Nat /\ Magnitude(x) > 0 /\ Numeral(Magnitude(x)) = x
<1> DEFINE Good(q) == q # <<>> /\ q[1] # "0" /\ Magnitude(q) # -1
                      => Magnitude(q) \in Nat /\ Magnitude(q) > 0 /\ Numeral(Magnitude(q)) = q
           T == {k \in Nat : \A q \in Seq(DigitSet) : Len(q) = k => Good(q)}
<1>1. 0 \in T
    <2>1. \A q \in Seq(DigitSet) : Len(q) = 0 => q = <<>>
        OBVIOUS
    <2> QED
        BY <2>1
<1>2. ASSUME NEW k \in T
      PROVE  k + 1 \in T
    <2>0. k \in Nat /\ \A q \in Seq(DigitSet) : Len(q) = k => Good(q)
        BY <1>2
    <2> SUFFICES ASSUME NEW q \in Seq(DigitSet), Len(q) = k + 1, q[1] # "0", Magnitude(q) # -1
                 PROVE  Magnitude(q) \in Nat /\ Magnitude(q) > 0 /\ Numeral(Magnitude(q)) = q
        BY <2>0
    <2> PICK f : f = SubSeq(q, 1, k)
        OBVIOUS
    <2> PICK c : c = q[k + 1]
        OBVIOUS
    <2>1. f \in Seq(DigitSet) /\ Len(f) = k /\ (\A i \in 1 .. k : f[i] = q[i]) /\ c \in DigitSet
        BY <2>0
    <2>2. q = f \o <<c>>
        <3> PICK y : y = f \o <<c>>
            OBVIOUS
        <3>1. y \in Seq(DigitSet) /\ Len(y) = k + 1 /\ y[k + 1] = c /\ \A i \in 1 .. k : y[i] = f[i]
            BY <2>1, OneLast, SMTT(30)
        <3>2. \A i \in 1 .. k + 1 : q[i] = y[i]
            BY <2>0, <2>1, <3>1
        <3> QED
            BY <3>1, <3>2, SeqEqual
    <2> PICK d \in 0 .. 9 : d = Value[c]
        BY <2>1, DigitFacts
    <2>3. Magnitude(q) = Digit(Magnitude(f), d)
        BY <2>1, <2>2, MagnitudeOne
    <2>c. c # "0" => d > 0
        <3>1. Digits[0 + 1] = "0"
            BY DEF Digits
        <3>2. Digits[d + 1] = c
            BY <2>1, DigitFacts
        <3> QED
            BY <3>1, <3>2, SMTT(30)
    <2>4. CASE k = 0
        <3>1. f = <<>>
            BY <2>1, <2>4
        <3>2. Magnitude(q) = Digit(0, d)
            BY <2>3, <3>1, MagnitudeNone
        <3>3. Magnitude(q) = d
            BY <3>2, DigitIs, SMTT(30)
        <3>4. d > 0
            BY <2>4, <2>c
        <3>5. Numeral(d) = <<LastDigit(d)>> /\ LastDigit(d) = c
            <4>1. d \in Nat /\ d < 10 /\ d % 10 = d
                <5>1. d \in Nat /\ d < 10
                    BY SMTT(30)
                <5> QED
                    BY <5>1, TenFacts
            <4>2. Digits[d + 1] = c
                BY <2>1, DigitFacts
            <4> QED
                BY <4>1, <4>2, NumeralFacts DEF LastDigit
        <3>6. q = <<c>>
            <4>1. <<c>> \in Seq(DigitSet)
                BY <2>1
            <4> QED
                BY <2>2, <3>1, <4>1, ConcatEmptySeq
        <3> QED
            BY <3>3, <3>4, <3>5, <3>6
    <2>5. CASE k # 0
        <3>1. f # <<>> /\ f[1] = q[1]
            BY <2>0, <2>1, <2>5
        <3>2. Magnitude(f) # -1
            BY <2>3 DEF Digit
        <3> PICK m \in Nat : m = Magnitude(f) /\ m > 0 /\ Numeral(m) = f
            BY <2>0, <2>1, <3>1, <3>2
        <3>v. PICK v \in Nat : v = m * 10 + d
            BY TenTimes
        <3>3. Magnitude(q) = v
            BY <2>3, <3>v, DigitIs
        <3>4. v >= 10 /\ v \div 10 = m /\ v % 10 = d
            BY <3>v, TenUnique
        <3>5. Numeral(v) = f \o <<LastDigit(v)>>
            BY <3>4, NumeralFacts
        <3>6. LastDigit(v) = c
            <4>1. Digits[d + 1] = c
                BY <2>1, DigitFacts
            <4> QED
                BY <3>4, <4>1 DEF LastDigit
        <3>7. Numeral(v) = q
            BY <2>2, <3>5, <3>6
        <3>8. v > 0
            BY <3>4
        <3> QED
            BY <3>3, <3>7, <3>8
    <2> QED
        BY <2>4, <2>5
<1>3. \A k \in Nat : k \in T
    <2> HIDE DEF T
    <2> QED
        BY <1>1, <1>2, Induction DEF T
<1>4. Good(x)
    <2>1. Len(x) \in T
        BY <1>3
    <2> QED
        BY <2>1
<1> QED
    BY <1>4

LEMMA WrittenIs ==
    ASSUME NEW n \in Int
    PROVE  /\ n >= 0 => sdsll2str(n) = Numeral(n)
           /\ n < 0 => sdsll2str(n) = <<"-">> \o Numeral(-n)
<1>1. ASSUME n >= 0
      PROVE  sdsll2str(n) = Numeral(n)
    <2>1. n \in Nat /\ ~(n < 0)
        BY <1>1
    <2>2. sdsll2str(n) = <<>> \o Numeral(n)
        BY <2>1 DEF sdsll2str, Numeral
    <2>3. Numeral(n) \in Seq(DigitSet)
        BY <2>1, NumeralFacts
    <2> QED
        BY <2>2, <2>3, ConcatEmptySeq
<1>2. n < 0 => sdsll2str(n) = <<"-">> \o Numeral(-n)
    BY DEF sdsll2str, Numeral
<1> QED
    BY <1>1, <1>2

LEMMA ZeroIs == Numeral(0) = <<"0">>
<1>1. 0 \in Nat /\ 0 < 10 /\ 0 % 10 = 0
    BY TenFacts
<1>2. LastDigit(0) = "0"
    BY <1>1 DEF LastDigit, Digits
<1> QED
    BY <1>1, <1>2, NumeralFacts

LEMMA NoSign == "-" \notin DigitSet
BY DigitFacts

LEMMA SignFirst ==
    ASSUME NEW q \in Seq(DigitSet), NEW y, y = <<"-">> \o q
    PROVE  y # <<>> /\ y[1] = "-" /\ Tail(y) = q
<1> DEFINE S == DigitSet \cup {"-"}
<1>1. q \in Seq(S) /\ <<"-">> \in Seq(S)
    <2>1. q \in [1 .. Len(q) -> DigitSet]
        OBVIOUS
    <2>2. q \in [1 .. Len(q) -> S] /\ Len(q) \in Nat
        BY <2>1
    <2> QED
        BY <2>2
<1> HIDE DEF S
<1>2. y \in Seq(S) /\ Len(y) = Len(q) + 1 /\ y[1] = "-" /\ \A i \in 1 .. Len(q) : y[i + 1] = q[i]
    BY <1>1
<1>3. y # <<>>
    BY <1>2
<1> PICK u : u = Tail(y)
    OBVIOUS
<1>4. u \in Seq(S) /\ Len(u) = Len(q) /\ \A i \in 1 .. Len(q) : u[i] = y[i + 1]
    <2>1. Len(q) \in Nat
        OBVIOUS
    <2> QED
        BY <1>2, <1>3, <2>1
<1>5. u = q
    BY <1>1, <1>2, <1>4, SeqEqual
<1> QED
    BY <1>2, <1>3, <1>5

LEMMA SignAgain ==
    ASSUME NEW C, NEW x \in Seq(C), x # <<>>, x[1] = "-"
    PROVE  <<"-">> \o Tail(x) = x
<1> DEFINE n == Len(x)
<1>1. n \in Nat /\ n >= 1 /\ "-" \in C
    OBVIOUS
<1> PICK u : u = Tail(x)
    OBVIOUS
<1>2. u \in Seq(C) /\ Len(u) = n - 1 /\ \A i \in 1 .. n - 1 : u[i] = x[i + 1]
    OBVIOUS
<1> PICK y : y = <<"-">> \o u
    OBVIOUS
<1> HIDE DEF n
<1>3. y \in Seq(C) /\ Len(y) = n /\ y[1] = "-" /\ \A i \in 1 .. n - 1 : y[i + 1] = u[i]
    BY <1>1, <1>2
<1>4. \A i \in 1 .. n : y[i] = x[i]
    <2> TAKE i \in 1 .. n
    <2>1. CASE i = 1
        BY <1>3, <2>1
    <2>2. CASE i # 1
        <3>1. i - 1 \in 1 .. n - 1 /\ (i - 1) + 1 = i
            BY <1>1, <2>2
        <3> QED
            BY <1>2, <1>3, <3>1
    <2> QED
        BY <2>1, <2>2
<1>5. y = x
    BY <1>3, <1>4, SeqEqual DEF n
<1> QED
    BY <1>5

LEMMA DigitsAll ==
    ASSUME NEW q \in Seq(DigitSet)
    PROVE  ToSet(q) \subseteq ToSet(Digits)
<1>1. ToSet(q) \subseteq DigitSet
    BY DEF ToSet
<1> QED
    BY <1>1 DEF DigitSet

(* What string2ll reads, it would write. *)
LEMMA ReadThenWrite ==
    ASSUME NEW C, NEW x \in Seq(C), string2ll(x).ok
    PROVE  LET v == string2ll(x).value
           IN  v \in -LLONG_MAX - 1 .. LLONG_MAX /\ sdsll2str(v) = x
<1>0. LLONG_MAX \in Nat
    BY RespAssumption
<1>1. CASE x = <<"0">>
    <2>1. string2ll(x).value = 0
        BY <1>1 DEF string2ll
    <2>2. sdsll2str(0) = x
        BY <1>1, ZeroIs, WrittenIs
    <2> QED
        BY <1>0, <2>1, <2>2
<1>2. CASE x # <<"0">>
    <2> DEFINE negative == x # <<>> /\ x[1] = "-"
               ds == IF negative THEN Tail(x) ELSE x
               m == Magnitude(ds)
    <2>1. /\ ~(ds = <<>>) /\ ~(ds[1] = "0") /\ ToSet(ds) \subseteq ToSet(Digits)
          /\ ~(m = -1) /\ ~(m > LLONG_MAX + (IF negative THEN 1 ELSE 0))
          /\ string2ll(x) = [ok |-> TRUE, value |-> IF negative THEN -m ELSE m]
        BY <1>2 DEF string2ll, Invalid
    <2>2. ds \in Seq(C)
        OBVIOUS
    <2>3. ds \in Seq(DigitSet)
        <3> HIDE DEF ds
        <3> QED
            BY <2>1, <2>2, AllDigits
    <2>4. m \in Nat /\ m > 0 /\ Numeral(m) = ds
        <3> HIDE DEF ds
        <3> QED
            BY <2>1, <2>3, WriteBack
    <2>5. CASE negative
        <3>1. string2ll(x).value = -m
            BY <2>1, <2>5
        <3>2. m <= LLONG_MAX + 1
            <4> HIDE DEF m, negative
            <4> QED
                BY <1>0, <2>1, <2>4, <2>5
        <3>3. <<"-">> \o ds = x
            BY <2>5, SignAgain
        <3> HIDE DEF m, ds
        <3>4. -m \in Int /\ -m < 0 /\ -(-m) = m /\ -m \in -LLONG_MAX - 1 .. LLONG_MAX
            BY <1>0, <2>4, <3>2
        <3>5. sdsll2str(-m) = <<"-">> \o Numeral(m)
            BY <3>4, WrittenIs
        <3> QED
            BY <2>4, <3>1, <3>3, <3>4, <3>5
    <2>6. CASE ~negative
        <3>1. string2ll(x).value = m /\ ds = x
            BY <2>1, <2>6
        <3>2. m <= LLONG_MAX
            <4> HIDE DEF m, negative
            <4> QED
                BY <1>0, <2>1, <2>4, <2>6
        <3> HIDE DEF m, ds
        <3>3. m \in -LLONG_MAX - 1 .. LLONG_MAX /\ m \in Int /\ m >= 0
            BY <1>0, <2>4, <3>2
        <3>4. sdsll2str(m) = Numeral(m)
            BY <3>3, WrittenIs
        <3> QED
            BY <2>4, <3>1, <3>3, <3>4
    <2> QED
        BY <2>5, <2>6
<1> QED
    BY <1>1, <1>2

(* What sdsll2str writes, string2ll reads. *)
LEMMA WriteThenRead ==
    ASSUME NEW n \in -LLONG_MAX - 1 .. LLONG_MAX
    PROVE  string2ll(sdsll2str(n)) = [ok |-> TRUE, value |-> n]
<1> PICK x : x = sdsll2str(n)
    OBVIOUS
<1>0. LLONG_MAX \in Nat /\ ULLONG_MAX = 2 * LLONG_MAX + 1
    BY RespAssumption DEF ULLONG_MAX
<1>1. CASE n = 0
    <2>1. x = <<"0">>
        BY <1>1, WrittenIs, ZeroIs
    <2> QED
        BY <1>1, <2>1 DEF string2ll
<1>2. CASE n > 0
    <2>1. n \in Nat /\ n <= ULLONG_MAX /\ n <= LLONG_MAX
        BY <1>0, <1>2
    <2>2. x = Numeral(n) /\ x \in Seq(DigitSet)
        <3>1. n \in Int /\ n >= 0
            BY <2>1
        <3>2. sdsll2str(n) = Numeral(n)
            BY <3>1, WrittenIs
        <3>3. Numeral(n) \in Seq(DigitSet)
            BY <2>1, NumeralFacts
        <3> QED
            BY <3>2, <3>3
    <2>3. x # <<>> /\ x[1] # "0" /\ x[1] \in DigitSet
        BY <1>2, <2>1, <2>2, NumeralFirst
    <2>4. Magnitude(x) = n
        BY <2>1, <2>2, ReadBack
    <2>5. ~(x # <<>> /\ x[1] = "-")
        BY <2>3, NoSign
    <2>6. ToSet(x) \subseteq ToSet(Digits)
        BY <2>2, DigitsAll
    <2>7. x # <<"0">>
        BY <2>3
    <2>8. n # -1 /\ ~(n > LLONG_MAX + 0)
        BY <1>0, <2>1
    <2>9. string2ll(x) = [ok |-> TRUE, value |-> n]
        BY <2>3, <2>4, <2>5, <2>6, <2>7, <2>8 DEF string2ll
    <2> QED
        BY <2>9
<1>3. CASE n < 0
    <2> PICK m : m = -n
        OBVIOUS
    <2>1. m \in Nat /\ m > 0 /\ m <= ULLONG_MAX /\ m <= LLONG_MAX + 1 /\ -m = n
        BY <1>0, <1>3
    <2> PICK q : q = Numeral(m)
        OBVIOUS
    <2>2. x = <<"-">> \o q /\ q \in Seq(DigitSet)
        <3>1. n \in Int /\ n < 0
            BY <1>3, <2>1
        <3>2. sdsll2str(n) = <<"-">> \o Numeral(-n)
            BY <3>1, WrittenIs
        <3>3. Numeral(m) \in Seq(DigitSet)
            BY <2>1, NumeralFacts
        <3> QED
            BY <3>2, <3>3
    <2>3. q # <<>> /\ q[1] # "0"
        BY <2>1, NumeralFirst
    <2>4. Magnitude(q) = m
        BY <2>1, ReadBack
    <2>5. x # <<>> /\ x[1] = "-" /\ Tail(x) = q
        BY <2>2, SignFirst
    <2>6. ToSet(q) \subseteq ToSet(Digits)
        BY <2>2, DigitsAll
    <2>7. x # <<"0">>
        BY <2>5
    <2>8. m # -1 /\ ~(m > LLONG_MAX + 1)
        BY <1>0, <2>1
    <2>9. string2ll(x) = [ok |-> TRUE, value |-> -m]
        BY <2>3, <2>4, <2>5, <2>6, <2>7, <2>8 DEF string2ll
    <2> QED
        BY <2>1, <2>9
<1> QED
    BY <1>1, <1>2, <1>3

LEMMA Canonical ==
    ASSUME NEW C, NEW x \in Seq(C)
    PROVE  /\ string2ll(x).ok <=> x \in Numerals
           /\ string2ll(x).ok => sdsll2str(string2ll(x).value) = x
<1>1. ASSUME string2ll(x).ok
      PROVE  x \in Numerals /\ sdsll2str(string2ll(x).value) = x
    BY <1>1, ReadThenWrite DEF Numerals
<1>2. ASSUME x \in Numerals
      PROVE  string2ll(x).ok
    <2>1. PICK n \in -LLONG_MAX - 1 .. LLONG_MAX : x = sdsll2str(n)
        BY <1>2 DEF Numerals
    <2> QED
        BY <2>1, WriteThenRead
<1>3. string2ll(x).ok \in BOOLEAN
    BY NumberType
<1> QED
    BY <1>1, <1>2, <1>3

(* Of any texts, string2ll of read.c takes exactly those that sdsll2str of *)
(* sds.c writes, and as the number they were written for, whatever the     *)
(* width of long long.                                                     *)
THEOREM NumbersAreCanonical == CommandsSpec => []NumbersCanonical
<1> DEFINE Inv == input.chars \in Seq(FormatChars \cup NumeralChars)
<1>1. CommandsInit => Inv
    BY DEF CommandsInit
<1>2. ASSUME Inv, [CommandsNext]_input
      PROVE  Inv'
    <2>1. CASE CommandsNext
        <3>1. PICK kind, chars, max :
                  Longer(kind, chars, max) /\ chars \subseteq FormatChars \cup NumeralChars
            BY <2>1 DEF CommandsNext
        <3>2. PICK c \in chars : input' = [kind |-> kind, chars |-> Append(input.chars, c)]
            BY <3>1 DEF Longer
        <3>3. input'.chars = Append(input.chars, c) /\ c \in FormatChars \cup NumeralChars
            BY <3>1, <3>2
        <3> QED
            BY <1>2, <3>3
    <2>2. CASE UNCHANGED input
        BY <1>2, <2>2
    <2> QED
        BY <1>2, <2>1, <2>2
<1>3. Inv => NumbersCanonical
    BY Canonical DEF NumbersCanonical
<1> QED
    BY <1>1, <1>2, <1>3, PTL DEF CommandsSpec

-----------------------------------------------------------------------------
(* Commands *)

LEMMA JoinedFacts ==
    ASSUME NEW S, NEW a \in Seq(S), NEW b \in Seq(S)
    PROVE  /\ a \o b \in Seq(S) /\ Len(a \o b) = Len(a) + Len(b)
           /\ Past(a \o b, Len(a)) = b /\ SubSeq(a \o b, 1, Len(a)) = a
           /\ \A i \in 1 .. Len(a) : (a \o b)[i] = a[i]
           /\ \A i \in 1 .. Len(b) : (a \o b)[Len(a) + i] = b[i]
<1>1. /\ a \o b \in Seq(S) /\ Len(a \o b) = Len(a) + Len(b)
      /\ \A i \in 1 .. Len(a) : (a \o b)[i] = a[i]
      /\ \A i \in 1 .. Len(b) : (a \o b)[Len(a) + i] = b[i]
    OBVIOUS
<1>2. Past(a \o b, Len(a)) = b
    <2>1. Len(a) \in 0 .. Len(a) /\ Len(a) \in Nat /\ Len(a) <= Len(a)
        OBVIOUS
    <2>2. Past(a \o b, Len(a)) = Past(a, Len(a)) \o b
        BY <2>1, DropMore
    <2>3. Past(a, Len(a)) = <<>>
        <3>1. Past(a, Len(a)) \in Seq(S) /\ Len(Past(a, Len(a))) = Len(a) - Len(a)
            BY <2>1, DropFacts
        <3> QED
            BY <2>1, <3>1
    <2> QED
        BY <2>2, <2>3
<1>3. SubSeq(a \o b, 1, Len(a)) = a
    <2>1. Len(a) \in Nat /\ Len(a) <= Len(a) /\ SubSeq(a, 1, Len(a)) = a
        OBVIOUS
    <2>2. SubSeq(a \o b, 1, Len(a)) = SubSeq(a, 1, Len(a))
        BY <2>1, PartOfBoth
    <2> QED
        BY <2>1, <2>2
<1> QED
    BY <1>1, <1>2, <1>3

LEMMA Associates ==
    ASSUME NEW S, NEW a \in Seq(S), NEW b \in Seq(S), NEW c \in Seq(S)
    PROVE  (a \o b) \o c = a \o (b \o c) /\ a \o b \in Seq(S) /\ <<>> \o a = a /\ a \o <<>> = a
OBVIOUS

(* Concatenation, for steps that need no more of it than these two facts.  *)
Glue(a, b) == a \o b

LEMMA GlueFacts ==
    ASSUME NEW S, NEW a \in Seq(S), NEW b \in Seq(S)
    PROVE  /\ Glue(a, b) \in Seq(S)
           /\ \A c \in Seq(S) : Glue(Glue(a, b), c) = Glue(a, Glue(b, c))
BY DEF Glue

LEMMA AllAssociate ==
    ASSUME NEW S, NEW d \in Seq(S), NEW x \in Seq(S), NEW e \in Seq(S), NEW a \in Seq(S),
           NEW w \in Seq(S)
    PROVE  /\ Glue(Glue(Glue(Glue(d, x), e), a), e) \in Seq(S)
           /\ Glue(Glue(Glue(Glue(Glue(d, x), e), a), e), w) = Glue(d, Glue(x, Glue(e, Glue(a, Glue(e, w)))))
<1>1. Glue(d, x) \in Seq(S) /\ Glue(Glue(d, x), e) \in Seq(S)
    BY GlueFacts
<1>2. Glue(Glue(Glue(d, x), e), a) \in Seq(S) /\ Glue(Glue(Glue(Glue(d, x), e), a), e) \in Seq(S)
    BY <1>1, GlueFacts
<1>3. Glue(e, w) \in Seq(S) /\ Glue(a, Glue(e, w)) \in Seq(S) /\ Glue(e, Glue(a, Glue(e, w))) \in Seq(S)
    BY GlueFacts
<1>4. Glue(Glue(Glue(Glue(Glue(d, x), e), a), e), w) = Glue(Glue(Glue(Glue(d, x), e), a), Glue(e, w))
    BY <1>2, GlueFacts
<1>5. Glue(Glue(Glue(Glue(d, x), e), a), Glue(e, w)) = Glue(Glue(Glue(d, x), e), Glue(a, Glue(e, w)))
    BY <1>1, <1>3, GlueFacts
<1>6. Glue(Glue(Glue(d, x), e), Glue(a, Glue(e, w))) = Glue(Glue(d, x), Glue(e, Glue(a, Glue(e, w))))
    BY <1>1, <1>3, GlueFacts
<1>7. Glue(Glue(d, x), Glue(e, Glue(a, Glue(e, w)))) = Glue(d, Glue(x, Glue(e, Glue(a, Glue(e, w)))))
    BY <1>3, GlueFacts
<1> QED
    BY <1>2, <1>4, <1>5, <1>6, <1>7

LEMMA Wider ==
    ASSUME NEW S, NEW C, S \subseteq C, NEW x \in Seq(S)
    PROVE  x \in Seq(C)
OBVIOUS

LEMMA NoneIs ==
    ASSUME NEW S, NEW q \in Seq(S), Len(q) = 0
    PROVE  q = <<>>
OBVIOUS

LEMMA OneIs ==
    ASSUME NEW S, NEW c \in S
    PROVE  <<c>> \in Seq(S)
OBVIOUS

(* The end of a line, and what follows it. *)
LEMMA CrLf ==
    ASSUME NEW C, CR \in C, LF \in C, NEW w \in Seq(C)
    PROVE  /\ CRLF \in Seq(C) /\ Len(CRLF) = 2
           /\ CRLF \o w \in Seq(C) /\ Len(CRLF \o w) = 2 + Len(w)
           /\ (CRLF \o w)[1] = CR /\ (CRLF \o w)[2] = LF /\ Past(CRLF \o w, 2) = w
<1>1. CRLF \in Seq(C) /\ Len(CRLF) = 2 /\ CRLF[1] = CR /\ CRLF[2] = LF
    BY DEF CRLF
<1>2. 1 \in 1 .. 2 /\ 2 \in 1 .. 2
    OBVIOUS
<1> QED
    BY <1>1, <1>2, JoinedFacts

(* A number on a line of its own is read as that number. *)
LEMMA LineIs ==
    ASSUME NEW C, CR \in C, LF \in C, NEW w \in Seq(C), NEW x \in Seq(C),
           \A i \in 1 .. Len(x) : x[i] # CR
    PROVE  LET u == x \o (CRLF \o w)
           IN  /\ u \in Seq(C) /\ Len(u) = Len(x) + 2 + Len(w) /\ seekNewline(u) = Len(x) + 1
               /\ SubSeq(u, 1, Len(x)) = x /\ Past(u, Len(x) + 2) = w
<1>v. PICK v \in Seq(C) : /\ v = CRLF \o w /\ Len(v) = 2 + Len(w)
                          /\ v[1] = CR /\ v[2] = LF /\ Past(v, 2) = w
    BY CrLf
<1>u. PICK u \in Seq(C) : /\ u = x \o v /\ Len(u) = Len(x) + Len(v)
                          /\ Past(u, Len(x)) = v /\ SubSeq(u, 1, Len(x)) = x
                          /\ \A i \in 1 .. Len(x) : u[i] = x[i]
                          /\ \A i \in 1 .. Len(v) : u[Len(x) + i] = v[i]
    <2>1. /\ x \o v \in Seq(C) /\ Len(x \o v) = Len(x) + Len(v)
          /\ Past(x \o v, Len(x)) = v /\ SubSeq(x \o v, 1, Len(x)) = x
          /\ \A i \in 1 .. Len(x) : (x \o v)[i] = x[i]
          /\ \A i \in 1 .. Len(v) : (x \o v)[Len(x) + i] = v[i]
        BY JoinedFacts
    <2> QED
        BY <2>1
<1>1. Len(x) \in Nat /\ Len(w) \in Nat /\ Len(v) \in Nat /\ Len(u) = Len(x) + 2 + Len(w)
    BY <1>v, <1>u
<1>2. u[Len(x) + 1] = CR /\ u[Len(x) + 2] = LF
    <2>1. 1 \in 1 .. Len(v) /\ 2 \in 1 .. Len(v)
        BY <1>1, <1>v
    <2> QED
        BY <1>v, <1>u, <2>1
<1>3. Past(u, Len(x) + 2) = w
    <2>1. Len(x) \in 0 .. Len(u) /\ 2 \in 0 .. Len(u) - Len(x)
        BY <1>1
    <2>2. Past(Past(u, Len(x)), 2) = Past(u, Len(x) + 2)
        BY <2>1, DropTwice
    <2> QED
        BY <1>v, <1>u, <2>2
<1>4. seekNewline(u) = Len(x) + 1
    <2>1. PICK k : k = seekNewline(u)
        OBVIOUS
    <2>2. /\ k \in Nat
          /\ k # 0 => k + 1 <= Len(u) /\ u[k] = CR /\ u[k + 1] = LF
          /\ \A i \in 1 .. Len(u) - 1 : u[i] = CR /\ u[i + 1] = LF => k # 0 /\ k <= i
        BY <2>1, SeekFacts
    <2>3. Len(x) + 1 \in 1 .. Len(u) - 1 /\ (Len(x) + 1) + 1 = Len(x) + 2
        BY <1>1
    <2>4. k # 0 /\ k <= Len(x) + 1
        BY <1>2, <2>2, <2>3
    <2>5. ~(k \in 1 .. Len(x))
        BY <1>u, <2>2, <2>4
    <2> QED
        BY <1>1, <2>1, <2>2, <2>4, <2>5
<1> QED
    BY <1>v, <1>u, <1>1, <1>3, <1>4

LEMMA NumberLine ==
    ASSUME NEW C, DigitSet \subseteq C, CR \in C, LF \in C, NEW w \in Seq(C),
           NEW n \in 0 .. LLONG_MAX
    PROVE  LET x == sdsll2str(n)
               u == x \o (CRLF \o w)
           IN  /\ x \in Seq(C) /\ u \in Seq(C) /\ Len(u) = Len(x) + 2 + Len(w)
               /\ seekNewline(u) = Len(x) + 1
               /\ string2ll(SubSeq(u, 1, Len(x))) = [ok |-> TRUE, value |-> n]
               /\ Past(u, Len(x) + 2) = w
<1>0. LLONG_MAX \in Nat
    BY RespAssumption
<1>1. sdsll2str(n) = Numeral(n) /\ n \in Nat
    BY <1>0, WrittenIs
<1>2. sdsll2str(n) \in Seq(DigitSet)
    BY <1>1, NumeralFacts
<1>x. PICK x \in Seq(C) : x = sdsll2str(n) /\ \A i \in 1 .. Len(x) : x[i] \in DigitSet
    BY <1>2
<1>3. \A i \in 1 .. Len(x) : x[i] # CR
    BY <1>x, DigitFacts DEF CR
<1>4. string2ll(x) = [ok |-> TRUE, value |-> n]
    <2>1. n \in -LLONG_MAX - 1 .. LLONG_MAX
        BY <1>0
    <2> QED
        BY <1>x, <2>1, WriteThenRead
<1>u. PICK u : u = x \o (CRLF \o w)
    OBVIOUS
<1>5. /\ u \in Seq(C) /\ Len(u) = Len(x) + 2 + Len(w) /\ seekNewline(u) = Len(x) + 1
      /\ SubSeq(u, 1, Len(x)) = x /\ Past(u, Len(x) + 2) = w
    BY <1>u, <1>3, LineIs
<1> QED
    BY <1>x, <1>u, <1>4, <1>5

(* An argument on the wire, with what follows it, is taken as one string.  *)
Bulk(arg) == <<"$">> \o sdsll2str(Len(arg)) \o CRLF \o arg \o CRLF
Sized(arg, w) == sdsll2str(Len(arg)) \o (CRLF \o (arg \o (CRLF \o w)))

(* The characters that the protocol needs. *)
Wired(C) == DigitSet \subseteq C /\ CR \in C /\ LF \in C /\ "$" \in C /\ "*" \in C

LEMMA BulkIs ==
    ASSUME NEW C, Wired(C), NEW arg \in Seq(C), NEW w \in Seq(C)
    PROVE  /\ Bulk(arg) \in Seq(C)
           /\ Bulk(arg) \o w = <<"$">> \o Sized(arg, w)
<1>x. PICK x \in Seq(C) : x = sdsll2str(Len(arg))
    <2>1. PICK l \in Nat : l = Len(arg)
        OBVIOUS
    <2>2. sdsll2str(l) = Numeral(l)
        BY WrittenIs
    <2>3. Numeral(l) \in Seq(C)
        BY NumeralFacts, Wider DEF Wired
    <2> QED
        BY <2>1, <2>2, <2>3
<1>d. PICK d \in Seq(C) : d = <<"$">>
    <2>1. <<"$">> \in Seq(C)
        BY OneIs DEF Wired
    <2> QED
        BY <2>1
<1>e. PICK e \in Seq(C) : e = CRLF
    BY CrLf DEF Wired
<1>1. /\ d \o x \o e \o arg \o e \in Seq(C)
      /\ (d \o x \o e \o arg \o e) \o w = d \o (x \o (e \o (arg \o (e \o w))))
    <2>1. /\ Glue(Glue(Glue(Glue(d, x), e), arg), e) \in Seq(C)
          /\ Glue(Glue(Glue(Glue(Glue(d, x), e), arg), e), w)
                = Glue(d, Glue(x, Glue(e, Glue(arg, Glue(e, w)))))
        BY AllAssociate
    <2> QED
        BY <2>1, Zenon DEF Glue
<1> QED
    BY <1>x, <1>d, <1>e, <1>1 DEF Bulk, Sized

LEMMA PartIs ==
    ASSUME NEW C, NEW u \in Seq(C), NEW m \in 0 .. Len(u), NEW l \in Nat, l <= Len(u) - m,
           NEW c, c = SubSeq(u, m + 1, m + l)
    PROVE  c \in Seq(C) /\ Len(c) = l /\ \A i \in 1 .. l : c[i] = u[m + i]
<1>p. PICK p \in Int, q \in Int : p = m + 1 /\ q = m + l
    OBVIOUS
<1>0. Len(u) \in Nat /\ q <= Len(u) /\ 1 <= p /\ q - p + 1 = l
    BY <1>p
<1>1. \A i \in p .. q : u[i] \in C
    <2> TAKE i \in p .. q
    <2>1. i \in 1 .. Len(u)
        BY <1>0
    <2> QED
        BY <2>1
<1>2. /\ c \in Seq(C) /\ Len(c) = IF p <= q THEN q - p + 1 ELSE 0
      /\ \A i \in 1 .. q - p + 1 : c[i] = u[p + i - 1]
    BY <1>p, <1>1, SubSeqProperties
<1>3. Len(c) = l
    BY <1>p, <1>0, <1>2
<1>4. ASSUME NEW i \in 1 .. l
      PROVE  c[i] = u[m + i]
    <2>1. i \in 1 .. q - p + 1 /\ p + i - 1 = m + i
        BY <1>p, <1>0
    <2> QED
        BY <1>2, <2>1
<1> QED
    BY <1>2, <1>3, <1>4

LEMMA PartOfPast ==
    ASSUME NEW C, NEW u \in Seq(C), NEW m \in 0 .. Len(u), NEW l \in Nat, l <= Len(u) - m
    PROVE  SubSeq(Past(u, m), 1, l) = SubSeq(u, m + 1, m + l)
<1>0. Len(u) \in Nat
    OBVIOUS
<1>1. /\ Past(u, m) \in Seq(C) /\ Len(Past(u, m)) = Len(u) - m
      /\ \A i \in 1 .. Len(u) - m : Past(u, m)[i] = u[m + i]
    BY DropFacts
<1>a. PICK a \in Seq(C) : a = Past(u, m) /\ Len(a) = Len(u) - m
                          /\ \A i \in 1 .. Len(u) - m : a[i] = u[m + i]
    BY <1>1
<1>b. PICK b : b = SubSeq(a, 1, l)
    OBVIOUS
<1>2. b \in Seq(C) /\ Len(b) = l /\ \A i \in 1 .. l : b[i] = a[i]
    BY <1>0, <1>a, <1>b
<1>c. PICK c : c = SubSeq(u, m + 1, m + l)
    OBVIOUS
<1>3. c \in Seq(C) /\ Len(c) = l /\ \A i \in 1 .. l : c[i] = u[m + i]
    BY <1>c, PartIs
<1>4. \A i \in 1 .. l : b[i] = c[i]
    <2> TAKE i \in 1 .. l
    <2>1. i \in 1 .. Len(u) - m
        BY <1>0
    <2> QED
        BY <1>a, <1>2, <1>3, <2>1
<1>5. b = c
    BY <1>2, <1>3, <1>4, SeqEqual
<1> QED
    BY <1>a, <1>b, <1>c, <1>5

LEMMA BulkTaken ==
    ASSUME NEW C, Wired(C), NEW arg \in Seq(C), NEW w \in Seq(C),
           Len(arg) <= MaxAlloc, Len(arg) <= LLONG_MAX, NEW type
    PROVE  /\ Sized(arg, w) \in Seq(C)
           /\ \E k \in Nat : /\ BulkOutcome(type, Sized(arg, w)) = Takes(k, Node(type, arg, 0))
                             /\ Past(Sized(arg, w), k) = w
<1>l. PICK l \in 0 .. LLONG_MAX : l = Len(arg) /\ l \in Nat /\ l <= MaxAlloc
    BY RespAssumption
<1>y. PICK y \in Seq(C) : y = arg \o (CRLF \o w) /\ Len(y) = l + 2 + Len(w)
                          /\ SubSeq(y, 1, l) = arg /\ Past(y, l + 2) = w
    <2>1. PICK v \in Seq(C) : v = CRLF \o w /\ Len(v) = 2 + Len(w) /\ Past(v, 2) = w
        BY CrLf DEF Wired
    <2>2. /\ arg \o v \in Seq(C) /\ Len(arg \o v) = Len(arg) + Len(v)
          /\ Past(arg \o v, Len(arg)) = v /\ SubSeq(arg \o v, 1, Len(arg)) = arg
        BY JoinedFacts
    <2>3. PICK z \in Seq(C) : z = arg \o v
        BY <2>2
    <2>4. Len(z) = l + 2 + Len(w) /\ Past(z, l) = v /\ SubSeq(z, 1, l) = arg /\ Len(w) \in Nat
        BY <1>l, <2>1, <2>2, <2>3
    <2>5. l \in 0 .. Len(z) /\ 2 \in 0 .. Len(z) - l
        BY <1>l, <2>4
    <2>6. Past(Past(z, l), 2) = Past(z, l + 2)
        BY <2>5, DropTwice
    <2> QED
        BY <2>1, <2>3, <2>4, <2>6
<1>x. PICK x \in Seq(C) : x = sdsll2str(l)
    BY <1>l, NumberLine DEF Wired
<1>u. PICK u \in Seq(C) : /\ u = x \o (CRLF \o y) /\ Len(u) = Len(x) + 2 + Len(y)
                          /\ seekNewline(u) = Len(x) + 1
                          /\ string2ll(SubSeq(u, 1, Len(x))) = [ok |-> TRUE, value |-> l]
                          /\ Past(u, Len(x) + 2) = y
    <2>1. LET z == sdsll2str(l)
              v == z \o (CRLF \o y)
          IN  /\ z \in Seq(C) /\ v \in Seq(C) /\ Len(v) = Len(z) + 2 + Len(y)
              /\ seekNewline(v) = Len(z) + 1
              /\ string2ll(SubSeq(v, 1, Len(z))) = [ok |-> TRUE, value |-> l]
              /\ Past(v, Len(z) + 2) = y
        BY NumberLine DEF Wired
    <2> QED
        BY <1>x, <2>1
<1>n. PICK n \in Nat : n = Len(x) + 1
    OBVIOUS
<1>0. Len(x) \in Nat /\ Len(y) \in Nat /\ Len(w) \in Nat /\ n - 1 = Len(x) /\ n # 0
    BY <1>n
<1>1. Len(u) = n + 1 + l + 2 + Len(w)
    BY <1>0, <1>l, <1>y, <1>u
<1>2. SubSeq(u, n + 2, n + 1 + l) = arg
    <2>1. /\ n + 1 \in 0 .. Len(u) /\ Past(u, n + 1) = y
        BY <1>0, <1>1, <1>l, <1>u
    <2>2. SubSeq(Past(u, n + 1), 1, l) = SubSeq(u, n + 2, n + 1 + l)
        <3>m. PICK m \in 0 .. Len(u) : m = n + 1 /\ l <= Len(u) - m
            BY <2>1, <1>0, <1>1, <1>l
        <3>1. SubSeq(Past(u, m), 1, l) = SubSeq(u, m + 1, m + l)
            BY <1>l, <3>m, PartOfPast
        <3> QED
            BY <3>1, <3>m, n + 1 + 1 = n + 2
    <2> QED
        BY <1>y, <2>1, <2>2
<1>3. Past(u, n + 1 + l + 2) = w
    <2>1. n + 1 \in 0 .. Len(u) /\ l + 2 \in 0 .. Len(u) - (n + 1) /\ Past(u, n + 1) = y
        BY <1>0, <1>1, <1>l, <1>u
    <2>2. Past(Past(u, n + 1), l + 2) = Past(u, (n + 1) + (l + 2))
        BY <2>1, DropTwice
    <2>3. (n + 1) + (l + 2) = n + 1 + l + 2
        BY <1>l
    <2> QED
        BY <1>y, <2>1, <2>2, <2>3
<1>4. BulkOutcome(type, u) = Takes(n + 1 + l + 2, Node(type, arg, 0))
    <2>1. seekNewline(u) = n /\ string2ll(SubSeq(u, 1, n - 1)) = [ok |-> TRUE, value |-> l]
        BY <1>0, <1>n, <1>u
    <2>2. PICK v : v = string2ll(SubSeq(u, 1, n - 1)) /\ v.ok /\ v.value = l
        BY <2>1
    <2>3. BulkOutcome(type, u) =
              IF n = 0 THEN Waits
              ELSE IF ~v.ok \/ v.value < -1 THEN Fails_("protocol")
              ELSE IF v.value = -1 THEN Takes(n + 1, Node("nil", <<>>, 0))
              ELSE IF n + 1 + v.value + 2 > Len(u) THEN Waits
              ELSE IF v.value > MaxAlloc THEN Fails_("oom")
              ELSE Takes(n + 1 + v.value + 2, Node(type, SubSeq(u, n + 2, (n + 1 + v.value + 2) - 2), 0))
        BY <2>1, <2>2 DEF BulkOutcome
    <2>4. ~(l < -1) /\ l # -1 /\ ~(n + 1 + l + 2 > Len(u)) /\ ~(l > MaxAlloc)
          /\ (n + 1 + l + 2) - 2 = n + 1 + l
        BY <1>0, <1>1, <1>l, ReaderAssumption
    <2>5. BulkOutcome(type, u) = Takes(n + 1 + l + 2, Node(type, SubSeq(u, n + 2, n + 1 + l), 0))
        BY <1>0, <2>2, <2>3, <2>4
    <2> QED
        BY <1>2, <2>5
<1> QED
    <2>1. u = Sized(arg, w)
        BY <1>l, <1>y, <1>x, <1>u DEF Sized
    <2>2. n + 1 + l + 2 \in Nat
        BY <1>l
    <2> QED
        BY <2>1, <2>2, <1>3, <1>4

(* The stack while the elements of an array of n are read, and the reply   *)
(* when i of them have been.                                               *)
Element(i) == [type |-> Unknown, elements |-> -1, idx |-> i]
Stack(n, i) == <<[type |-> "array", elements |-> n, idx |-> -1], Element(i)>>
Partial(argv, i) ==
    [p \in {<<>>} \cup {<<j - 1>> : j \in 1 .. i} |->
        IF p = <<>> THEN Node("array", <<>>, Len(argv)) ELSE Node("string", argv[p[1] + 1], 0)]

LEMMA PartialGrows ==
    ASSUME NEW argv, NEW i \in Nat
    PROVE  Linked(Partial(argv, i), <<i>>, Node("string", argv[i + 1], 0)) = Partial(argv, i + 1)
<1> DEFINE D == {<<>>} \cup {<<j - 1>> : j \in 1 .. i}
           E == {<<>>} \cup {<<j - 1>> : j \in 1 .. i + 1}
           F(p) == IF p = <<>> THEN Node("array", <<>>, Len(argv)) ELSE Node("string", argv[p[1] + 1], 0)
<1>1. D \cup {<<i>>} = E
    <2>1. \A j \in 1 .. i : j \in 1 .. i + 1
        OBVIOUS
    <2>2. i + 1 \in 1 .. i + 1 /\ (i + 1) - 1 = i
        OBVIOUS
    <2>3. \A j \in 1 .. i + 1 : j \in 1 .. i \/ j = i + 1
        OBVIOUS
    <2>4. ASSUME NEW p \in E
          PROVE  p \in D \cup {<<i>>}
        <3>1. CASE p = <<>>
            BY <3>1
        <3>2. CASE p # <<>>
            <4>1. PICK j \in 1 .. i + 1 : p = <<j - 1>>
                BY <3>2
            <4>2. CASE j \in 1 .. i
                BY <4>1, <4>2
            <4>3. CASE j = i + 1
                BY <2>2, <4>1, <4>3
            <4> QED
                BY <2>3, <4>2, <4>3
        <3> QED
            BY <3>1, <3>2
    <2>5. ASSUME NEW p \in D
          PROVE  p \in E
        <3>1. CASE p = <<>>
            BY <3>1
        <3>2. CASE p # <<>>
            <4>1. PICK j \in 1 .. i : p = <<j - 1>>
                BY <3>2
            <4> QED
                BY <2>1, <4>1
        <3> QED
            BY <3>1, <3>2
    <2>6. <<i>> \in E
        <3>1. <<(i + 1) - 1>> \in E
            BY <2>2
        <3> QED
            BY <2>2, <3>1
    <2> HIDE DEF D, E
    <2> QED
        BY <2>4, <2>5, <2>6
<1>2. Partial(argv, i) = [p \in D |-> F(p)] /\ Partial(argv, i + 1) = [p \in E |-> F(p)]
    BY DEF Partial
<1>3. F(<<i>>) = Node("string", argv[i + 1], 0)
    <2>1. <<i>> # <<>> /\ <<i>>[1] = i
        OBVIOUS
    <2> QED
        BY <2>1
<1> HIDE DEF D, E, F
<1>4. Linked(Partial(argv, i), <<i>>, Node("string", argv[i + 1], 0))
        = [p \in D \cup {<<i>>} |-> IF p = <<i>> THEN Node("string", argv[i + 1], 0)
                                    ELSE Partial(argv, i)[p]]
    <2>1. DOMAIN Partial(argv, i) = D
        BY <1>2
    <2> QED
        BY <2>1 DEF Linked
<1>5. \A p \in D \cup {<<i>>} : (IF p = <<i>> THEN Node("string", argv[i + 1], 0)
                                 ELSE Partial(argv, i)[p]) = F(p)
    BY <1>2, <1>3
<1> QED
    BY <1>1, <1>2, <1>4, <1>5

LEMMA AppendOne ==
    ASSUME NEW S, NEW a \in S, NEW c \in S
    PROVE  Append(<<a>>, c) = <<a, c>>
<1>x. PICK x \in Seq(S) : x = <<a>>
    BY OneIs
<1>1. Len(x) = 1 /\ x[1] = a
    BY <1>x
<1>y. PICK y : y = Append(x, c)
    OBVIOUS
<1>4. /\ y \in Seq(S) /\ Len(y) = Len(x) + 1 /\ y[Len(x) + 1] = c
      /\ \A i \in 1 .. Len(x) : y[i] = x[i]
    BY <1>y
<1>2. y \in Seq(S) /\ Len(y) = 2 /\ y[1] = a /\ y[2] = c
    BY <1>1, <1>4, 1 \in 1 .. 1, 1 + 1 = 2
<1>3. y = <<a, c>>
    BY <1>2
<1> QED
    BY <1>x, <1>y, <1>3

LEMMA TopReplaced ==
    ASSUME NEW S, NEW a \in S, NEW b \in S, NEW c \in S
    PROVE  Append(SubSeq(<<a, b>>, 1, 1), c) = <<a, c>>
<1>1. <<a, b>> \in Seq(S) /\ <<c>> \in Seq(S) /\ <<a>> \in Seq(S)
    OBVIOUS
<1>2. SubSeq(<<a, b>>, 1, 1) = <<a>>
    <2>x. PICK x \in Seq(S) : x = <<a, b>>
        BY <1>1
    <2>1. Len(x) = 2 /\ x[1] = a
        BY <2>x
    <2>y. PICK y : y = SubSeq(x, 1, 1)
        OBVIOUS
    <2>2. y \in Seq(S) /\ Len(y) = 1 /\ y[1] = a
        BY <2>1, <2>y
    <2>3. y = <<a>>
        BY <2>2
    <2> QED
        BY <2>x, <2>y, <2>3
<1>3. Append(<<a>>, c) = <<a, c>>
    BY AppendOne
<1> QED
    BY <1>2, <1>3

(* The element on the top of the stack is done. *)
LEMMA ElementDone ==
    ASSUME NEW n \in Nat \ {0}, NEW i \in 0 .. n - 1, NEW type,
           NEW t, t = <<[type |-> "array", elements |-> n, idx |-> -1],
                        [type |-> type, elements |-> -1, idx |-> i]>>
    PROVE  /\ Popped(t) = IF i = n - 1 THEN <<>> ELSE Stack(n, i + 1)
           /\ \A reply, node : Grown(t, reply, node) = Linked(reply, <<i>>, node)
<1> DEFINE more == {j \in 2 .. Len(t) : t[j].idx # t[j - 1].elements - 1}
<1>1. Len(t) = 2 /\ t[1].elements = n /\ t[2].idx = i
    OBVIOUS
<1>2. ASSUME i = n - 1
      PROVE  Popped(t) = <<>>
    <2>1. more = {}
        <3>1. \A j \in 2 .. Len(t) : j = 2
            BY <1>1
        <3>2. t[2].idx = t[2 - 1].elements - 1
            BY <1>1, <1>2, 2 - 1 = 1
        <3> QED
            BY <3>1, <3>2
    <2> QED
        <3> HIDE DEF more
        <3> QED
            BY <2>1 DEF Popped, more
<1>3. ASSUME i # n - 1
      PROVE  Popped(t) = Stack(n, i + 1)
    <2>1. more = {2}
        <3>1. \A j \in 2 .. Len(t) : j = 2
            BY <1>1
        <3>2. t[2].idx # t[2 - 1].elements - 1 /\ 2 \in 2 .. Len(t)
            BY <1>1, <1>3, 2 - 1 = 1
        <3> QED
            BY <3>1, <3>2
    <2>2. Max({2}) = 2
        <3>1. {2} \in SUBSET (0 .. 2) /\ {2} # {}
            OBVIOUS
        <3> QED
            BY <3>1, MaxFacts
    <2>3. Popped(t) = Append(SubSeq(t, 1, 2 - 1), [type |-> Unknown, elements |-> -1, idx |-> t[2].idx + 1])
        <3> HIDE DEF more
        <3>1. more # {} /\ Max(more) = 2
            BY <2>1, <2>2
        <3> QED
            BY <3>1 DEF Popped, more
    <2>4. Append(SubSeq(t, 1, 2 - 1), Element(i + 1)) = Stack(n, i + 1)
        <3>1. ASSUME NEW a, NEW b, NEW c
              PROVE  Append(SubSeq(<<a, b>>, 1, 1), c) = <<a, c>>
            <4>1. a \in {a, b, c} /\ b \in {a, b, c} /\ c \in {a, b, c}
                OBVIOUS
            <4> QED
                BY <4>1, TopReplaced
        <3> QED
            BY <3>1, 2 - 1 = 1 DEF Stack
    <2> QED
        BY <1>1, <2>3, <2>4 DEF Element
<1>4. [j \in 1 .. Len(t) - 1 |-> t[j + 1].idx] = <<i>>
    <2>1. Len(t) - 1 = 1 /\ t[1 + 1].idx = i
        BY <1>1
    <2>2. PICK f : f = [j \in 1 .. 1 |-> t[j + 1].idx]
        OBVIOUS
    <2>3. f \in Seq({i}) /\ Len(f) = 1 /\ f[1] = i
        BY <2>1, <2>2
    <2>4. f = <<i>>
        BY <2>3
    <2> QED
        BY <2>1, <2>2, <2>4
<1> QED
    BY <1>2, <1>3, <1>4 DEF Grown

LEMMA BulkItem ==
    ASSUME NEW C, Wired(C), NEW arg \in Seq(C), NEW w \in Seq(C),
           Len(arg) <= MaxAlloc, Len(arg) <= LLONG_MAX,
           NEW n \in Nat \ {0}, NEW i \in 0 .. n - 1, NEW reply
    PROVE  Item(Stack(n, i), reply, Bulk(arg) \o w)
             = Go(IF i = n - 1 THEN <<>> ELSE Stack(n, i + 1),
                  Linked(reply, <<i>>, Node("string", arg, 0)), w)
<1>v. PICK v \in Seq(C), k \in Nat :
          /\ v = Sized(arg, w)
          /\ BulkOutcome("string", v) = Takes(k, Node("string", arg, 0)) /\ Past(v, k) = w
    BY BulkTaken
<1>u. PICK u : u = Bulk(arg) \o w
    OBVIOUS
<1>1. u = <<"$">> \o v
    BY <1>v, <1>u, BulkIs
<1>2. u # <<>> /\ u[1] = "$" /\ Past(u, 1) = v
    <2>1. <<"$">> \in Seq(C) /\ Len(<<"$">>) = 1 /\ <<"$">>[1] = "$"
        BY OneIs DEF Wired
    <2>2. PICK d \in Seq(C) : d = <<"$">> /\ Len(d) = 1 /\ d[1] = "$"
        BY <2>1
    <2>3. d \o v \in Seq(C) /\ Len(d \o v) = Len(d) + Len(v) /\ Past(d \o v, Len(d)) = v
          /\ \A j \in 1 .. Len(d) : (d \o v)[j] = d[j]
        BY JoinedFacts
    <2>4. Len(v) \in Nat /\ 1 \in 1 .. Len(d)
        BY <2>2
    <2> QED
        BY <1>1, <2>2, <2>3, <2>4
<1>3. u[1] \in DOMAIN TypeOf /\ TypeOf[u[1]] = "string"
    BY <1>2 DEF TypeOf
<1>s. PICK b : b = Stack(n, i)
    OBVIOUS
<1>4. Len(b) = 2 /\ b[2].type = Unknown
    BY <1>s DEF Stack, Element
<1>t. PICK t : t = <<[type |-> "array", elements |-> n, idx |-> -1],
                     [type |-> "string", elements |-> -1, idx |-> i]>>
    OBVIOUS
<1>5. WithType(b, "string") = t
    BY <1>4, <1>s, <1>t DEF WithType, Stack, Element
<1>6. Item(b, reply, u) = TypedItem(t, reply, v)
    BY <1>2, <1>3, <1>4, <1>5 DEF Item
<1>7. Len(t) = 2 /\ t[2].type = "string"
    BY <1>t
<1>8. TypedItem(t, reply, v) = Outcomes(t, reply, v, Takes(k, Node("string", arg, 0)))
    BY <1>v, <1>7 DEF TypedItem, ItemOutcome
<1>9. Outcomes(t, reply, v, Takes(k, Node("string", arg, 0)))
        = Go(Popped(t), Grown(t, reply, Node("string", arg, 0)), w)
    BY <1>v DEF Outcomes, Takes
<1>10. /\ Popped(t) = IF i = n - 1 THEN <<>> ELSE Stack(n, i + 1)
       /\ Grown(t, reply, Node("string", arg, 0)) = Linked(reply, <<i>>, Node("string", arg, 0))
    BY <1>t, ElementDone
<1> QED
    BY <1>u, <1>s, <1>6, <1>8, <1>9, <1>10

(* What is on the wire from argument i + 1 on. *)
Rest(argv, W) ==
    LET n == Len(argv)
    IN  W[n] = <<>> /\ \A i \in 0 .. n - 1 : W[i] = Bulk(argv[i + 1]) \o W[i + 1]

LEMMA RestExists ==
    ASSUME NEW C, Wired(C), NEW argv \in Seq(Seq(C))
    PROVE  \E W \in [0 .. Len(argv) -> Seq(C)] : Rest(argv, W)
<1>n. PICK n \in Nat : n = Len(argv)
    OBVIOUS
<1> DEFINE G == [i \in 1 .. n |-> [w \in Seq(C) |-> Bulk(argv[(n - i) + 1]) \o w]]
<1>1. \A i \in 1 .. n : (n - i) + 1 \in 1 .. n
    OBVIOUS
<1>2. ASSUME NEW i \in 1 .. n, NEW w \in Seq(C)
      PROVE  Bulk(argv[(n - i) + 1]) \o w \in Seq(C)
    <2>1. argv[(n - i) + 1] \in Seq(C)
        BY <1>1, <1>n
    <2>2. PICK b \in Seq(C) : b = Bulk(argv[(n - i) + 1])
        BY <2>1, BulkIs
    <2>3. b \o w \in Seq(C)
        OBVIOUS
    <2> QED
        BY <2>2, <2>3
<1>3. G \in [1 .. n -> [Seq(C) -> Seq(C)]]
    BY <1>2
<1>4. <<>> \in Seq(C)
    OBVIOUS
<1> HIDE DEF G
<1>h. PICK h : Recursive(h, n, Seq(C), <<>>, G)
    BY <1>3, <1>4, Recursion
<1>5. h \in [0 .. n -> Seq(C)] /\ h[0] = <<>> /\ \A i \in 1 .. n : h[i] = G[i][h[i - 1]]
    BY <1>h DEF Recursive
<1> DEFINE W == [i \in 0 .. n |-> h[n - i]]
<1>6. W \in [0 .. n -> Seq(C)] /\ W[n] = <<>>
    <2>1. \A i \in 0 .. n : n - i \in 0 .. n
        OBVIOUS
    <2>2. n - n = 0 /\ n \in 0 .. n
        OBVIOUS
    <2> QED
        BY <1>5, <2>1, <2>2
<1>7. ASSUME NEW i \in 0 .. n - 1
      PROVE  W[i] = Bulk(argv[i + 1]) \o W[i + 1]
    <2>1. n - i \in 1 .. n /\ (n - i) - 1 = n - (i + 1) /\ (n - (n - i)) + 1 = i + 1
          /\ i \in 0 .. n /\ i + 1 \in 0 .. n /\ n - (i + 1) \in 0 .. n
        OBVIOUS
    <2>2. W[i] = h[n - i] /\ W[i + 1] = h[n - (i + 1)]
        BY <2>1
    <2>3. h[n - i] = G[n - i][h[n - (i + 1)]]
        BY <1>5, <2>1
    <2>4. h[n - (i + 1)] \in Seq(C)
        BY <1>5, <2>1
    <2>5. \A w \in Seq(C) : G[n - i][w] = Bulk(argv[i + 1]) \o w
        BY <2>1 DEF G
    <2> QED
        BY <2>2, <2>3, <2>4, <2>5
<1> HIDE DEF W
<1> QED
    BY <1>n, <1>6, <1>7 DEF Rest

(* FlattenSeq, by what it leaves to do. *)
LEMMA FlattenIs ==
    ASSUME NEW C, NEW q \in Seq(Seq(C)), NEW W \in [0 .. Len(q) -> Seq(C)],
           W[Len(q)] = <<>>, \A i \in 0 .. Len(q) - 1 : W[i] = q[i + 1] \o W[i + 1]
    PROVE  FlattenSeq(q) = W[0]
<1>n. PICK n \in Nat : n = Len(q)
    OBVIOUS
<1> DEFINE G == [i \in 1 .. n |-> [v \in Seq(C) |-> v \o q[i]]]
           Def(g) == [i \in 1 .. n |-> IF i = 1 THEN q[i] ELSE g[i - 1] \o q[i]]
           f == CHOOSE g : g = Def(g)
<1>1. \A i \in 1 .. n : q[i] \in Seq(C)
    BY <1>n
<1>2. G \in [1 .. n -> [Seq(C) -> Seq(C)]]
    <2>1. ASSUME NEW i \in 1 .. n, NEW v \in Seq(C)
          PROVE  v \o q[i] \in Seq(C)
        BY <1>1, JoinedFacts
    <2> QED
        BY <2>1
<1> HIDE DEF G
<1>h. PICK h : Recursive(h, n, Seq(C), <<>>, G)
    <2>1. <<>> \in Seq(C)
        OBVIOUS
    <2> QED
        BY <1>2, <2>1, Recursion
<1>3. h \in [0 .. n -> Seq(C)] /\ h[0] = <<>> /\ \A i \in 1 .. n : h[i] = h[i - 1] \o q[i]
    <2>1. h \in [0 .. n -> Seq(C)] /\ h[0] = <<>> /\ \A i \in 1 .. n : h[i] = G[i][h[i - 1]]
        BY <1>h DEF Recursive
    <2>2. ASSUME NEW i \in 1 .. n
          PROVE  h[i] = h[i - 1] \o q[i]
        <3>1. i - 1 \in 0 .. n
            OBVIOUS
        <3>2. h[i - 1] \in Seq(C)
            BY <2>1, <3>1
        <3>3. \A v \in Seq(C) : G[i][v] = v \o q[i]
            BY DEF G
        <3> QED
            BY <2>1, <3>2, <3>3
    <2> QED
        BY <2>1, <2>2
<1>4. f = Def(f)
    <2> DEFINE g == [i \in 1 .. n |-> h[i]]
    <2>1. ASSUME NEW i \in 1 .. n
          PROVE  g[i] = IF i = 1 THEN q[i] ELSE g[i - 1] \o q[i]
        <3>1. CASE i = 1
            <4>0. 1 \in 1 .. n /\ 1 - 1 = 0
                BY <3>1
            <4>1. h[1] = <<>> \o q[1] /\ q[1] \in Seq(C)
                BY <1>1, <1>3, <4>0
            <4>2. <<>> \o q[1] = q[1]
                BY <4>1, ConcatEmptySeq
            <4> QED
                BY <3>1, <4>1, <4>2
        <3>2. CASE i # 1
            <4>1. i - 1 \in 1 .. n
                BY <3>2
            <4> QED
                BY <1>3, <3>2, <4>1
        <3> QED
            BY <3>1, <3>2
    <2>2. g = [i \in 1 .. n |-> g[i]]
        OBVIOUS
    <2> HIDE DEF g
    <2>3. g = Def(g)
        BY <2>1, <2>2
    <2> QED
        BY <2>3
<1>5. FlattenSeq(q) = IF n = 0 THEN q ELSE f[n]
    BY <1>n DEF FlattenSeq
<1>6. \A i \in 1 .. n : f[i] = IF i = 1 THEN q[i] ELSE f[i - 1] \o q[i]
    BY <1>4
<1> HIDE DEF f
<1>7. CASE n = 0
    <2>1. q = <<>>
        BY <1>n, <1>7, NoneIs
    <2> QED
        BY <1>n, <1>5, <1>7, <2>1
<1>8. CASE n # 0
    <2> DEFINE P(i) == f[i] \in Seq(C) /\ Glue(f[i], W[i]) = W[0]
               T == {i \in Nat : i + 1 <= n => P(i + 1)}
    <2>i. \A i \in 1 .. n : i # 1 => f[i] = Glue(f[i - 1], q[i])
        BY <1>6 DEF Glue
    <2>w. \A i \in 0 .. n - 1 : W[i] = Glue(q[i + 1], W[i + 1])
        BY <1>n DEF Glue
    <2>1. P(1)
        <3>1. 1 \in 1 .. n /\ 0 \in 0 .. n - 1 /\ 0 + 1 = 1
            BY <1>8
        <3>2. f[1] = q[1] /\ q[1] \in Seq(C)
            BY <1>1, <1>6, <3>1
        <3>3. W[0] = Glue(q[1], W[1])
            BY <2>w, <3>1
        <3> QED
            BY <3>2, <3>3
    <2>2. ASSUME NEW i \in Nat, i + 2 <= n, P(i + 1)
          PROVE  P(i + 2)
        <3>1. i + 2 \in 1 .. n /\ i + 2 # 1 /\ (i + 2) - 1 = i + 1 /\ i + 1 \in 0 .. n - 1
              /\ i + 2 \in 0 .. n /\ (i + 1) + 1 = i + 2
            BY <2>2
        <3>a. PICK a \in Seq(C) : a = f[i + 1] /\ Glue(a, W[i + 1]) = W[0]
            BY <2>2
        <3>b. PICK b \in Seq(C) : b = q[i + 2]
            BY <1>1, <3>1
        <3>c. PICK c \in Seq(C) : c = W[i + 2]
            BY <1>n, <3>1
        <3>2. f[i + 2] = Glue(a, b)
            BY <2>i, <3>1, <3>a, <3>b
        <3>3. W[i + 1] = Glue(b, c)
            BY <2>w, <3>1, <3>b, <3>c
        <3>4. Glue(Glue(a, b), c) = Glue(a, Glue(b, c)) /\ Glue(a, b) \in Seq(C)
            BY GlueFacts
        <3> QED
            BY <3>a, <3>c, <3>2, <3>3, <3>4
    <2> HIDE DEF P
    <2>3. \A i \in Nat : i \in T
        <3>1. 0 \in T
            BY <2>1, 0 + 1 = 1
        <3>2. ASSUME NEW i \in T
              PROVE  i + 1 \in T
            <4>1. i \in Nat /\ (i + 1) + 1 = i + 2 /\ (i + 2 <= n => i + 1 <= n)
                OBVIOUS
            <4> QED
                BY <2>2, <4>1
        <3> HIDE DEF T
        <3>3. T \in SUBSET Nat
            BY DEF T
        <3> QED
            BY <3>1, <3>2, <3>3, Induction
    <2>4. n - 1 \in Nat /\ (n - 1) + 1 = n
        BY <1>8
    <2>7. n - 1 \in T
        BY <2>3, <2>4
    <2>5. f[n] \in Seq(C) /\ f[n] \o W[n] = W[0]
        <3>1. n <= n
            OBVIOUS
        <3>2. P((n - 1) + 1)
            BY <2>4, <2>7, <3>1
        <3>3. P(n)
            BY <2>4, <3>2
        <3> QED
            BY <3>3 DEF P, Glue
    <2>6. f[n] \o <<>> = f[n]
        BY <2>5, ConcatEmptySeq
    <2> QED
        BY <1>5, <1>8, <1>n, <2>5, <2>6
<1> QED
    BY <1>7, <1>8

(* The beginning of a command. *)
Announced(n, w) == sdsll2str(n) \o (CRLF \o w)

LEMMA ArrayTaken ==
    ASSUME NEW C, Wired(C), NEW w \in Seq(C), StackSize # 1,
           NEW n \in Nat, n <= INT_MAX, n <= MaxAlloc
    PROVE  /\ Announced(n, w) \in Seq(C)
           /\ \E k \in Nat : /\ Past(Announced(n, w), k) = w
                             /\ ArrayOutcome(1, Announced(n, w))
                                  = IF n = 0 THEN Takes(k, Node("array", <<>>, 0)) ELSE Begins(k, n)
<1>l. n \in 0 .. LLONG_MAX
    BY RespAssumption, ReaderAssumption
<1>x. PICK x : x = sdsll2str(n)
    OBVIOUS
<1>u. PICK u : u = Announced(n, w)
    OBVIOUS
<1>1. /\ x \in Seq(C) /\ u \in Seq(C) /\ Len(u) = Len(x) + 2 + Len(w)
      /\ seekNewline(u) = Len(x) + 1
      /\ string2ll(SubSeq(u, 1, Len(x))) = [ok |-> TRUE, value |-> n]
      /\ Past(u, Len(x) + 2) = w
    <2>1. LET z == sdsll2str(n)
              v == z \o (CRLF \o w)
          IN  /\ z \in Seq(C) /\ v \in Seq(C) /\ Len(v) = Len(z) + 2 + Len(w)
              /\ seekNewline(v) = Len(z) + 1
              /\ string2ll(SubSeq(v, 1, Len(z))) = [ok |-> TRUE, value |-> n]
              /\ Past(v, Len(z) + 2) = w
        BY <1>l, NumberLine DEF Wired
    <2>2. u = x \o (CRLF \o w)
        BY <1>x, <1>u DEF Announced
    <2> QED
        BY <1>x, <2>1, <2>2
<1>m. PICK m \in Nat : m = Len(x) + 1
    BY <1>1
<1>2. m # 0 /\ m - 1 = Len(x) /\ m + 1 = Len(x) + 2
    BY <1>1, <1>m
<1>3. seekNewline(u) = m /\ string2ll(SubSeq(u, 1, m - 1)) = [ok |-> TRUE, value |-> n]
      /\ Past(u, m + 1) = w
    BY <1>1, <1>2, <1>m
<1>4. PICK v : v = string2ll(SubSeq(u, 1, m - 1)) /\ v.ok /\ v.value = n
    BY <1>3
<1>5. ArrayOutcome(1, u) =
          IF 1 = StackSize THEN Fails_("protocol")
          ELSE IF m = 0 THEN Waits
          ELSE IF ~v.ok \/ v.value < -1 \/ v.value > INT_MAX THEN Fails_("protocol")
          ELSE IF v.value = -1 THEN Takes(m + 1, Node("nil", <<>>, 0))
          ELSE IF v.value > MaxAlloc THEN Fails_("oom")
          ELSE IF v.value = 0 THEN Takes(m + 1, Node("array", <<>>, 0))
          ELSE Begins(m + 1, v.value)
    BY <1>3, <1>4 DEF ArrayOutcome
<1>6. ~(n < -1) /\ ~(n > INT_MAX) /\ n # -1 /\ ~(n > MaxAlloc) /\ 1 # StackSize
    BY ReaderAssumption
<1>7. ArrayOutcome(1, u) = IF n = 0 THEN Takes(m + 1, Node("array", <<>>, 0)) ELSE Begins(m + 1, n)
    BY <1>2, <1>4, <1>5, <1>6
<1> QED
    BY <1>u, <1>1, <1>3, <1>7

LEMMA PartialNone ==
    ASSUME NEW argv, NEW p, p = <<>>
    PROVE  Linked(NoReply, p, Node("array", <<>>, Len(argv))) = Partial(argv, 0)
<1>1. DOMAIN NoReply = {}
    BY DEF NoReply
<1>2. {} \cup {p} = {<<>>} \cup {<<j - 1>> : j \in 1 .. 0}
    <2>1. {<<j - 1>> : j \in 1 .. 0} = {}
        OBVIOUS
    <2> QED
        BY <2>1
<1> QED
    BY <1>1, <1>2 DEF Linked, Partial

LEMMA RootDone ==
    ASSUME NEW n \in Nat, NEW t, t = <<[type |-> "array", elements |-> -1, idx |-> -1]>>
    PROVE  /\ Popped(t) = <<>> /\ Deeper(t, n) = Stack(n, 0)
           /\ \A reply, node : Grown(t, reply, node) = Linked(reply, <<>>, node)
<1>1. Len(t) = 1 /\ t[1] = [type |-> "array", elements |-> -1, idx |-> -1]
    OBVIOUS
<1>2. Popped(t) = <<>>
    BY <1>1 DEF Popped
<1>3. [j \in 1 .. Len(t) - 1 |-> t[j + 1].idx] = <<>>
    BY <1>1
<1>4. Deeper(t, n) = Stack(n, 0)
    <2>1. [t EXCEPT ![1].elements = n] = <<[type |-> "array", elements |-> n, idx |-> -1]>>
        OBVIOUS
    <2>2. [RootTask EXCEPT !.idx = 0] = Element(0)
        BY DEF RootTask, Element
    <2>3. ASSUME NEW a, NEW c
          PROVE  Append(<<a>>, c) = <<a, c>>
        <3>1. a \in {a, c} /\ c \in {a, c}
            OBVIOUS
        <3> QED
            BY <3>1, AppendOne
    <2> QED
        BY <1>1, <2>1, <2>2, <2>3 DEF Deeper, Stack
<1> QED
    BY <1>2, <1>3, <1>4 DEF Grown

LEMMA ArrayItem ==
    ASSUME NEW C, Wired(C), NEW w \in Seq(C), StackSize # 1,
           NEW argv, NEW n \in Nat, n = Len(argv), n <= INT_MAX, n <= MaxAlloc
    PROVE  Item(<<RootTask>>, NoReply, <<"*">> \o Announced(n, w))
             = Go(IF n = 0 THEN <<>> ELSE Stack(n, 0), Partial(argv, 0), w)
<1>v. PICK v \in Seq(C), k \in Nat :
          /\ v = Announced(n, w) /\ Past(v, k) = w
          /\ ArrayOutcome(1, v) = IF n = 0 THEN Takes(k, Node("array", <<>>, 0)) ELSE Begins(k, n)
    BY ArrayTaken
<1>u. PICK u : u = <<"*">> \o v
    OBVIOUS
<1>2. u # <<>> /\ u[1] = "*" /\ Past(u, 1) = v
    <2>1. <<"*">> \in Seq(C) /\ Len(<<"*">>) = 1 /\ <<"*">>[1] = "*"
        BY OneIs DEF Wired
    <2>2. PICK d \in Seq(C) : d = <<"*">> /\ Len(d) = 1 /\ d[1] = "*"
        BY <2>1
    <2>3. d \o v \in Seq(C) /\ Len(d \o v) = Len(d) + Len(v) /\ Past(d \o v, Len(d)) = v
          /\ \A j \in 1 .. Len(d) : (d \o v)[j] = d[j]
        BY JoinedFacts
    <2>4. Len(v) \in Nat /\ 1 \in 1 .. Len(d)
        BY <2>2
    <2> QED
        BY <1>u, <2>2, <2>3, <2>4
<1>3. u[1] \in DOMAIN TypeOf /\ TypeOf[u[1]] = "array"
    BY <1>2 DEF TypeOf
<1>s. PICK b : b = <<RootTask>>
    OBVIOUS
<1>4. Len(b) = 1 /\ b[1].type = Unknown
    BY <1>s DEF RootTask
<1>t. PICK t : t = <<[type |-> "array", elements |-> -1, idx |-> -1]>>
    OBVIOUS
<1>5. WithType(b, "array") = t
    BY <1>4, <1>s, <1>t DEF WithType, RootTask
<1>6. Item(b, NoReply, u) = TypedItem(t, NoReply, v)
    BY <1>2, <1>3, <1>4, <1>5 DEF Item
<1>7. Len(t) = 1 /\ t[1].type = "array"
    BY <1>t
<1>8. TypedItem(t, NoReply, v) = Outcomes(t, NoReply, v, ArrayOutcome(1, v))
    BY <1>7 DEF TypedItem, ItemOutcome
<1>9. /\ Popped(t) = <<>> /\ Deeper(t, n) = Stack(n, 0)
      /\ Grown(t, NoReply, Node("array", <<>>, n)) = Partial(argv, 0)
    <2>1. /\ Popped(t) = <<>> /\ Deeper(t, n) = Stack(n, 0)
          /\ Grown(t, NoReply, Node("array", <<>>, n)) = Linked(NoReply, <<>>, Node("array", <<>>, n))
        BY <1>t, RootDone
    <2>2. Linked(NoReply, <<>>, Node("array", <<>>, n)) = Partial(argv, 0)
        BY PartialNone
    <2> QED
        BY <2>1, <2>2
<1>10. CASE n = 0
    <2>1. Outcomes(t, NoReply, v, Takes(k, Node("array", <<>>, n)))
            = Go(Popped(t), Grown(t, NoReply, Node("array", <<>>, n)), w)
        BY <1>v DEF Outcomes, Takes
    <2> QED
        BY <1>v, <1>u, <1>s, <1>6, <1>8, <1>9, <1>10, <2>1
<1>11. CASE n # 0
    <2>1. Outcomes(t, NoReply, v, Begins(k, n))
            = Go(Deeper(t, n), Grown(t, NoReply, Node("array", <<>>, n)), w)
        BY <1>v DEF Outcomes, Begins
    <2> QED
        BY <1>v, <1>u, <1>s, <1>6, <1>8, <1>9, <1>11, <2>1
<1> QED
    BY <1>10, <1>11

(* The loop of the reader after i arguments. *)
Reached(argv, W, i) ==
    Go(IF i = Len(argv) THEN <<>> ELSE Stack(Len(argv), i), Partial(argv, i), W[i])

LEMMA AllRead ==
    ASSUME NEW C, Wired(C), NEW argv \in Seq(Seq(C)), StackSize # 1,
           Len(argv) <= INT_MAX, Len(argv) <= MaxAlloc,
           \A i \in DOMAIN argv : Len(argv[i]) <= MaxAlloc /\ Len(argv[i]) <= LLONG_MAX,
           NEW W \in [0 .. Len(argv) -> Seq(C)], Rest(argv, W)
    PROVE  Same(Go(<<RootTask>>, NoReply, <<"*">> \o Announced(Len(argv), W[0])),
                Reached(argv, W, Len(argv)))
<1>n. PICK n \in Nat : n = Len(argv)
    OBVIOUS
<1>x. PICK x : x = Go(<<RootTask>>, NoReply, <<"*">> \o Announced(n, W[0]))
    OBVIOUS
<1>1. Same(x, Reached(argv, W, 0))
    <2>1. W[0] \in Seq(C) /\ n <= INT_MAX /\ n <= MaxAlloc
        BY <1>n
    <2>2. Item(<<RootTask>>, NoReply, <<"*">> \o Announced(n, W[0]))
            = Go(IF n = 0 THEN <<>> ELSE Stack(n, 0), Partial(argv, 0), W[0])
        BY <1>n, <2>1, ArrayItem
    <2>3. Item(<<RootTask>>, NoReply, <<"*">> \o Announced(n, W[0])) = Reached(argv, W, 0)
        BY <1>n, <2>2 DEF Reached
    <2> QED
        BY <1>x, <2>3, RootFacts, GoMore
<1>2. ASSUME NEW i \in 0 .. n - 1
      PROVE  Same(Reached(argv, W, i), Reached(argv, W, i + 1))
    <2>1. /\ i + 1 \in 1 .. n /\ i \in 0 .. n /\ i + 1 \in 0 .. n /\ i \in Nat /\ i # n
          /\ n \in Nat \ {0} /\ (i = n - 1 <=> i + 1 = n)
        OBVIOUS
    <2>a. PICK arg \in Seq(C) : arg = argv[i + 1] /\ Len(arg) <= MaxAlloc /\ Len(arg) <= LLONG_MAX
        <3>1. i + 1 \in DOMAIN argv
            BY <1>n, <2>1
        <3>2. argv[i + 1] \in Seq(C)
            BY <3>1
        <3> QED
            BY <3>1, <3>2
    <2>w. PICK w \in Seq(C) : w = W[i + 1]
        BY <1>n, <2>1
    <2>2. W[i] = Bulk(arg) \o w
        BY <1>n, <2>a, <2>w DEF Rest
    <2>3. Item(Stack(n, i), Partial(argv, i), Bulk(arg) \o w)
            = Go(IF i = n - 1 THEN <<>> ELSE Stack(n, i + 1),
                 Linked(Partial(argv, i), <<i>>, Node("string", arg, 0)), w)
        BY <2>1, <2>a, BulkItem
    <2>4. Linked(Partial(argv, i), <<i>>, Node("string", arg, 0)) = Partial(argv, i + 1)
        BY <2>1, <2>a, PartialGrows
    <2>5. Item(Stack(n, i), Partial(argv, i), W[i]) = Reached(argv, W, i + 1)
        BY <1>n, <2>1, <2>2, <2>3, <2>4, <2>w DEF Reached
    <2>6. Reached(argv, W, i) = Go(Stack(n, i), Partial(argv, i), W[i])
        BY <1>n, <2>1 DEF Reached
    <2>7. Stack(n, i) # <<>>
        BY DEF Stack
    <2> QED
        BY <2>5, <2>6, <2>7, GoMore
<1> DEFINE T == {i \in Nat : i <= n => Same(x, Reached(argv, W, i))}
<1>3. 0 \in T
    BY <1>1
<1>4. ASSUME NEW i \in T
      PROVE  i + 1 \in T
    <2>1. SUFFICES ASSUME i + 1 <= n
                   PROVE  Same(x, Reached(argv, W, i + 1))
        OBVIOUS
    <2>2. i \in 0 .. n - 1 /\ i <= n
        BY <2>1
    <2>3. Same(x, Reached(argv, W, i))
        BY <2>2
    <2> QED
        BY <1>2, <2>2, <2>3, SameTrans
<1> HIDE DEF T
<1>5. T \in SUBSET Nat
    BY DEF T
<1>6. n \in T
    BY <1>3, <1>4, <1>5, Induction
<1>7. Same(x, Reached(argv, W, n))
    BY <1>6 DEF T
<1> QED
    BY <1>n, <1>x, <1>7

LEMMA SameEnds ==
    ASSUME NEW x, NEW y, Same(x, y), AtRest(y)
    PROVE  Stops(x, y)
<1>1. Stops(y, y)
    BY EndsAtRest
<1> QED
    BY <1>1 DEF Same

-----------------------------------------------------------------------------
(* The length that is announced *)

Size(n) == Len(Numeral(n))

LEMMA SizeFacts ==
    ASSUME NEW n \in Nat
    PROVE  /\ Size(n) \in Nat
           /\ n < 10 => Size(n) = 1
           /\ n >= 10 => Size(n) = Size(n \div 10) + 1
<1>1. /\ Numeral(n) \in Seq(DigitSet)
      /\ n < 10 => Numeral(n) = <<LastDigit(n)>>
      /\ n >= 10 => Numeral(n) = Numeral(n \div 10) \o <<LastDigit(n)>>
    BY NumeralFacts
<1>2. n < 10 => Size(n) = 1
    BY <1>1 DEF Size
<1>3. ASSUME n >= 10
      PROVE  Size(n) = Size(n \div 10) + 1
    <2>m. PICK m \in Nat : m = n \div 10
        BY TenFacts
    <2>q. PICK q \in Seq(DigitSet) : q = Numeral(m)
        BY NumeralFacts
    <2>c. PICK c \in DigitSet : c = LastDigit(n)
        BY LastFacts
    <2>1. Len(q \o <<c>>) = Len(q) + 1
        OBVIOUS
    <2> QED
        BY <1>1, <1>3, <2>m, <2>q, <2>c, <2>1 DEF Size
<1>4. Size(n) \in Nat
    <2>q. PICK q \in Seq(DigitSet) : q = Numeral(n)
        BY <1>1
    <2>1. Len(q) \in Nat
        OBVIOUS
    <2> QED
        BY <2>q, <2>1 DEF Size
<1> QED
    BY <1>2, <1>3, <1>4

LEMMA FourDigits ==
    ASSUME NEW n \in Nat
    PROVE  /\ n >= 10 /\ n < 100 => Size(n) = 2
           /\ n >= 100 /\ n < 1000 => Size(n) = 3
           /\ n >= 1000 /\ n < 10000 => Size(n) = 4
           /\ n >= 10000 => Size(n) = Size(n \div 10000) + 4
<1>a. PICK a \in Nat : a = n \div 10 /\ 10 * a <= n /\ n < 10 * a + 10
    BY TenFacts
<1>b. PICK b \in Nat : b = a \div 10 /\ 10 * b <= a /\ a < 10 * b + 10
    BY TenFacts
<1>c. PICK c \in Nat : c = b \div 10 /\ 10 * c <= b /\ b < 10 * c + 10
    BY TenFacts
<1>d. PICK d \in Nat : d = c \div 10 /\ 10 * d <= c /\ c < 10 * d + 10
    BY TenFacts
<1>1. ASSUME n >= 10
      PROVE  Size(n) = Size(a) + 1
    BY <1>1, <1>a, SizeFacts
<1>2. /\ a < 10 => Size(a) = 1
      /\ a >= 10 => Size(a) = Size(b) + 1
    BY <1>b, SizeFacts
<1>3. /\ b < 10 => Size(b) = 1
      /\ b >= 10 => Size(b) = Size(c) + 1
    BY <1>c, SizeFacts
<1>4. /\ c < 10 => Size(c) = 1
      /\ c >= 10 => Size(c) = Size(d) + 1
    BY <1>d, SizeFacts
<1>5. PICK size \in Nat : size = Size(d)
    BY SizeFacts
<1>6. ASSUME n >= 10, n < 100
      PROVE  Size(n) = 2
    <2>1. a < 10
        BY <1>6, <1>a
    <2> QED
        BY <1>6, <1>1, <1>2, <2>1
<1>7. ASSUME n >= 100, n < 1000
      PROVE  Size(n) = 3
    <2>1. n >= 10 /\ a >= 10 /\ a < 100
        BY <1>7, <1>a
    <2>2. b < 10
        BY <2>1, <1>b
    <2>3. Size(n) = Size(a) + 1 /\ Size(a) = Size(b) + 1 /\ Size(b) = 1
        BY <1>1, <1>2, <1>3, <2>1, <2>2
    <2> QED
        BY <2>3
<1>8. ASSUME n >= 1000, n < 10000
      PROVE  Size(n) = 4
    <2>1. n >= 10 /\ a >= 100 /\ a < 1000
        BY <1>8, <1>a
    <2>2. a >= 10 /\ b >= 10 /\ b < 100
        BY <2>1, <1>b
    <2>3. c < 10
        BY <2>2, <1>c
    <2>4. /\ Size(n) = Size(a) + 1 /\ Size(a) = Size(b) + 1 /\ Size(b) = Size(c) + 1
          /\ Size(c) = 1
        BY <1>1, <1>2, <1>3, <1>4, <2>1, <2>2, <2>3
    <2> QED
        BY <2>4
<1>9. ASSUME n >= 10000
      PROVE  Size(n) = Size(n \div 10000) + 4
    <2>1. n >= 10 /\ a >= 1000
        BY <1>9, <1>a
    <2>2. a >= 10 /\ b >= 100
        BY <2>1, <1>b
    <2>3. b >= 10 /\ c >= 10
        BY <2>2, <1>c
    <2>4. /\ Size(n) = Size(a) + 1 /\ Size(a) = Size(b) + 1 /\ Size(b) = Size(c) + 1
          /\ Size(c) = size + 1
        BY <1>1, <1>2, <1>3, <1>4, <1>5, <2>1, <2>2, <2>3
    <2>5. 10000 * d <= n /\ n < 10000 * d + 10000
        BY <1>a, <1>b, <1>c, <1>d
    <2>6. n \div 10000 = d
        BY <2>5
    <2> QED
        BY <1>5, <2>4, <2>6
<1> QED
    BY <1>6, <1>7, <1>8, <1>9

(* countDigits tells how long a numeral is. *)
LEMMA CountIs == \A n \in Nat : countDigits[n] = Size(n)
<1> DEFINE Value_(v, f) == IF v < 10 THEN 1 ELSE IF v < 100 THEN 2 ELSE IF v < 1000 THEN 3
                           ELSE IF v < 10000 THEN 4 ELSE f[v \div 10000] + 4
           Def(f) == [v \in Nat |-> Value_(v, f)]
<1>0. \A v \in Nat : v >= 10000 => v \div 10000 \in Nat /\ v \div 10000 < v
    OBVIOUS
<1>1. \E f : f = Def(f)
    <2> DEFINE g == [v \in Nat |-> Size(v)]
    <2>1. ASSUME NEW v \in Nat
          PROVE  Size(v) = Value_(v, g)
        BY <1>0, SizeFacts, FourDigits
    <2>2. \A v \in Nat : g[v] = Value_(v, g)
        BY <2>1
    <2>f. PICK f : f = g
        OBVIOUS
    <2>g. f = [v \in Nat |-> f[v]]
        BY <2>f
    <2> HIDE DEF g, Value_
    <2>3. \A v \in Nat : f[v] = Value_(v, f)
        BY <2>2, <2>f
    <2>4. f = Def(f)
        BY <2>3, <2>g
    <2> QED
        BY <2>4
<1>2. countDigits = CHOOSE f : f = Def(f)
    BY DEF countDigits
<1>f. PICK f : f = countDigits /\ f = Def(f)
    BY <1>1, <1>2
<1>3. \A v \in Nat : f[v] = Value_(v, f)
    BY <1>f
<1> DEFINE T == {v \in Nat : f[v] = Size(v)}
<1>4. ASSUME NEW v \in Nat, \A m \in Nat : m < v => m \in T
      PROVE  v \in T
    <2>1. f[v] = Value_(v, f)
        BY <1>3
    <2>2. v >= 10000 => f[v \div 10000] = Size(v \div 10000)
        BY <1>0, <1>4
    <2>3. Size(v) = Value_(v, f)
        BY <2>2, SizeFacts, FourDigits
    <2> QED
        BY <2>1, <2>3
<1> HIDE DEF T
<1>5. T \in SUBSET Nat
    BY DEF T
<1>6. \A v \in Nat : v \in T
    BY <1>4, <1>5, StrongInduction
<1> QED
    BY <1>f, <1>6 DEF T

LEMMA NumberSize ==
    ASSUME NEW n \in Nat
    PROVE  /\ sdsll2str(n) \in Seq(DigitSet) /\ Len(sdsll2str(n)) = countDigits[n]
           /\ countDigits[n] \in Nat
<1>1. n \in Int /\ n >= 0
    OBVIOUS
<1>2. sdsll2str(n) = Numeral(n)
    BY <1>1, WrittenIs
<1>3. Numeral(n) \in Seq(DigitSet)
    BY NumeralFacts
<1>4. countDigits[n] = Size(n) /\ Size(n) \in Nat
    BY CountIs, SizeFacts
<1> QED
    BY <1>2, <1>3, <1>4 DEF Size

(* A line of n, and what follows it. *)
LEMMA AnnouncedSize ==
    ASSUME NEW C, Wired(C), NEW n \in Nat, NEW w \in Seq(C)
    PROVE  Announced(n, w) \in Seq(C) /\ Len(Announced(n, w)) = countDigits[n] + 2 + Len(w)
<1>v. PICK v \in Seq(C) : v = CRLF \o w /\ Len(v) = 2 + Len(w)
    BY CrLf DEF Wired
<1>x. PICK x \in Seq(C) : x = sdsll2str(n) /\ Len(x) = countDigits[n]
    <2>1. sdsll2str(n) \in Seq(C)
        BY NumberSize, Wider DEF Wired
    <2> QED
        BY <2>1, NumberSize
<1>1. x \o v \in Seq(C) /\ Len(x \o v) = Len(x) + Len(v)
    BY JoinedFacts
<1>2. Announced(n, w) = x \o v
    BY <1>v, <1>x DEF Announced
<1>c. PICK c \in Nat : c = countDigits[n]
    BY NumberSize
<1>3. Len(w) \in Nat
    OBVIOUS
<1>4. Len(x) + Len(v) = c + 2 + Len(w)
    BY <1>v, <1>x, <1>c, <1>3
<1> QED
    BY <1>1, <1>2, <1>4, <1>c

LEMMA MarkSize ==
    ASSUME NEW C, NEW c \in C, NEW v \in Seq(C)
    PROVE  <<c>> \o v \in Seq(C) /\ Len(<<c>> \o v) = 1 + Len(v)
OBVIOUS

(* bulklen is the size of an argument on the wire. *)
LEMMA BulkSize ==
    ASSUME NEW C, Wired(C), NEW arg \in Seq(C), NEW w \in Seq(C)
    PROVE  /\ bulklen(Len(arg)) \in Nat
           /\ Len(Bulk(arg) \o w) = bulklen(Len(arg)) + Len(w)
<1>l. PICK l \in Nat : l = Len(arg)
    OBVIOUS
<1>v. PICK v \in Seq(C) : v = CRLF \o w /\ Len(v) = 2 + Len(w)
    BY CrLf DEF Wired
<1>y. PICK y \in Seq(C) : y = arg \o v /\ Len(y) = Len(arg) + Len(v)
    BY JoinedFacts
<1>u. PICK u \in Seq(C) : u = Announced(l, y) /\ Len(u) = countDigits[l] + 2 + Len(y)
    BY AnnouncedSize
<1>1. Sized(arg, w) = u
    BY <1>l, <1>v, <1>y, <1>u DEF Sized, Announced
<1>2. Len(<<"$">> \o u) = 1 + Len(u)
    BY MarkSize DEF Wired
<1>3. Bulk(arg) \o w = <<"$">> \o u
    BY <1>1, BulkIs
<1>c. PICK c \in Nat : c = countDigits[l]
    BY NumberSize
<1>m. PICK m \in Nat : m = Len(w)
    OBVIOUS
<1>4. Len(u) = c + 2 + Len(y) /\ Len(y) = l + Len(v) /\ Len(v) = 2 + m
    BY <1>l, <1>v, <1>y, <1>u, <1>c, <1>m
<1>5. 1 + Len(u) = (1 + c + 2 + l + 2) + m /\ 1 + c + 2 + l + 2 \in Nat
    BY <1>4
<1>6. bulklen(Len(arg)) = 1 + c + 2 + l + 2
    BY <1>l, <1>c DEF bulklen
<1> QED
    BY <1>2, <1>3, <1>5, <1>6, <1>m

(* The length that is announced is the length of what is written. *)
LEMMA TotlenIs ==
    ASSUME NEW C, Wired(C), NEW argv \in Seq(Seq(C)), NEW W \in [0 .. Len(argv) -> Seq(C)],
           Rest(argv, W)
    PROVE  /\ totlen(argv) \in Nat
           /\ totlen(argv) = Len(<<"*">> \o Announced(Len(argv), W[0]))
<1>n. PICK n \in Nat : n = Len(argv)
    OBVIOUS
<1>b. PICK base \in Nat : base = 1 + countDigits[n] + 2
    <2>1. countDigits[n] \in Nat
        BY NumberSize
    <2> QED
        BY <2>1
<1> DEFINE add == [i \in 1 .. n |-> bulklen(Len(argv[i]))]
           G == [i \in 1 .. n |-> [m \in Nat |-> m + add[i]]]
           Def(f) == [i \in 0 .. n |-> IF i = 0 THEN 1 + countDigits[n] + 2
                                       ELSE f[i - 1] + bulklen(Len(argv[i]))]
           len == CHOOSE f : f = Def(f)
<1>1. \A i \in 1 .. n : argv[i] \in Seq(C) /\ add[i] = bulklen(Len(argv[i])) /\ add[i] \in Nat
    <2> TAKE i \in 1 .. n
    <2>a. PICK arg \in Seq(C) : arg = argv[i]
        BY <1>n
    <2>1. <<>> \in Seq(C)
        OBVIOUS
    <2>2. bulklen(Len(arg)) \in Nat
        BY <2>1, BulkSize
    <2> QED
        BY <2>a, <2>2
<1> HIDE DEF add
<1>2. G \in [1 .. n -> [Nat -> Nat]]
    BY <1>1
<1>3. \A i \in 1 .. n, m \in Nat : G[i][m] = m + add[i]
    OBVIOUS
<1> HIDE DEF G
<1>h. PICK h : Recursive(h, n, Nat, base, G)
    BY <1>2, Recursion
<1>4. h \in [0 .. n -> Nat] /\ h[0] = base /\ \A i \in 1 .. n : h[i] = h[i - 1] + add[i]
    <2>1. h \in [0 .. n -> Nat] /\ h[0] = base /\ \A i \in 1 .. n : h[i] = G[i][h[i - 1]]
        BY <1>h DEF Recursive
    <2>2. ASSUME NEW i \in 1 .. n
          PROVE  h[i] = h[i - 1] + add[i]
        <3>1. i - 1 \in 0 .. n
            OBVIOUS
        <3>2. h[i - 1] \in Nat
            BY <2>1, <3>1
        <3> QED
            BY <1>3, <2>1, <3>2
    <2> QED
        BY <2>1, <2>2
<1>5. len = Def(len)
    <2>1. h = [i \in 0 .. n |-> h[i]]
        BY <1>4
    <2>2. ASSUME NEW i \in 0 .. n
          PROVE  h[i] = IF i = 0 THEN 1 + countDigits[n] + 2
                        ELSE h[i - 1] + bulklen(Len(argv[i]))
        <3>1. CASE i = 0
            BY <1>4, <1>b, <3>1
        <3>2. CASE i # 0
            <4>1. i \in 1 .. n
                BY <3>2
            <4> QED
                BY <1>1, <1>4, <3>2, <4>1
        <3> QED
            BY <3>1, <3>2
    <2>3. h = Def(h)
        BY <2>1, <2>2
    <2> HIDE DEF Def
    <2> QED
        BY <2>3
<1>6. \A i \in 0 .. n : len[i] = IF i = 0 THEN 1 + countDigits[n] + 2
                                 ELSE len[i - 1] + bulklen(Len(argv[i]))
    BY <1>5
<1>7. totlen(argv) = len[n]
    BY <1>n DEF totlen
<1> HIDE DEF len, Def
<1>8. len[0] = base /\ \A i \in 1 .. n : len[i] = len[i - 1] + add[i]
    <2>1. 0 \in 0 .. n
        OBVIOUS
    <2>2. ASSUME NEW i \in 1 .. n
          PROVE  len[i] = len[i - 1] + add[i]
        <3>1. i \in 0 .. n /\ i # 0
            OBVIOUS
        <3> QED
            BY <1>1, <1>6, <3>1
    <2> QED
        BY <1>6, <1>b, <2>1, <2>2
<1> DEFINE left == [i \in 0 .. n |-> Len(W[i])]
<1>9. \A i \in 0 .. n : left[i] \in Nat /\ left[i] = Len(W[i])
    BY <1>n
<1> HIDE DEF left
<1>10. \A i \in 1 .. n : left[i - 1] = add[i] + left[i]
    <2> TAKE i \in 1 .. n
    <2>0. i \in 0 .. n /\ i - 1 \in 0 .. n /\ i - 1 \in 0 .. n - 1 /\ (i - 1) + 1 = i
        OBVIOUS
    <2>w. PICK w \in Seq(C) : w = W[i]
        BY <1>n, <2>0
    <2>a. PICK arg \in Seq(C) : arg = argv[i]
        BY <1>1
    <2>1. W[i - 1] = Bulk(arg) \o w
        BY <1>n, <2>0, <2>w, <2>a DEF Rest
    <2>2. Len(W[i - 1]) = bulklen(Len(arg)) + Len(w)
        BY <2>1, BulkSize
    <2> QED
        BY <1>1, <1>9, <2>0, <2>2, <2>w, <2>a
<1> DEFINE T == {i \in Nat : i <= n => len[i] \in Nat /\ len[i] + left[i] = base + left[0]}
<1>11. 0 \in T
    <2>1. left[0] \in Nat
        BY <1>9
    <2> QED
        BY <1>8, <2>1
<1>12. ASSUME NEW i \in T
       PROVE  i + 1 \in T
    <2>1. SUFFICES ASSUME i + 1 <= n
                   PROVE  len[i + 1] \in Nat /\ len[i + 1] + left[i + 1] = base + left[0]
        OBVIOUS
    <2>2. i + 1 \in 1 .. n /\ (i + 1) - 1 = i /\ i \in 0 .. n /\ i + 1 \in 0 .. n /\ 0 \in 0 .. n
          /\ i <= n
        BY <2>1
    <2>3. len[i] \in Nat /\ len[i] + left[i] = base + left[0]
        BY <2>2
    <2>4. len[i + 1] = len[i] + add[i + 1]
        BY <1>8, <2>2
    <2>5. left[i] = add[i + 1] + left[i + 1]
        BY <1>10, <2>2
    <2>6. left[i] \in Nat /\ left[i + 1] \in Nat /\ left[0] \in Nat /\ add[i + 1] \in Nat
        BY <1>1, <1>9, <2>2
    <2> QED
        BY <2>3, <2>4, <2>5, <2>6, SMTT(30)
<1> HIDE DEF T
<1>13. T \in SUBSET Nat
    BY DEF T
<1>14. n \in T
    BY <1>11, <1>12, <1>13, Induction
<1>15. len[n] \in Nat /\ len[n] + left[n] = base + left[0]
    BY <1>14 DEF T
<1>16. left[n] = 0
    <2>1. W[n] = <<>> /\ n \in 0 .. n
        BY <1>n DEF Rest
    <2> QED
        BY <1>9, <2>1
<1>17. Len(<<"*">> \o Announced(n, W[0])) = base + left[0]
    <2>w. PICK w \in Seq(C) : w = W[0]
        BY <1>n
    <2>u. PICK u \in Seq(C) : u = Announced(n, w) /\ Len(u) = countDigits[n] + 2 + Len(w)
        BY AnnouncedSize
    <2>1. Len(<<"*">> \o u) = 1 + Len(u)
        BY MarkSize DEF Wired
    <2>c. PICK c \in Nat : c = countDigits[n]
        BY NumberSize
    <2>2. left[0] = Len(w) /\ Len(w) \in Nat
        BY <1>9, <2>w
    <2> QED
        BY <1>b, <2>w, <2>u, <2>c, <2>1, <2>2, SMTT(30)
<1>18. len[n] = base + left[0]
    <2>1. left[0] \in Nat
        BY <1>9
    <2> QED
        BY <1>15, <1>16, <2>1
<1> QED
    BY <1>n, <1>7, <1>15, <1>17, <1>18

(* What is written, as the reader takes it. *)
LEMMA MultiBulkIs ==
    ASSUME NEW C, Wired(C), NEW argv \in Seq(Seq(C)), NEW W \in [0 .. Len(argv) -> Seq(C)],
           Rest(argv, W)
    PROVE  MultiBulk(argv) = <<"*">> \o Announced(Len(argv), W[0])
<1>n. PICK n \in Nat : n = Len(argv)
    OBVIOUS
<1> DEFINE q == [i \in DOMAIN argv |-> Bulk(argv[i])]
<1>1. DOMAIN argv = 1 .. n
    BY <1>n
<1>2. \A i \in 1 .. n : argv[i] \in Seq(C)
    BY <1>n
<1>3. q \in Seq(Seq(C)) /\ Len(q) = n /\ \A i \in 1 .. n : q[i] = Bulk(argv[i])
    <2>1. ASSUME NEW i \in 1 .. n
          PROVE  Bulk(argv[i]) \in Seq(C)
        <3>1. <<>> \in Seq(C)
            OBVIOUS
        <3> QED
            BY <1>2, <3>1, BulkIs
    <2>2. q = [i \in 1 .. n |-> Bulk(argv[i])]
        BY <1>1
    <2> HIDE DEF q
    <2>3. q \in [1 .. n -> Seq(C)]
        BY <2>1, <2>2
    <2> QED
        BY <2>2, <2>3, AsText
<1>4. MultiBulk(argv) = <<"*">> \o sdsll2str(n) \o CRLF \o FlattenSeq(q)
    BY <1>n DEF MultiBulk, Bulk
<1> HIDE DEF q
<1>5. FlattenSeq(q) = W[0]
    <2>0. W \in [0 .. Len(q) -> Seq(C)]
        BY <1>n, <1>3
    <2>1. W[Len(q)] = <<>>
        BY <1>n, <1>3 DEF Rest
    <2>2. ASSUME NEW i \in 0 .. Len(q) - 1
          PROVE  W[i] = q[i + 1] \o W[i + 1]
        <3>1. i \in 0 .. n - 1 /\ i + 1 \in 1 .. n
            BY <1>3
        <3>2. W[i] = Bulk(argv[i + 1]) \o W[i + 1]
            BY <1>n, <3>1 DEF Rest
        <3> QED
            BY <1>3, <3>1, <3>2
    <2> QED
        BY <1>3, <2>0, <2>1, <2>2, FlattenIs
<1>w. PICK w \in Seq(C) : w = W[0]
    BY <1>n
<1>d. PICK d \in Seq(C) : d = <<"*">>
    <2>1. <<"*">> \in Seq(C)
        BY OneIs DEF Wired
    <2> QED
        BY <2>1
<1>x. PICK x \in Seq(C) : x = sdsll2str(n)
    <2>1. sdsll2str(n) \in Seq(C)
        BY NumberSize, Wider DEF Wired
    <2> QED
        BY <2>1
<1>e. PICK e \in Seq(C) : e = CRLF
    BY CrLf DEF Wired
<1>6. Glue(Glue(Glue(d, x), e), w) = Glue(d, Glue(x, Glue(e, w)))
    <2>1. Glue(d, x) \in Seq(C) /\ Glue(e, w) \in Seq(C)
        BY GlueFacts
    <2>2. Glue(Glue(Glue(d, x), e), w) = Glue(Glue(d, x), Glue(e, w))
        BY <2>1, GlueFacts
    <2>3. Glue(Glue(d, x), Glue(e, w)) = Glue(d, Glue(x, Glue(e, w)))
        BY <2>1, GlueFacts
    <2> QED
        BY <2>2, <2>3
<1>7. MultiBulk(argv) = d \o x \o e \o w
    BY <1>4, <1>5, <1>w, <1>d, <1>x, <1>e
<1>8. <<"*">> \o Announced(n, W[0]) = d \o (x \o (e \o w))
    BY <1>w, <1>d, <1>x, <1>e DEF Announced
<1>9. d \o x \o e \o w = d \o (x \o (e \o w))
    BY <1>6, Zenon DEF Glue
<1> QED
    BY <1>n, <1>7, <1>8, <1>9

LEMMA AsReplyIs ==
    ASSUME NEW S, NEW argv \in Seq(S)
    PROVE  AsReply(argv) = Partial(argv, Len(argv))
<1>1. DOMAIN argv = 1 .. Len(argv)
    OBVIOUS
<1> QED
    BY <1>1 DEF AsReply, Partial

(* The arguments that a reader can take: no longer than its limits.        *)
Takeable(argv) ==
    /\ Len(argv) <= INT_MAX /\ Len(argv) <= MaxAlloc
    /\ \A i \in DOMAIN argv : Len(argv[i]) <= MaxAlloc /\ Len(argv[i]) <= LLONG_MAX

LEMMA FedStarts ==
    ASSUME NEW C, NEW r, IsReader(r, C), r.err = "none", NEW w \in Seq(C), w # <<>>,
           NEW stack, NEW reply, NEW u, Started(r) = Go(stack, reply, u)
    PROVE  /\ IsReader(redisReaderFeed(r, w), C) /\ redisReaderFeed(r, w).err = "none"
           /\ Started(redisReaderFeed(r, w)) = Go(stack, reply, u \o w)
BY FedFacts

LEMMA FedNew ==
    ASSUME NEW C, NEW w \in Seq(C), w # <<>>
    PROVE  /\ IsReader(redisReaderFeed(NewReader, w), C) /\ redisReaderFeed(NewReader, w).err = "none"
           /\ Started(redisReaderFeed(NewReader, w)) = Go(<<RootTask>>, NoReply, <<>> \o w)
<1>s. PICK stack, none, r : stack = <<RootTask>> /\ none = <<>> /\ r = NewReader
    OBVIOUS
<1>1. IsReader(r, C) /\ r.err = "none" /\ Started(r) = Go(stack, NoReply, none)
    BY <1>s, NewReaderFacts
<1>2. /\ IsReader(redisReaderFeed(r, w), C) /\ redisReaderFeed(r, w).err = "none"
      /\ Started(redisReaderFeed(r, w)) = Go(stack, NoReply, none \o w)
    BY <1>1, FedStarts
<1> QED
    BY <1>s, <1>2

LEMMA ReadBackWhole ==
    ASSUME NEW C, Wired(C), NEW argv \in Seq(Seq(C)), Takeable(argv), StackSize # 1
    PROVE  /\ totlen(argv) \in Nat
           /\ Reads([cmd |-> MultiBulk(argv), len |-> totlen(argv)], argv)
<1>n. PICK n \in Nat : n = Len(argv)
    OBVIOUS
<1>W. PICK W \in [0 .. Len(argv) -> Seq(C)] : Rest(argv, W)
    BY RestExists
<1>w. PICK w \in Seq(C) : w = W[0]
    BY <1>n
<1>c. PICK cmd \in Seq(C) : cmd = <<"*">> \o Announced(n, w) /\ cmd # <<>>
    <2>u. PICK u \in Seq(C) : u = Announced(n, w)
        BY AnnouncedSize
    <2>1. <<"*">> \o u \in Seq(C) /\ Len(<<"*">> \o u) = 1 + Len(u)
        BY MarkSize DEF Wired
    <2>2. Len(u) \in Nat /\ Len(<<>>) = 0
        OBVIOUS
    <2>3. <<"*">> \o u # <<>>
        BY <2>1, <2>2
    <2> QED
        BY <2>1, <2>3, <2>u
<1>1. MultiBulk(argv) = cmd
    BY <1>n, <1>W, <1>w, <1>c, MultiBulkIs
<1>2. totlen(argv) \in Nat /\ totlen(argv) = Len(cmd)
    BY <1>n, <1>W, <1>w, <1>c, TotlenIs
<1>r. PICK r : r = redisReaderFeed(NewReader, cmd)
    OBVIOUS
<1>3. IsReader(r, C) /\ r.err = "none" /\ Started(r) = Go(<<RootTask>>, NoReply, cmd)
    <2>2. /\ IsReader(r, C) /\ r.err = "none"
          /\ Started(r) = Go(<<RootTask>>, NoReply, <<>> \o cmd)
        BY <1>c, <1>r, FedNew
    <2>4. <<>> \o cmd = cmd
        BY ConcatEmptySeq
    <2> QED
        BY <2>2, <2>4
<1>y. PICK y : y = Reached(argv, W, n)
    OBVIOUS
<1>4. Same(Go(<<RootTask>>, NoReply, cmd), y)
    <2>1. Same(Go(<<RootTask>>, NoReply, <<"*">> \o Announced(Len(argv), W[0])),
               Reached(argv, W, Len(argv)))
        BY <1>W, AllRead DEF Takeable
    <2> QED
        BY <1>n, <1>w, <1>c, <1>y, <2>1
<1>5. y = Go(<<>>, Partial(argv, n), W[n])
    BY <1>n, <1>y DEF Reached
<1>6. AtRest(y) /\ y.ok /\ y.err = "none" /\ y.reply = Partial(argv, n)
    BY <1>5 DEF AtRest, Go
<1>7. Stops(Started(r), y)
    BY <1>3, <1>4, <1>6, SameEnds
<1>g. PICK g : g = redisReaderGetReply(r)
    OBVIOUS
<1>8. (g.ok <=> y.err = "none") /\ g.reply = IF y.ok THEN y.reply ELSE NoReply
    BY <1>3, <1>7, <1>g, EndTells
<1>9. g.ok /\ g.reply = AsReply(argv)
    BY <1>n, <1>6, <1>8, AsReplyIs
<1> QED
    BY <1>1, <1>2, <1>r, <1>g, <1>9 DEF Reads, IsReply

(* Whatever bytes the arguments are made of, what a function of hiredis.c  *)
(* that formats commands writes is read back by the reader of read.c as    *)
(* the array of these arguments, and the length it announces is the length *)
(* of what it wrote: redisFormatCommandArgv and redisFormatSdsCommandArgv  *)
(* when the lengths are given, redisFormatCommand and redisvFormatCommand  *)
(* for the arguments they find in the format.                              *)
THEOREM CommandsReadBack ==
    ASSUME NEW C, Wired(C), NEW argv \in Seq(Seq(C)), Takeable(argv), StackSize # 1
    PROVE  /\ Reads(redisFormatCommandArgv(argv, TRUE), argv)
           /\ Reads(redisFormatSdsCommandArgv(argv, TRUE), argv)
           /\ \A f, ap : Parsed(f, ap) = [err |-> FALSE, argv |-> argv] =>
                 /\ Reads(redisvFormatCommand(f, ap), argv)
                 /\ Reads(redisFormatCommand(f, ap), argv)
<1>c. PICK command : command = [cmd |-> MultiBulk(argv), len |-> totlen(argv)]
    OBVIOUS
<1>1. totlen(argv) \in Nat /\ Reads(command, argv)
    BY <1>c, ReadBackWhole
<1>2. /\ redisFormatCommandArgv(argv, TRUE) = command
      /\ redisFormatSdsCommandArgv(argv, TRUE) = command
    BY <1>c DEF redisFormatCommandArgv, redisFormatSdsCommandArgv, Taken
<1>3. ASSUME NEW f, NEW ap, Parsed(f, ap) = [err |-> FALSE, argv |-> argv]
      PROVE  redisvFormatCommand(f, ap) = command /\ redisFormatCommand(f, ap) = command
    <2>1. redisvFormatCommand(f, ap) = command
        BY <1>3, <1>c DEF redisvFormatCommand
    <2>2. ~(command.len < 0)
        BY <1>1, <1>c
    <2> QED
        BY <2>1, <2>2 DEF redisFormatCommand
<1> QED
    BY <1>1, <1>2, <1>3

-----------------------------------------------------------------------------
(* Hash tables *)

Stored == [key : Key, val : Val]

(* A chain of the table t of n chains holds entries of X that belong there, *)
(* no key twice, and every entry of X is in its chain.                      *)
InChain(q, n, i, X) ==
    /\ \A j \in 1 .. Len(q) : q[j] \in X /\ Slot(n, q[j].key) = i
    /\ \A j, k \in 1 .. Len(q) : q[j].key = q[k].key => j = k
Found(t, n, e) == \E j \in 1 .. Len(t[Slot(n, e.key)]) : t[Slot(n, e.key)][j] = e
Keeps(t, n, X) ==
    /\ n \in Nat \ {0} /\ t \in [0 .. n - 1 -> Seq(Stored)] /\ X \subseteq Stored
    /\ \A i \in 0 .. n - 1 : InChain(t[i], n, i, X)
    /\ \A e \in X : Found(t, n, e)

LEMMA SlotFacts ==
    ASSUME NEW n \in Nat \ {0}, NEW k \in Key
    PROVE  Slot(n, k) \in 0 .. n - 1
<1> PICK x \in Nat : x = Hash[k]
    BY DictAssumption
<1>1. x % n \in 0 .. n - 1
    OBVIOUS
<1> QED
    BY <1>1 DEF Slot

(* A key is stored once. *)
LEMMA KeyOnce ==
    ASSUME NEW t, NEW n, NEW X, Keeps(t, n, X), NEW e \in X, NEW f \in X, e.key = f.key
    PROVE  e = f
<1> PICK i \in 0 .. n - 1 : i = Slot(n, e.key)
    BY SlotFacts DEF Keeps, Stored
<1>1. PICK j \in 1 .. Len(t[i]) : t[i][j] = e
    BY DEF Keeps, Found
<1>2. PICK k \in 1 .. Len(t[i]) : t[i][k] = f
    BY DEF Keeps, Found
<1>3. InChain(t[i], n, i, X)
    BY DEF Keeps
<1> QED
    BY <1>1, <1>2, <1>3 DEF InChain

LEMMA FirstPut ==
    ASSUME NEW q \in Seq(Stored), NEW e \in Stored, NEW y, y = <<e>> \o q
    PROVE  /\ y \in Seq(Stored) /\ Len(y) = Len(q) + 1 /\ Len(q) \in Nat /\ y[1] = e
           /\ \A j \in 1 .. Len(q) : y[j + 1] = q[j]
           /\ \A j \in 1 .. Len(q) + 1 : y[j] = IF j = 1 THEN e ELSE q[j - 1]
OBVIOUS

LEMMA Put ==
    ASSUME NEW t, NEW n, NEW X, Keeps(t, n, X), NEW e \in Stored, \A f \in X : f.key # e.key
    PROVE  Keeps(Move(t, n, e), n, X \cup {e})
<1>0. n \in Nat \ {0} /\ t \in [0 .. n - 1 -> Seq(Stored)] /\ X \subseteq Stored
    BY DEF Keeps
<1> PICK h \in 0 .. n - 1 : h = Slot(n, e.key)
    BY <1>0, SlotFacts DEF Stored
<1> PICK q \in Seq(Stored) : q = t[h]
    BY <1>0
<1> PICK y : y = <<e>> \o q
    OBVIOUS
<1>1. /\ y \in Seq(Stored) /\ Len(y) = Len(q) + 1 /\ Len(q) \in Nat /\ y[1] = e
      /\ \A j \in 1 .. Len(q) : y[j + 1] = q[j]
      /\ \A j \in 1 .. Len(q) + 1 : y[j] = IF j = 1 THEN e ELSE q[j - 1]
    BY FirstPut
<1> PICK w : w = Move(t, n, e)
    OBVIOUS
<1>2. w = [t EXCEPT ![h] = y]
    BY <1>0 DEF Move
<1>3. w \in [0 .. n - 1 -> Seq(Stored)] /\ w[h] = y /\ \A i \in 0 .. n - 1 : i # h => w[i] = t[i]
    BY <1>0, <1>1, <1>2
<1>4. InChain(q, n, h, X)
    BY DEF Keeps
<1>5. InChain(y, n, h, X \cup {e})
    <2>1. \A j \in 1 .. Len(y) : y[j] \in X \cup {e} /\ Slot(n, y[j].key) = h
        <3> TAKE j \in 1 .. Len(y)
        <3>1. CASE j = 1
            BY <1>1, <3>1
        <3>2. CASE j # 1
            <4>1. j - 1 \in 1 .. Len(q) /\ y[j] = q[j - 1]
                BY <1>1, <3>2
            <4> QED
                BY <1>4, <4>1 DEF InChain
        <3> QED
            BY <3>1, <3>2
    <2>2. ASSUME NEW j \in 1 .. Len(y), NEW k \in 1 .. Len(y), y[j].key = y[k].key
          PROVE  j = k
        <3>1. CASE j = 1 /\ k # 1
            <4>1. k - 1 \in 1 .. Len(q) /\ y[k] = q[k - 1]
                BY <1>1, <3>1
            <4>2. y[k] \in X /\ y[j] = e
                BY <1>1, <1>4, <3>1, <4>1 DEF InChain
            <4> QED
                BY <2>2, <4>2
        <3>2. CASE j # 1 /\ k = 1
            <4>1. j - 1 \in 1 .. Len(q) /\ y[j] = q[j - 1]
                BY <1>1, <3>2
            <4>2. y[j] \in X /\ y[k] = e
                BY <1>1, <1>4, <3>2, <4>1 DEF InChain
            <4> QED
                BY <2>2, <4>2
        <3>3. CASE j # 1 /\ k # 1
            <4>1. j - 1 \in 1 .. Len(q) /\ y[j] = q[j - 1] /\ k - 1 \in 1 .. Len(q) /\ y[k] = q[k - 1]
                BY <1>1, <3>3
            <4>2. j - 1 = k - 1
                BY <1>4, <2>2, <4>1, SMTT(30) DEF InChain
            <4> QED
                BY <4>2
        <3> QED
            BY <3>1, <3>2, <3>3
    <2> QED
        BY <2>1, <2>2 DEF InChain
<1>6. ASSUME NEW i \in 0 .. n - 1
      PROVE  InChain(w[i], n, i, X \cup {e})
    <2>1. CASE i = h
        BY <1>3, <1>5, <2>1
    <2>2. CASE i # h
        <3>1. InChain(t[i], n, i, X) /\ w[i] = t[i]
            BY <1>3, <2>2 DEF Keeps
        <3> QED
            BY <3>1 DEF InChain
    <2> QED
        BY <2>1, <2>2
<1>7. ASSUME NEW f \in X \cup {e}
      PROVE  Found(w, n, f)
    <2>1. CASE f = e
        <3>1. 1 \in 1 .. Len(y)
            BY <1>1
        <3> QED
            BY <1>1, <1>3, <2>1, <3>1 DEF Found
    <2>2. CASE f \in X
        <3> PICK i \in 0 .. n - 1 : i = Slot(n, f.key)
            BY <1>0, <2>2, SlotFacts DEF Stored
        <3>1. PICK j \in 1 .. Len(t[i]) : t[i][j] = f
            BY <2>2 DEF Keeps, Found
        <3>2. CASE i = h
            <4>1. j + 1 \in 1 .. Len(y) /\ y[j + 1] = f
                BY <1>1, <3>1, <3>2
            <4> QED
                BY <1>3, <3>2, <4>1 DEF Found
        <3>3. CASE i # h
            BY <1>3, <3>1, <3>3 DEF Found
        <3> QED
            BY <3>2, <3>3
    <2> QED
        BY <2>1, <2>2
<1> QED
    BY <1>0, <1>3, <1>6, <1>7 DEF Keeps

(* The tables while a chain is moved, entry by entry. *)
Moves(t, n, q, m, h) == h = [j \in 0 .. m |-> IF j = 0 THEN t ELSE Move(h[j - 1], n, q[j])]

LEMMA MovesExist ==
    ASSUME NEW t, NEW n, NEW q
    PROVE  \A m \in Nat : \E h : Moves(t, n, q, m, h)
<1> DEFINE T == {m \in Nat : \E h : Moves(t, n, q, m, h)}
<1>1. 0 \in T
    <2> PICK h : h = [j \in 0 .. 0 |-> t]
        OBVIOUS
    <2>1. h = [j \in 0 .. 0 |-> IF j = 0 THEN t ELSE Move(h[j - 1], n, q[j])]
        OBVIOUS
    <2> QED
        BY <2>1 DEF Moves
<1>2. ASSUME NEW m \in T
      PROVE  m + 1 \in T
    <2>0. m \in Nat
        BY <1>2
    <2> PICK h : Moves(t, n, q, m, h)
        BY <1>2
    <2> PICK new : new = Move(h[m], n, q[m + 1])
        OBVIOUS
    <2> PICK g : g = [j \in 0 .. m + 1 |-> IF j <= m THEN h[j] ELSE new]
        OBVIOUS
    <2>1. (\A j \in 0 .. m : g[j] = h[j]) /\ g[m + 1] = new
        BY <2>0
    <2>2. \A j \in 0 .. m + 1 : g[j] = IF j = 0 THEN t ELSE Move(g[j - 1], n, q[j])
        <3> TAKE j \in 0 .. m + 1
        <3>1. CASE j = 0
            BY <2>0, <2>1, <3>1 DEF Moves
        <3>2. CASE j # 0 /\ j <= m
            <4>1. j \in 0 .. m /\ j - 1 \in 0 .. m
                BY <2>0, <3>2
            <4>2. h[j] = Move(h[j - 1], n, q[j])
                BY <3>2, <4>1 DEF Moves
            <4> QED
                BY <2>1, <3>2, <4>1, <4>2
        <3>3. CASE j = m + 1
            <4>1. j # 0 /\ j - 1 = m /\ m \in 0 .. m
                BY <2>0, <3>3
            <4> QED
                BY <2>1, <3>3, <4>1
        <3> QED
            BY <2>0, <3>1, <3>2, <3>3
    <2>3. g = [j \in 0 .. m + 1 |-> g[j]]
        OBVIOUS
    <2>4. Moves(t, n, q, m + 1, g)
        BY <2>2, <2>3 DEF Moves
    <2> QED
        BY <2>0, <2>4
<1> HIDE DEF T
<1>3. \A m \in Nat : m \in T
    BY <1>1, <1>2, Induction DEF T
<1> QED
    BY <1>3 DEF T

FirstOf(q, m) == {q[j] : j \in 1 .. m}

LEMMA FirstFacts ==
    ASSUME NEW q, NEW m \in Nat
    PROVE  FirstOf(q, 0) = {} /\ FirstOf(q, m + 1) = FirstOf(q, m) \cup {q[m + 1]}
<1>1. FirstOf(q, 0) = {}
    BY DEF FirstOf
<1>2. \A x : x \in 1 .. m + 1 <=> x \in 1 .. m \/ x = m + 1
    OBVIOUS
<1>3. FirstOf(q, m + 1) = FirstOf(q, m) \cup {q[m + 1]}
    BY <1>2 DEF FirstOf
<1> QED
    BY <1>1, <1>3

(* Moving a chain puts its entries into the table. *)
LEMMA MoveChainFacts ==
    ASSUME NEW t, NEW n, NEW X, Keeps(t, n, X), NEW q \in Seq(Stored),
           \A j, k \in 1 .. Len(q) : q[j].key = q[k].key => j = k,
           \A j \in 1 .. Len(q), f \in X : f.key # q[j].key
    PROVE  Keeps(MoveChain(t, n, q), n, X \cup FirstOf(q, Len(q)))
<1> DEFINE f == CHOOSE h : h = [j \in 0 .. Len(q) |-> IF j = 0 THEN t ELSE Move(h[j - 1], n, q[j])]
<1>1. MoveChain(t, n, q) = f[Len(q)]
    BY DEF MoveChain
<1>0. Len(q) \in Nat
    OBVIOUS
<1>2. Moves(t, n, q, Len(q), f)
    <2>1. \E h : Moves(t, n, q, Len(q), h)
        BY <1>0, MovesExist
    <2>2. f = CHOOSE h : Moves(t, n, q, Len(q), h)
        BY DEF Moves
    <2> HIDE DEF f
    <2> QED
        BY <2>1, <2>2
<1> HIDE DEF f
<1>3. \A j \in 0 .. Len(q) : f[j] = IF j = 0 THEN t ELSE Move(f[j - 1], n, q[j])
    BY <1>2 DEF Moves
<1> DEFINE T == {m \in Nat : m <= Len(q) => Keeps(f[m], n, X \cup FirstOf(q, m))}
<1>4. 0 \in T
    <2>1. f[0] = t /\ FirstOf(q, 0) = {} /\ X \cup {} = X
        BY <1>0, <1>3, FirstFacts
    <2> QED
        BY <2>1
<1>5. ASSUME NEW m \in T
      PROVE  m + 1 \in T
    <2> SUFFICES ASSUME m + 1 <= Len(q)
                 PROVE  Keeps(f[m + 1], n, X \cup FirstOf(q, m + 1))
        BY <1>5
    <2>1. m \in Nat /\ m + 1 \in 1 .. Len(q) /\ m + 1 \in 0 .. Len(q) /\ (m + 1) - 1 = m /\ m + 1 # 0
        BY <1>0, <1>5
    <2> PICK Y : Y = X \cup FirstOf(q, m)
        OBVIOUS
    <2>2. Keeps(f[m], n, Y)
        BY <1>0, <1>5, <2>1
    <2> PICK e \in Stored : e = q[m + 1]
        BY <2>1
    <2>3. f[m + 1] = Move(f[m], n, e)
        BY <1>3, <2>1
    <2>4. \A g \in Y : g.key # e.key
        <3> TAKE g \in Y
        <3>1. CASE g \in X
            BY <2>1, <3>1
        <3>2. CASE g \in FirstOf(q, m)
            <4>1. PICK j \in 1 .. m : g = q[j]
                BY <3>2 DEF FirstOf
            <4>2. j \in 1 .. Len(q) /\ j # m + 1
                BY <1>0, <2>1, <4>1
            <4> QED
                BY <2>1, <4>1, <4>2
        <3> QED
            BY <3>1, <3>2
    <2>5. Keeps(f[m + 1], n, Y \cup {e})
        BY <2>2, <2>3, <2>4, Put
    <2>6. Y \cup {e} = X \cup FirstOf(q, m + 1)
        BY <2>1, FirstFacts
    <2> QED
        BY <2>5, <2>6
<1> HIDE DEF T
<1>6. \A m \in Nat : m \in T
    BY <1>4, <1>5, Induction DEF T
<1>7. Keeps(f[Len(q)], n, X \cup FirstOf(q, Len(q)))
    <2>1. Len(q) <= Len(q)
        BY <1>0
    <2> QED
        BY <1>0, <1>6, <2>1 DEF T
<1> QED
    BY <1>1, <1>7

(* The tables while the chains are moved, one after the other. *)
Empty(n) == [slot \in 0 .. n - 1 |-> <<>>]
Chains(old, n, m, h) ==
    h = [i \in 0 .. m |-> IF i = 0 THEN Empty(n) ELSE MoveChain(h[i - 1], n, old[i - 1])]

LEMMA ChainsExist ==
    ASSUME NEW old, NEW n
    PROVE  \A m \in Nat : \E h : Chains(old, n, m, h)
<1> DEFINE T == {m \in Nat : \E h : Chains(old, n, m, h)}
<1>1. 0 \in T
    <2> PICK h : h = [j \in 0 .. 0 |-> Empty(n)]
        OBVIOUS
    <2>1. h = [j \in 0 .. 0 |-> IF j = 0 THEN Empty(n) ELSE MoveChain(h[j - 1], n, old[j - 1])]
        OBVIOUS
    <2> QED
        BY <2>1 DEF Chains
<1>2. ASSUME NEW m \in T
      PROVE  m + 1 \in T
    <2>0. m \in Nat
        BY <1>2
    <2> PICK h : Chains(old, n, m, h)
        BY <1>2
    <2> PICK new : new = MoveChain(h[m], n, old[m])
        OBVIOUS
    <2> PICK g : g = [j \in 0 .. m + 1 |-> IF j <= m THEN h[j] ELSE new]
        OBVIOUS
    <2>1. (\A j \in 0 .. m : g[j] = h[j]) /\ g[m + 1] = new
        BY <2>0
    <2>2. \A j \in 0 .. m + 1 : g[j] = IF j = 0 THEN Empty(n) ELSE MoveChain(g[j - 1], n, old[j - 1])
        <3> TAKE j \in 0 .. m + 1
        <3>1. CASE j = 0
            BY <2>0, <2>1, <3>1 DEF Chains
        <3>2. CASE j # 0 /\ j <= m
            <4>1. j \in 0 .. m /\ j - 1 \in 0 .. m
                BY <2>0, <3>2
            <4>2. h[j] = MoveChain(h[j - 1], n, old[j - 1])
                BY <3>2, <4>1 DEF Chains
            <4> QED
                BY <2>1, <3>2, <4>1, <4>2
        <3>3. CASE j = m + 1
            <4>1. j # 0 /\ j - 1 = m /\ m \in 0 .. m
                BY <2>0, <3>3
            <4> QED
                BY <2>1, <3>3, <4>1
        <3> QED
            BY <2>0, <3>1, <3>2, <3>3
    <2>3. g = [j \in 0 .. m + 1 |-> g[j]]
        OBVIOUS
    <2>4. Chains(old, n, m + 1, g)
        BY <2>2, <2>3 DEF Chains
    <2> QED
        BY <2>0, <2>4
<1> HIDE DEF T
<1>3. \A m \in Nat : m \in T
    BY <1>1, <1>2, Induction DEF T
<1> QED
    BY <1>3 DEF T

LEMMA EmptyKeeps ==
    ASSUME NEW n \in Nat \ {0}
    PROVE  Keeps(Empty(n), n, {})
<1>1. Empty(n) \in [0 .. n - 1 -> Seq(Stored)] /\ \A i \in 0 .. n - 1 : Empty(n)[i] = <<>>
    BY DEF Empty
<1>2. Len(<<>>) = 0 /\ 1 .. 0 = {}
    OBVIOUS
<1> QED
    BY <1>1, <1>2 DEF Keeps, InChain

(* A table, or none while there are no entries. *)
Holding(t, n, X) == (n = 0 /\ X = {}) \/ Keeps(t, n, X)

InFirst(t, m) == UNION {FirstOf(t[i - 1], Len(t[i - 1])) : i \in 1 .. m}

LEMMA RehashedFacts ==
    ASSUME NEW t, NEW n, NEW X, Holding(t, n, X), NEW m \in Nat \ {0},
           NEW old, old.size = n, old.table = t
    PROVE  Keeps(Rehashed(old, m), m, X)
<1> DEFINE f == CHOOSE h : h = [i \in 0 .. old.size |->
                    IF i = 0 THEN [slot \in 0 .. m - 1 |-> <<>>]
                    ELSE MoveChain(h[i - 1], m, old.table[i - 1])]
<1>1. Rehashed(old, m) = f[old.size]
    BY DEF Rehashed
<1>0. n \in Nat
    BY DEF Holding, Keeps
<1>2. Chains(t, m, n, f)
    <2>1. \E h : Chains(t, m, n, h)
        BY <1>0, ChainsExist
    <2>2. f = CHOOSE h : Chains(t, m, n, h)
        BY DEF Chains, Empty
    <2> HIDE DEF f
    <2> QED
        BY <2>1, <2>2
<1> HIDE DEF f
<1>3. \A i \in 0 .. n : f[i] = IF i = 0 THEN Empty(m) ELSE MoveChain(f[i - 1], m, t[i - 1])
    BY <1>2 DEF Chains
<1> DEFINE T == {i \in Nat : i <= n => Keeps(f[i], m, InFirst(t, i))}
<1>4. 0 \in T
    <2>1. f[0] = Empty(m)
        BY <1>0, <1>3
    <2>2. InFirst(t, 0) = {}
        BY DEF InFirst
    <2> QED
        BY <2>1, <2>2, EmptyKeeps
<1>5. ASSUME NEW i \in T
      PROVE  i + 1 \in T
    <2> SUFFICES ASSUME i + 1 <= n
                 PROVE  Keeps(f[i + 1], m, InFirst(t, i + 1))
        BY <1>5
    <2>1. i \in Nat /\ i \in 0 .. n - 1 /\ i + 1 \in 0 .. n /\ (i + 1) - 1 = i /\ i + 1 # 0 /\ n # 0 /\ i <= n
        BY <1>0, <1>5
    <2>2. Keeps(t, n, X)
        BY <2>1 DEF Holding
    <2> PICK q \in Seq(Stored) : q = t[i]
        BY <2>1, <2>2 DEF Keeps
    <2>3. f[i + 1] = MoveChain(f[i], m, q)
        BY <1>3, <2>1
    <2>4. Keeps(f[i], m, InFirst(t, i))
        BY <1>5, <2>1
    <2>5. InChain(q, n, i, X)
        BY <2>1, <2>2 DEF Keeps
    <2>6. \A j \in 1 .. Len(q), e \in InFirst(t, i) : e.key # q[j].key
        <3> TAKE j \in 1 .. Len(q), e \in InFirst(t, i)
        <3>1. PICK k \in 1 .. i : e \in FirstOf(t[k - 1], Len(t[k - 1]))
            BY DEF InFirst
        <3>2. k - 1 \in 0 .. n - 1 /\ k - 1 # i
            BY <1>0, <2>1, <3>1
        <3>3. InChain(t[k - 1], n, k - 1, X)
            BY <2>2, <3>2 DEF Keeps
        <3>4. Slot(n, e.key) = k - 1
            BY <3>1, <3>3 DEF FirstOf, InChain
        <3>5. Slot(n, q[j].key) = i
            BY <2>5 DEF InChain
        <3> QED
            BY <3>2, <3>4, <3>5
    <2>7. Keeps(f[i + 1], m, InFirst(t, i) \cup FirstOf(q, Len(q)))
        BY <2>3, <2>4, <2>5, <2>6, MoveChainFacts DEF InChain
    <2>8. InFirst(t, i + 1) = InFirst(t, i) \cup FirstOf(q, Len(q))
        <3>1. \A x : x \in 1 .. i + 1 <=> x \in 1 .. i \/ x = i + 1
            BY <2>1
        <3> QED
            BY <2>1, <3>1 DEF InFirst
    <2> QED
        BY <2>7, <2>8
<1> HIDE DEF T
<1>6. \A i \in Nat : i \in T
    BY <1>4, <1>5, Induction DEF T
<1>7. Keeps(f[n], m, InFirst(t, n))
    <2>1. n <= n
        BY <1>0
    <2> QED
        BY <1>0, <1>6, <2>1 DEF T
<1>8. InFirst(t, n) = X
    <2>1. CASE n = 0 /\ X = {}
        BY <2>1 DEF InFirst
    <2>2. CASE Keeps(t, n, X)
        <3>1. ASSUME NEW e \in InFirst(t, n)
              PROVE  e \in X
            <4>1. PICK k \in 1 .. n : e \in FirstOf(t[k - 1], Len(t[k - 1]))
                BY <3>1 DEF InFirst
            <4>2. k - 1 \in 0 .. n - 1
                BY <1>0, <4>1
            <4>3. InChain(t[k - 1], n, k - 1, X)
                BY <2>2, <4>2 DEF Keeps
            <4> QED
                BY <4>1, <4>3 DEF FirstOf, InChain
        <3>2. ASSUME NEW e \in X
              PROVE  e \in InFirst(t, n)
            <4> PICK i \in 0 .. n - 1 : i = Slot(n, e.key)
                BY <2>2, SlotFacts DEF Keeps, Stored
            <4>1. PICK j \in 1 .. Len(t[i]) : t[i][j] = e
                BY <2>2 DEF Keeps, Found
            <4>2. i + 1 \in 1 .. n /\ (i + 1) - 1 = i
                BY <1>0
            <4>3. e \in FirstOf(t[i], Len(t[i]))
                BY <4>1 DEF FirstOf
            <4> QED
                BY <4>2, <4>3 DEF InFirst
        <3> QED
            BY <3>1, <3>2
    <2> QED
        BY <2>1, <2>2 DEF Holding
<1> QED
    BY <1>1, <1>7, <1>8

LEMMA InitialSizeType == InitialSize \in Nat \ {0}
BY DictAssumption

(* The size is doubled until it is enough. *)
Powers(n, h) == h = [e \in 0 .. n |-> IF e = 0 THEN InitialSize ELSE h[e - 1] * 2]

LEMMA PowersFacts ==
    ASSUME NEW n \in Nat
    PROVE  /\ \E h : Powers(n, h)
           /\ \A h : Powers(n, h) => \A e \in 0 .. n : h[e] \in Nat \ {0} /\ h[e] > e
<1>1. \E h : Powers(n, h)
    <2> PICK S : S = Nat
        OBVIOUS
    <2> PICK G : G = [e \in 1 .. n |-> [v \in Nat |-> v * 2]]
        OBVIOUS
    <2>1. G \in [1 .. n -> [S -> S]] /\ InitialSize \in S
        BY InitialSizeType
    <2>2. PICK h : Recursive(h, n, S, InitialSize, G)
        BY <2>1, Recursion
    <2>3. \A e \in 0 .. n : h[e] = IF e = 0 THEN InitialSize ELSE h[e - 1] * 2
        <3> TAKE e \in 0 .. n
        <3>1. CASE e = 0
            BY <2>2, <3>1 DEF Recursive
        <3>2. CASE e # 0
            <4>1. e \in 1 .. n /\ e - 1 \in 0 .. n
                BY <3>2
            <4>2. h[e - 1] \in Nat /\ h[e] = G[e][h[e - 1]]
                BY <2>2, <4>1 DEF Recursive
            <4>3. G[e] = [v \in Nat |-> v * 2]
                BY <4>1
            <4> QED
                BY <3>2, <4>2, <4>3
        <3> QED
            BY <3>1, <3>2
    <2>4. h = [e \in 0 .. n |-> h[e]]
        BY <2>2 DEF Recursive
    <2> QED
        BY <2>3, <2>4 DEF Powers
<1>2. ASSUME NEW h, Powers(n, h)
      PROVE  \A e \in 0 .. n : h[e] \in Nat \ {0} /\ h[e] > e
    <2> DEFINE T == {e \in Nat : e <= n => h[e] \in Nat \ {0} /\ h[e] > e}
    <2>0. \A e \in 0 .. n : h[e] = IF e = 0 THEN InitialSize ELSE h[e - 1] * 2
        BY <1>2 DEF Powers
    <2>1. 0 \in T
        BY <2>0, InitialSizeType
    <2>2. ASSUME NEW e \in T
          PROVE  e + 1 \in T
        <3> SUFFICES ASSUME e + 1 <= n
                     PROVE  h[e + 1] \in Nat \ {0} /\ h[e + 1] > e + 1
            BY <2>2
        <3>1. e \in Nat /\ e + 1 \in 0 .. n /\ (e + 1) - 1 = e /\ e + 1 # 0
            BY <2>2
        <3>2. h[e + 1] = h[e] * 2
            BY <2>0, <3>1
        <3>3. h[e] \in Nat \ {0} /\ h[e] > e
            BY <3>1
        <3> QED
            BY <3>1, <3>2, <3>3
    <2> HIDE DEF T
    <2>3. \A e \in Nat : e \in T
        BY <2>1, <2>2, Induction DEF T
    <2> QED
        BY <2>3 DEF T
<1> QED
    BY <1>1, <1>2

LEMMA NextPower ==
    ASSUME NEW n \in Nat
    PROVE  _dictNextPower(n) \in Nat \ {0} /\ _dictNextPower(n) >= n
<1> DEFINE f == CHOOSE h : h = [e \in 0 .. n |-> IF e = 0 THEN InitialSize ELSE h[e - 1] * 2]
           Enough(e) == f[e] >= n /\ \A d \in 0 .. e - 1 : f[d] < n
<1>1. _dictNextPower(n) = f[CHOOSE e \in 0 .. n : Enough(e)]
    BY DEF _dictNextPower
<1>2. Powers(n, f)
    <2>1. \E h : Powers(n, h)
        BY PowersFacts
    <2>2. f = CHOOSE h : Powers(n, h)
        BY DEF Powers
    <2> HIDE DEF f
    <2> QED
        BY <2>1, <2>2
<1> HIDE DEF f
<1>3. \A e \in 0 .. n : f[e] \in Nat \ {0} /\ f[e] > e
    BY <1>2, PowersFacts
<1>4. \E e \in 0 .. n : Enough(e)
    <2> DEFINE S == {e \in 0 .. n : f[e] >= n}
    <2>1. n \in S /\ S \in SUBSET Nat
        BY <1>3
    <2> HIDE DEF S
    <2>2. PICK e \in S : \A d \in S : e <= d
        BY <2>1, Least
    <2>3. e \in 0 .. n /\ f[e] >= n
        BY DEF S
    <2>4. \A d \in 0 .. e - 1 : f[d] < n
        <3> TAKE d \in 0 .. e - 1
        <3>1. d \in 0 .. n /\ d < e
            BY <2>3
        <3>2. d \notin S
            BY <2>2, <2>3, <3>1
        <3> QED
            BY <1>3, <3>1, <3>2 DEF S
    <2> QED
        BY <2>3, <2>4
<1> HIDE DEF Enough
<1>5. PICK e \in 0 .. n : e = (CHOOSE d \in 0 .. n : Enough(d)) /\ Enough(e)
    BY <1>4
<1>6. f[e] \in Nat \ {0} /\ f[e] >= n
    BY <1>3, <1>5 DEF Enough
<1> QED
    BY <1>1, <1>5, <1>6

(* A table d that is consistent and holds the entries X. *)
Full(d, X) ==
    /\ d = [size |-> d.size, used |-> d.used, table |-> d.table]
    /\ d.size \in Nat /\ d.used \in Nat /\ d.used <= d.size
    /\ Holding(d.table, d.size, X)

LEMMA HoldingSize ==
    ASSUME NEW d, NEW X, Full(d, X), d.size # 0
    PROVE  Keeps(d.table, d.size, X)
BY DEF Full, Holding

LEMMA Expanded ==
    ASSUME NEW d, NEW X, Full(d, X), NEW n \in Nat, d.used <= n
    PROVE  /\ Full(dictExpand(d, n), X) /\ dictExpand(d, n).used = d.used
           /\ dictExpand(d, n).size \in Nat \ {0} /\ dictExpand(d, n).size >= n
<1> PICK m \in Nat \ {0} : m = _dictNextPower(n)
    BY NextPower
<1>1. m >= n
    BY NextPower
<1>2. d.size \in Nat /\ d.used \in Nat /\ d = [size |-> d.size, used |-> d.used, table |-> d.table]
    BY DEF Full
<1> PICK w : w = Rehashed(d, m)
    OBVIOUS
<1>3. Keeps(w, m, X)
    BY RehashedFacts DEF Full
<1>4. ~(d.used > n)
    BY <1>2
<1>5. dictExpand(d, n) = [d EXCEPT !.size = m, !.table = w]
    BY <1>4 DEF dictExpand
<1>6. dictExpand(d, n) = [size |-> m, used |-> d.used, table |-> w]
    BY <1>2, <1>5
<1>7. d.used <= m
    BY <1>1, <1>2
<1> QED
    BY <1>1, <1>2, <1>3, <1>6, <1>7 DEF Full, Holding

LEMMA Grows ==
    ASSUME NEW d, NEW X, Full(d, X), NEW g, g = _dictExpandIfNeeded(d)
    PROVE  Full(g, X) /\ g.used = d.used /\ g.size # 0 /\ g.used < g.size
<1>1. d.size \in Nat /\ d.used \in Nat /\ d.used <= d.size
    BY DEF Full
<1>2. CASE d.size = 0
    <2>1. g = dictExpand(d, InitialSize) /\ d.used = 0
        BY <1>1, <1>2 DEF _dictExpandIfNeeded
    <2>2. d.used <= InitialSize /\ InitialSize \in Nat \ {0}
        BY <2>1, InitialSizeType
    <2>3. Full(g, X) /\ g.used = d.used /\ g.size \in Nat \ {0}
        BY <2>1, <2>2, Expanded
    <2> QED
        BY <2>1, <2>3
<1>3. CASE d.size # 0 /\ d.used = d.size
    <2>1. g = dictExpand(d, d.size * 2)
        BY <1>3 DEF _dictExpandIfNeeded
    <2>2. d.used <= d.size * 2 /\ d.size * 2 \in Nat /\ d.used < d.size * 2
        BY <1>1, <1>3
    <2>3. Full(g, X) /\ g.used = d.used /\ g.size \in Nat \ {0} /\ g.size >= d.size * 2
        BY <2>1, <2>2, Expanded
    <2> QED
        BY <1>1, <2>2, <2>3
<1>4. CASE d.size # 0 /\ d.used # d.size
    <2>1. g = d
        BY <1>4 DEF _dictExpandIfNeeded
    <2> QED
        BY <1>1, <1>4, <2>1
<1> QED
    BY <1>2, <1>3, <1>4

(* The place of a key in its chain. *)
LEMMA PositionFacts ==
    ASSUME NEW d, NEW X, Keeps(d.table, d.size, X), NEW k \in Key,
           NEW h, h = Slot(d.size, k), NEW q, q = d.table[h], NEW p, p = Position(d, k)
    PROVE  /\ h \in 0 .. d.size - 1 /\ q \in Seq(Stored) /\ InChain(q, d.size, h, X)
           /\ p = 0 => \A e \in X : e.key # k
           /\ p # 0 => p \in 1 .. Len(q) /\ q[p].key = k /\ q[p] \in X
<1>1. h \in 0 .. d.size - 1
    BY SlotFacts DEF Keeps
<1>2. q \in Seq(Stored) /\ InChain(q, d.size, h, X)
    BY <1>1 DEF Keeps
<1> DEFINE at == {i \in DOMAIN q : q[i].key = k}
<1>3. at = {i \in 1 .. Len(q) : q[i].key = k}
    BY <1>2
<1>4. p = IF at = {} THEN 0 ELSE CHOOSE i \in at : \A j \in at : i <= j
    BY DEF Position
<1> HIDE DEF at
<1>5. CASE at = {}
    <2>1. ASSUME NEW e \in X, e.key = k
          PROVE  FALSE
        <3>1. PICK j \in 1 .. Len(q) : q[j] = e
            BY <2>1 DEF Keeps, Found
        <3> QED
            BY <1>3, <1>5, <2>1, <3>1
    <2> QED
        BY <1>1, <1>2, <1>4, <1>5, <2>1
<1>6. CASE at # {}
    <2>1. at \in SUBSET Nat
        BY <1>3
    <2>2. \E i \in at : \A j \in at : i <= j
        BY <1>6, <2>1, Least
    <2>3. p \in at
        BY <1>4, <1>6, <2>2
    <2>4. p \in 1 .. Len(q) /\ q[p].key = k
        BY <1>3, <2>3
    <2>5. q[p] \in X /\ p # 0
        BY <1>2, <2>4 DEF InChain
    <2> QED
        BY <1>1, <1>2, <2>4, <2>5
<1> QED
    BY <1>5, <1>6

(* A chain is replaced by another: it holds the entries of Y that belong   *)
(* there, the others are as they were.                                     *)
LEMMA ChainChanged ==
    ASSUME NEW t, NEW n, NEW X, Keeps(t, n, X), NEW Y \in SUBSET Stored,
           NEW h \in 0 .. n - 1, NEW y \in Seq(Stored), InChain(y, n, h, Y),
           \A e \in Y : Slot(n, e.key) = h => \E j \in 1 .. Len(y) : y[j] = e,
           \A e \in Stored : Slot(n, e.key) # h => (e \in X <=> e \in Y)
    PROVE  Keeps([t EXCEPT ![h] = y], n, Y)
<1>0. PICK w : w = [t EXCEPT ![h] = y]
    OBVIOUS
<1>1. n \in Nat \ {0} /\ t \in [0 .. n - 1 -> Seq(Stored)]
    BY DEF Keeps
<1>2. w \in [0 .. n - 1 -> Seq(Stored)] /\ w[h] = y /\ \A i \in 0 .. n - 1 : i # h => w[i] = t[i]
    BY <1>0, <1>1
<1>3. ASSUME NEW i \in 0 .. n - 1
      PROVE  InChain(w[i], n, i, Y)
    <2>1. CASE i = h
        BY <1>2, <2>1
    <2>2. CASE i # h
        <3>1. w[i] = t[i] /\ t[i] \in Seq(Stored) /\ InChain(t[i], n, i, X)
            BY <1>1, <1>2, <2>2 DEF Keeps
        <3>2. ASSUME NEW j \in 1 .. Len(t[i])
              PROVE  t[i][j] \in Y
            <4>1. t[i][j] \in X /\ Slot(n, t[i][j].key) = i /\ t[i][j] \in Stored
                BY <3>1 DEF InChain
            <4> QED
                BY <2>2, <4>1
        <3> QED
            BY <3>1, <3>2 DEF InChain
    <2> QED
        BY <2>1, <2>2
<1>4. ASSUME NEW e \in Y
      PROVE  Found(w, n, e)
    <2>1. CASE Slot(n, e.key) = h
        <3>1. PICK j \in 1 .. Len(y) : y[j] = e
            BY <2>1
        <3> QED
            BY <1>2, <2>1, <3>1 DEF Found
    <2>2. CASE Slot(n, e.key) # h
        <3>1. e \in X
            BY <2>2
        <3> PICK i \in 0 .. n - 1 : i = Slot(n, e.key)
            BY <1>1, SlotFacts DEF Stored
        <3>2. PICK j \in 1 .. Len(t[i]) : t[i][j] = e
            BY <3>1 DEF Keeps, Found
        <3>3. w[i] = t[i]
            BY <1>2, <2>2
        <3> QED
            BY <3>2, <3>3 DEF Found
    <2> QED
        BY <2>1, <2>2
<1> QED
    BY <1>0, <1>1, <1>2, <1>3, <1>4 DEF Keeps

LEMMA Joined ==
    ASSUME NEW a \in Seq(Stored), NEW b \in Seq(Stored), NEW y, y = a \o b
    PROVE  /\ y \in Seq(Stored) /\ Len(y) = Len(a) + Len(b)
           /\ \A j \in 1 .. Len(a) + Len(b) : y[j] = IF j <= Len(a) THEN a[j] ELSE b[j - Len(a)]
OBVIOUS

LEMMA RemoveAtFacts ==
    ASSUME NEW q \in Seq(Stored), NEW p \in 1 .. Len(q), NEW y, y = RemoveAt(q, p)
    PROVE  /\ y \in Seq(Stored) /\ Len(q) \in Nat /\ Len(y) = Len(q) - 1
           /\ \A j \in 1 .. Len(q) - 1 : y[j] = IF j < p THEN q[j] ELSE q[j + 1]
<1>0. Len(q) \in Nat
    OBVIOUS
<1>a. PICK a : a = SubSeq(q, 1, p - 1)
    OBVIOUS
<1>b. PICK b : b = SubSeq(q, p + 1, Len(q))
    OBVIOUS
<1>y. y = SubSeq(q, 1, p - 1) \o SubSeq(q, p + 1, Len(q))
    BY DEF RemoveAt
<1>1. a \in Seq(Stored) /\ Len(a) = p - 1 /\ \A j \in 1 .. p - 1 : a[j] = q[j]
    BY <1>a
<1>2. b \in Seq(Stored) /\ Len(b) = Len(q) - p /\ \A j \in 1 .. Len(q) - p : b[j] = q[p + j]
    BY <1>b
<1>3. y = a \o b
    BY <1>a, <1>b, <1>y
<1>4. y \in Seq(Stored) /\ Len(y) = Len(a) + Len(b)
      /\ \A j \in 1 .. Len(a) + Len(b) : y[j] = IF j <= Len(a) THEN a[j] ELSE b[j - Len(a)]
    BY <1>1, <1>2, <1>3, Joined, ZenonT(60)
<1>5. ASSUME NEW j \in 1 .. Len(q) - 1
      PROVE  y[j] = IF j < p THEN q[j] ELSE q[j + 1]
    <2>1. CASE j < p
        <3>1. j \in 1 .. Len(a) + Len(b) /\ j <= Len(a) /\ j \in 1 .. p - 1
            BY <1>0, <1>1, <1>2, <2>1
        <3>2. y[j] = a[j]
            BY <1>4, <3>1
        <3> QED
            BY <1>1, <2>1, <3>1, <3>2
    <2>2. CASE ~(j < p)
        <3>1. j - Len(a) \in 1 .. Len(q) - p /\ p + (j - Len(a)) = j + 1 /\ j \in 1 .. Len(a) + Len(b) /\ ~(j <= Len(a))
            BY <1>0, <1>1, <1>2, <2>2
        <3>2. y[j] = b[j - Len(a)]
            BY <1>4, <3>1
        <3> QED
            BY <1>2, <2>2, <3>1, <3>2
    <2> QED
        BY <2>1, <2>2
<1> QED
    BY <1>0, <1>1, <1>2, <1>4, <1>5

(* An entry is taken out of its chain. *)
LEMMA Removed ==
    ASSUME NEW t, NEW n, NEW X, Keeps(t, n, X), NEW h \in 0 .. n - 1, NEW q, q = t[h],
           NEW p \in 1 .. Len(q), NEW w, w = [t EXCEPT ![h] = RemoveAt(q, p)]
    PROVE  Keeps(w, n, X \ {q[p]})
<1>1. q \in Seq(Stored) /\ InChain(q, n, h, X) /\ X \in SUBSET Stored
    BY DEF Keeps
<1>a. PICK y : y = RemoveAt(q, p)
    OBVIOUS
<1>b. PICK Y : Y = X \ {q[p]}
    OBVIOUS
<1>2. /\ y \in Seq(Stored) /\ Len(q) \in Nat /\ Len(y) = Len(q) - 1
      /\ \A j \in 1 .. Len(q) - 1 : y[j] = IF j < p THEN q[j] ELSE q[j + 1]
    BY <1>1, <1>a, RemoveAtFacts
<1>3. \A j \in 1 .. Len(y) : \E i \in 1 .. Len(q) : i # p /\ y[j] = q[i] /\ i = IF j < p THEN j ELSE j + 1
    <2> TAKE j \in 1 .. Len(y)
    <2>1. CASE j < p
        <3>1. j \in 1 .. Len(q) /\ j # p /\ y[j] = q[j]
            BY <1>2, <2>1
        <3> QED
            BY <2>1, <3>1
    <2>2. CASE ~(j < p)
        <3>1. j + 1 \in 1 .. Len(q) /\ j + 1 # p /\ y[j] = q[j + 1]
            BY <1>2, <2>2
        <3> QED
            BY <2>2, <3>1
    <2> QED
        BY <2>1, <2>2
<1>4. InChain(y, n, h, Y)
    <2>1. ASSUME NEW j \in 1 .. Len(y)
          PROVE  y[j] \in Y /\ Slot(n, y[j].key) = h
        <3>1. PICK i \in 1 .. Len(q) : i # p /\ y[j] = q[i]
            BY <1>3
        <3>2. q[i] \in X /\ Slot(n, q[i].key) = h /\ q[i] # q[p]
            BY <1>1, <3>1 DEF InChain
        <3> QED
            BY <1>b, <3>1, <3>2
    <2>2. ASSUME NEW j \in 1 .. Len(y), NEW k \in 1 .. Len(y), y[j].key = y[k].key
          PROVE  j = k
        <3>1. PICK i \in 1 .. Len(q) : i # p /\ y[j] = q[i] /\ i = IF j < p THEN j ELSE j + 1
            BY <1>3
        <3>2. PICK m \in 1 .. Len(q) : m # p /\ y[k] = q[m] /\ m = IF k < p THEN k ELSE k + 1
            BY <1>3
        <3>3. i = m
            BY <1>1, <2>2, <3>1, <3>2 DEF InChain
        <3>4. p \in Int /\ j \in Int /\ k \in Int
            BY <1>2
        <3>5. i = IF j < p THEN j ELSE j + 1
            BY <3>1
        <3>6. i = IF k < p THEN k ELSE k + 1
            BY <3>2, <3>3
        <3> QED
            BY <3>4, <3>5, <3>6
    <2> QED
        BY <2>1, <2>2 DEF InChain
<1>5. ASSUME NEW e \in Y, Slot(n, e.key) = h
      PROVE  \E j \in 1 .. Len(y) : y[j] = e
    <2>1. PICK i \in 1 .. Len(q) : q[i] = e
        BY <1>b, <1>5 DEF Keeps, Found
    <2>2. i # p
        BY <1>b, <2>1
    <2>3. CASE i < p
        <3>1. i \in 1 .. Len(q) - 1 /\ i \in 1 .. Len(y)
            BY <1>2, <2>3
        <3> QED
            BY <1>2, <2>1, <2>3, <3>1
    <2>4. CASE i > p
        <3>1. i - 1 \in 1 .. Len(q) - 1 /\ i - 1 \in 1 .. Len(y) /\ ~(i - 1 < p) /\ (i - 1) + 1 = i
            BY <1>2, <2>4
        <3>2. y[i - 1] = q[i]
            BY <1>2, <3>1
        <3> QED
            BY <2>1, <3>1, <3>2
    <2> QED
        BY <1>2, <2>2, <2>3, <2>4
<1>6. ASSUME NEW e \in Stored, Slot(n, e.key) # h
      PROVE  e \in X <=> e \in Y
    <2>1. Slot(n, q[p].key) = h
        BY <1>1 DEF InChain
    <2> QED
        BY <1>b, <1>6, <2>1
<1>7. Y \in SUBSET Stored
    BY <1>1, <1>b
<1>8. /\ \A e \in Y : Slot(n, e.key) = h => \E j \in 1 .. Len(y) : y[j] = e
      /\ \A e \in Stored : Slot(n, e.key) # h => (e \in X <=> e \in Y)
    BY <1>5, <1>6
<1>9. Keeps([t EXCEPT ![h] = y], n, Y)
    BY <1>2, <1>4, <1>7, <1>8, ChainChanged
<1> QED
    BY <1>a, <1>b, <1>9

(* The value of an entry is changed. *)
LEMMA Changed ==
    ASSUME NEW t, NEW n, NEW X, Keeps(t, n, X), NEW h \in 0 .. n - 1, NEW q, q = t[h],
           NEW p \in 1 .. Len(q), NEW f \in Stored, f.key = q[p].key,
           NEW w, w = [t EXCEPT ![h] = [q EXCEPT ![p] = f]]
    PROVE  Keeps(w, n, {e \in X : e.key # f.key} \cup {f})
<1>1. q \in Seq(Stored) /\ InChain(q, n, h, X) /\ X \in SUBSET Stored
    BY DEF Keeps
<1>a. PICK y : y = [q EXCEPT ![p] = f]
    OBVIOUS
<1>b. PICK Y : Y = {e \in X : e.key # f.key} \cup {f}
    OBVIOUS
<1>2. y \in Seq(Stored) /\ Len(y) = Len(q) /\ y[p] = f /\ \A j \in 1 .. Len(q) : j # p => y[j] = q[j]
    BY <1>1, <1>a
<1>3. \A j \in 1 .. Len(q) : y[j].key = q[j].key
    BY <1>2
<1>4. \A j \in 1 .. Len(q) : j # p => q[j].key # f.key
    BY <1>1 DEF InChain
<1>5. InChain(y, n, h, Y)
    <2>1. ASSUME NEW j \in 1 .. Len(y)
          PROVE  y[j] \in Y /\ Slot(n, y[j].key) = h
        <3>1. y[j] \in Y
            BY <1>1, <1>2, <1>4, <1>b DEF InChain
        <3>2. Slot(n, q[j].key) = h
            BY <1>1, <1>2 DEF InChain
        <3> QED
            BY <1>2, <1>3, <3>1, <3>2
    <2>2. ASSUME NEW j \in 1 .. Len(y), NEW k \in 1 .. Len(y), y[j].key = y[k].key
          PROVE  j = k
        BY <1>1, <1>2, <1>3, <2>2 DEF InChain
    <2> QED
        BY <2>1, <2>2 DEF InChain
<1>6. ASSUME NEW e \in Y, Slot(n, e.key) = h
      PROVE  \E j \in 1 .. Len(y) : y[j] = e
    <2>1. CASE e = f
        BY <1>2, <2>1
    <2>2. CASE e \in X /\ e.key # f.key
        <3>1. PICK i \in 1 .. Len(q) : q[i] = e
            BY <1>6, <2>2 DEF Keeps, Found
        <3>2. i # p
            BY <2>2, <3>1
        <3> QED
            BY <1>2, <3>1, <3>2
    <2> QED
        BY <1>b, <2>1, <2>2
<1>7. ASSUME NEW e \in Stored, Slot(n, e.key) # h
      PROVE  e \in X <=> e \in Y
    <2>1. Slot(n, f.key) = h
        BY <1>1 DEF InChain
    <2> QED
        BY <1>7, <1>b, <2>1
<1>8. Y \in SUBSET Stored
    BY <1>1, <1>b
<1>c. /\ \A e \in Y : Slot(n, e.key) = h => \E j \in 1 .. Len(y) : y[j] = e
      /\ \A e \in Stored : Slot(n, e.key) # h => (e \in X <=> e \in Y)
    BY <1>6, <1>7
<1>9. Keeps([t EXCEPT ![h] = y], n, Y)
    BY <1>2, <1>5, <1>8, <1>c, ChainChanged
<1> QED
    BY <1>a, <1>b, <1>9

LEMMA EntryFacts ==
    ASSUME NEW k \in Key, NEW v \in Val
    PROVE  Entry(k, v) \in Stored /\ Entry(k, v).key = k /\ Entry(k, v).val = v
BY DEF Entry, Stored

(* A new key is put at the head of its chain; a table that has the key is  *)
(* only grown.                                                             *)
LEMMA AddFacts ==
    ASSUME NEW d, NEW X, Full(d, X), NEW k \in Key, NEW v \in Val, NEW a, a = dictAdd(d, k, v)
    PROVE  /\ a.ht.size # 0
           /\ a.added => /\ Full(a.ht, X \cup {Entry(k, v)}) /\ a.ht.used = d.used + 1
                         /\ \A e \in X : e.key # k
           /\ ~a.added => /\ Full(a.ht, X) /\ a.ht.used = d.used
                          /\ Position(a.ht, k) # 0
           /\ a.added \in BOOLEAN
<1>1. PICK g : g = _dictExpandIfNeeded(d)
    OBVIOUS
<1>2. Full(g, X) /\ g.used = d.used /\ g.size # 0 /\ g.used < g.size
    BY <1>1, Grows
<1>3. Keeps(g.table, g.size, X)
    BY <1>2, HoldingSize
<1>4. PICK h : h = Slot(g.size, k)
    OBVIOUS
<1>5. h \in 0 .. g.size - 1
    BY <1>3, <1>4, SlotFacts DEF Keeps
<1>6. PICK e : e = Entry(k, v)
    OBVIOUS
<1>7. e \in Stored /\ e.key = k
    BY <1>6, EntryFacts
<1>8. a = IF Position(g, k) # 0 THEN [added |-> FALSE, ht |-> g]
          ELSE [added |-> TRUE, ht |-> [g EXCEPT !.table[h] = <<e>> \o @, !.used = @ + 1]]
    BY <1>1, <1>4, <1>6 DEF dictAdd
<1>9. CASE Position(g, k) # 0
    <2>1. a.added = FALSE /\ a.ht = g
        BY <1>8, <1>9
    <2> QED
        BY <1>2, <1>9, <2>1
<1>10. CASE Position(g, k) = 0
    <2>0. g = [size |-> g.size, used |-> g.used, table |-> g.table] /\ g.used \in Nat /\ g.size \in Nat
        BY <1>2 DEF Full
    <2>1. a.added = TRUE /\ a.ht = [g EXCEPT !.table[h] = <<e>> \o @, !.used = @ + 1]
        BY <1>8, <1>10
    <2>2. Move(g.table, g.size, e) = [g.table EXCEPT ![h] = <<e>> \o @]
        BY <1>4, <1>7 DEF Move
    <2>3. a.ht = [size |-> g.size, used |-> g.used + 1, table |-> Move(g.table, g.size, e)]
        <3>1. PICK t : t = Move(g.table, g.size, e)
            OBVIOUS
        <3>2. [g EXCEPT !.table[h] = <<e>> \o @, !.used = @ + 1]
              = [g EXCEPT !.table = [g.table EXCEPT ![h] = <<e>> \o @], !.used = @ + 1]
            BY <2>0
        <3>3. a.ht = [g EXCEPT !.table = t, !.used = @ + 1]
            BY <2>1, <2>2, <3>1, <3>2
        <3>4. a.ht = [size |-> g.size, used |-> g.used + 1, table |-> t]
            BY <2>0, <3>3
        <3> QED
            BY <3>1, <3>4
    <2>4. \A f \in X : f.key # k
        BY <1>3, <1>10, PositionFacts
    <2>5. Keeps(Move(g.table, g.size, e), g.size, X \cup {e})
        BY <1>3, <1>7, <2>4, Put
    <2>6. PICK w : w = Move(g.table, g.size, e)
        OBVIOUS
    <2>7. PICK c : c = a.ht
        OBVIOUS
    <2>8. c = [size |-> g.size, used |-> g.used + 1, table |-> w]
        BY <2>3, <2>6, <2>7
    <2>9. Full(c, X \cup {e}) /\ c.used = d.used + 1 /\ c.size # 0
        <3>1. g.used + 1 <= g.size /\ g.used + 1 \in Nat
            BY <1>2, <2>0
        <3>2. c.size = g.size /\ c.used = g.used + 1 /\ c.table = w
            BY <2>8
        <3>3. Holding(c.table, c.size, X \cup {e})
            BY <2>5, <2>6, <3>2 DEF Holding
        <3> QED
            BY <1>2, <2>0, <2>8, <3>1, <3>2, <3>3 DEF Full
    <2> QED
        BY <1>6, <2>1, <2>4, <2>7, <2>9
<1> QED
    BY <1>9, <1>10

(* The entries when a key is given a value. *)
With(X, k, v) == {e \in X : e.key # k} \cup {Entry(k, v)}

LEMMA ReplaceFacts ==
    ASSUME NEW d, NEW X, Full(d, X), NEW k \in Key, NEW v \in Val, NEW r, r = dictReplace(d, k, v)
    PROVE  /\ Full(r, With(X, k, v))
           /\ r.used = IF \E e \in X : e.key = k THEN d.used ELSE d.used + 1
<1>1. PICK a : a = dictAdd(d, k, v)
    OBVIOUS
<1>2. /\ a.ht.size # 0
      /\ a.added => /\ Full(a.ht, X \cup {Entry(k, v)}) /\ a.ht.used = d.used + 1
                    /\ \A e \in X : e.key # k
      /\ ~a.added => /\ Full(a.ht, X) /\ a.ht.used = d.used
                     /\ Position(a.ht, k) # 0
      /\ a.added \in BOOLEAN
    BY <1>1, AddFacts, SMTT(30)
<1>3. CASE a.added
    <2>1. r = a.ht
        BY <1>1, <1>3 DEF dictReplace
    <2>2. With(X, k, v) = X \cup {Entry(k, v)}
        BY <1>2, <1>3 DEF With
    <2> QED
        BY <1>2, <1>3, <2>1, <2>2
<1>4. CASE ~a.added
    <2>1. PICK c : c = a.ht
        OBVIOUS
    <2>2. Full(c, X) /\ c.used = d.used /\ c.size # 0
        BY <1>2, <1>4, <2>1
    <2>3. c = [size |-> c.size, used |-> c.used, table |-> c.table] /\ Keeps(c.table, c.size, X)
        BY <2>2, HoldingSize DEF Full
    <2>4. PICK h : h = Slot(c.size, k)
        OBVIOUS
    <2>5. PICK q : q = c.table[h]
        OBVIOUS
    <2>6. PICK p : p = Position(c, k)
        OBVIOUS
    <2>7. /\ h \in 0 .. c.size - 1 /\ q \in Seq(Stored) /\ InChain(q, c.size, h, X)
          /\ p \in 1 .. Len(q) /\ q[p].key = k /\ q[p] \in X
        BY <1>2, <1>4, <2>1, <2>3, <2>4, <2>5, <2>6, PositionFacts
    <2>8. PICK t : t = c.table
        OBVIOUS
    <2>9. PICK f : f = Entry(k, v)
        OBVIOUS
    <2>10. f \in Stored /\ f.key = k
        BY <2>9, EntryFacts
    <2>11. [q[p] EXCEPT !.val = v] = f
        <3>1. q[p] \in Stored
            BY <2>7
        <3> QED
            BY <2>7, <2>9, <3>1 DEF Entry, Stored
    <2>12. r = [c EXCEPT !.table[h][p].val = v]
        BY <1>1, <1>4, <2>1, <2>4, <2>6 DEF dictReplace
    <2>13. r = [size |-> c.size, used |-> c.used, table |-> [t EXCEPT ![h] = [q EXCEPT ![p] = f]]]
        <3>1. [t EXCEPT ![h][p].val = v] = [t EXCEPT ![h] = [q EXCEPT ![p] = [q[p] EXCEPT !.val = v]]]
            BY <2>5, <2>8
        <3>2. [c EXCEPT !.table[h][p].val = v] = [size |-> c.size, used |-> c.used, table |-> [t EXCEPT ![h][p].val = v]]
            BY <2>3, <2>8
        <3> QED
            BY <2>11, <2>12, <3>1, <3>2
    <2>14. t[h] = q
        BY <2>5, <2>8
    <2>15. PICK w : w = [t EXCEPT ![h] = [q EXCEPT ![p] = f]]
        OBVIOUS
    <2>16. Keeps(w, c.size, {e \in X : e.key # f.key} \cup {f})
        BY <2>3, <2>7, <2>8, <2>10, <2>14, <2>15, Changed
    <2>17. {e \in X : e.key # f.key} \cup {f} = With(X, k, v)
        BY <2>9, <2>10 DEF With
    <2>18. r = [size |-> c.size, used |-> c.used, table |-> w]
        BY <2>13, <2>15
    <2>19. r.size = c.size /\ r.used = c.used /\ r.table = w
        BY <2>18
    <2>20. Full(r, With(X, k, v))
        <3>1. Holding(r.table, r.size, With(X, k, v))
            BY <2>16, <2>17, <2>19 DEF Holding
        <3> QED
            BY <2>2, <2>18, <2>19, <3>1 DEF Full
    <2>21. \E e \in X : e.key = k
        BY <2>7
    <2> QED
        BY <2>2, <2>19, <2>20, <2>21
<1> QED
    BY <1>2, <1>3, <1>4

LEMMA DeleteFacts ==
    ASSUME NEW d, NEW X, Full(d, X), NEW k \in Key, NEW r, r = dictDelete(d, k),
           \* used counts the entries, so a table with one has one to count down
           (\E e \in X : e.key = k) => d.used > 0
    PROVE  /\ Full(r, {e \in X : e.key # k})
           /\ r.used = IF \E e \in X : e.key = k THEN d.used - 1 ELSE d.used
<1>1. CASE d.size = 0
    <2>1. r = d
        BY <1>1 DEF dictDelete
    <2>2. X = {}
        BY <1>1 DEF Full, Holding, Keeps
    <2> QED
        BY <2>1, <2>2
<1>2. CASE d.size # 0 /\ Position(d, k) = 0
    <2>1. r = d
        BY <1>2 DEF dictDelete
    <2>2. Keeps(d.table, d.size, X)
        BY <1>2, HoldingSize
    <2>3. \A e \in X : e.key # k
        BY <1>2, <2>2, PositionFacts
    <2>4. {e \in X : e.key # k} = X
        BY <2>3
    <2> QED
        BY <2>1, <2>3, <2>4
<1>3. CASE d.size # 0 /\ Position(d, k) # 0
    <2>1. Keeps(d.table, d.size, X)
        BY <1>3, HoldingSize
    <2>2. d = [size |-> d.size, used |-> d.used, table |-> d.table] /\ d.used \in Nat /\ d.size \in Nat /\ d.used <= d.size
        BY DEF Full
    <2>4. PICK h : h = Slot(d.size, k)
        OBVIOUS
    <2>5. PICK q : q = d.table[h]
        OBVIOUS
    <2>6. PICK p : p = Position(d, k)
        OBVIOUS
    <2>7. /\ h \in 0 .. d.size - 1 /\ q \in Seq(Stored) /\ InChain(q, d.size, h, X)
          /\ p \in 1 .. Len(q) /\ q[p].key = k /\ q[p] \in X
        BY <1>3, <2>1, <2>4, <2>5, <2>6, PositionFacts
    <2>8. PICK t : t = d.table
        OBVIOUS
    <2>9. r = [d EXCEPT !.table[h] = RemoveAt(@, p), !.used = @ - 1]
        BY <1>3, <2>4, <2>6 DEF dictDelete
    <2>10. PICK w : w = [t EXCEPT ![h] = RemoveAt(q, p)]
        OBVIOUS
    <2>11. r = [size |-> d.size, used |-> d.used - 1, table |-> w]
        <3>1. [t EXCEPT ![h] = RemoveAt(@, p)] = [t EXCEPT ![h] = RemoveAt(q, p)]
            BY <2>5, <2>8
        <3>2. [d EXCEPT !.table[h] = RemoveAt(@, p), !.used = @ - 1]
              = [d EXCEPT !.table = [t EXCEPT ![h] = RemoveAt(@, p)], !.used = @ - 1]
            BY <2>2, <2>8
        <3>3. r = [d EXCEPT !.table = w, !.used = @ - 1]
            BY <2>9, <2>10, <3>1, <3>2
        <3> QED
            BY <2>2, <3>3
    <2>12. t[h] = q
        BY <2>5, <2>8
    <2>13. Keeps(w, d.size, X \ {q[p]})
        BY <2>1, <2>7, <2>8, <2>10, <2>12, Removed
    <2>14. X \ {q[p]} = {e \in X : e.key # k}
        <3>1. \A e \in X : e.key = k => e = q[p]
            BY <2>1, <2>7, KeyOnce
        <3> QED
            BY <2>7, <3>1
    <2>15. \E e \in X : e.key = k
        BY <2>7
    <2>16. r.size = d.size /\ r.used = d.used - 1 /\ r.table = w
        BY <2>11
    <2>17. d.used - 1 \in Nat /\ d.used - 1 <= d.size
        BY <2>2, <2>15
    <2>18. Holding(r.table, r.size, {e \in X : e.key # k})
        BY <2>13, <2>14, <2>16 DEF Holding
    <2> QED
        BY <2>2, <2>11, <2>15, <2>16, <2>17, <2>18 DEF Full
<1> QED
    BY <1>1, <1>2, <1>3

LEMMA FindFacts ==
    ASSUME NEW d, NEW X, Full(d, X), NEW k \in Key
    PROVE  /\ (\A e \in X : e.key # k) => dictFind(d, k) = {}
           /\ \A e \in X : e.key = k => dictFind(d, k) = {e.val}
<1>1. CASE d.size = 0
    <2>1. X = {}
        BY <1>1 DEF Full, Holding, Keeps
    <2> QED
        BY <1>1, <2>1 DEF dictFind
<1>2. CASE d.size # 0 /\ Position(d, k) = 0
    <2>1. Keeps(d.table, d.size, X)
        BY <1>2, HoldingSize
    <2>2. \A e \in X : e.key # k
        BY <1>2, <2>1, PositionFacts
    <2> QED
        BY <1>2, <2>2 DEF dictFind
<1>3. CASE d.size # 0 /\ Position(d, k) # 0
    <2>1. Keeps(d.table, d.size, X)
        BY <1>3, HoldingSize
    <2>2. PICK h : h = Slot(d.size, k)
        OBVIOUS
    <2>3. PICK q : q = d.table[h]
        OBVIOUS
    <2>4. PICK p : p = Position(d, k)
        OBVIOUS
    <2>5. q[p].key = k /\ q[p] \in X
        BY <1>3, <2>1, <2>2, <2>3, <2>4, PositionFacts
    <2>6. dictFind(d, k) = {q[p].val}
        BY <1>3, <2>2, <2>3, <2>4 DEF dictFind
    <2>7. \A e \in X : e.key = k => e = q[p]
        BY <2>1, <2>5, KeyOnce
    <2> QED
        BY <2>5, <2>6, <2>7
<1> QED
    BY <1>1, <1>2, <1>3

-----------------------------------------------------------------------------
(* Iteration *)

(* The entries an iterator has yet to return. *)
Ahead(it, n, X) ==
    {x \in X : Slot(n, x.key) > it.index \/ \E j \in 1 .. Len(it.rest) : it.rest[j] = x}

(* A table of n chains, of whatever. *)
Shaped(d, n) ==
    /\ d = [size |-> n, used |-> d.used, table |-> d.table]
    /\ n # 0 => d.table = [i \in 0 .. n - 1 |-> d.table[i]]

(* An iteration over the table t of n chains with the entries X: what was  *)
(* returned is what is not ahead, each once, and the chains after the      *)
(* iterator are as they were.                                              *)
Iterating(st, t, n, X) ==
    /\ st = [iter |-> st.iter, seen |-> st.seen, ht |-> st.ht]
    /\ st.iter = [index |-> st.iter.index, rest |-> st.iter.rest]
    /\ st.iter.index \in -1 .. n - 1 /\ st.iter.rest \in Seq(Stored)
    /\ InChain(st.iter.rest, n, st.iter.index, X)
    /\ Shaped(st.ht, n)
    /\ \A i \in 0 .. n - 1 : i > st.iter.index => st.ht.table[i] = t[i]
    /\ st.seen \in Seq(Stored)
    /\ ToSet(st.seen) = X \ Ahead(st.iter, n, X)
    /\ IsFiniteSet(ToSet(st.seen)) /\ Cardinality(ToSet(st.seen)) = Len(st.seen)

LEMMA TailFacts ==
    ASSUME NEW q \in Seq(Stored), q # <<>>, NEW y, y = Tail(q)
    PROVE  /\ Head(q) = q[1] /\ Len(q) \in Nat \ {0} /\ q[1] \in Stored
           /\ y \in Seq(Stored) /\ Len(y) = Len(q) - 1
           /\ \A j \in 1 .. Len(q) - 1 : y[j] = q[j + 1]
OBVIOUS

LEMMA OneMoreSeen ==
    ASSUME NEW q \in Seq(Stored), NEW e \in Stored, NEW y, y = Append(q, e)
    PROVE  y \in Seq(Stored) /\ Len(y) = Len(q) + 1 /\ ToSet(y) = ToSet(q) \cup {e}
<1>1. y \in Seq(Stored) /\ Len(y) = Len(q) + 1 /\ Len(q) \in Nat /\ y[Len(q) + 1] = e
      /\ \A j \in 1 .. Len(q) : y[j] = q[j]
    OBVIOUS
<1>2. DOMAIN y = 1 .. Len(q) + 1 /\ DOMAIN q = 1 .. Len(q)
    BY <1>1
<1>3. \A j : j \in 1 .. Len(q) + 1 <=> j \in 1 .. Len(q) \/ j = Len(q) + 1
    BY <1>1
<1>4. ToSet(y) = ToSet(q) \cup {e}
    BY <1>1, <1>2, <1>3 DEF ToSet
<1> QED
    BY <1>1, <1>4

(* The next entry, if there is one ahead, is the first of a chain q that   *)
(* holds, with the chains after it, all that is ahead.                     *)
FirstAhead(x, it, q, i, n, X) ==
    /\ i >= it.index /\ q # <<>> /\ InChain(q, n, i, X)
    /\ x.entry = Head(q) /\ x.iter = [index |-> i, rest |-> Tail(q)]
    /\ Ahead(it, n, X) = {e \in X : Slot(n, e.key) > i \/ \E j \in 1 .. Len(q) : q[j] = e}

LEMMA NextFacts ==
    ASSUME NEW st, NEW t, NEW n, NEW X, Holding(t, n, X), Iterating(st, t, n, X),
           NEW x, x = dictNext(st.ht, st.iter)
    PROVE  \/ ~x.some /\ Ahead(st.iter, n, X) = {}
           \/ /\ x.some /\ Keeps(t, n, X)
              /\ \E q \in Seq(Stored), i \in 0 .. n - 1 : FirstAhead(x, st.iter, q, i, n, X)
<1>1. PICK it : it = st.iter
    OBVIOUS
<1>2. PICK d : d = st.ht
    OBVIOUS
<1>3. /\ it = [index |-> it.index, rest |-> it.rest]
      /\ it.index \in -1 .. n - 1 /\ it.rest \in Seq(Stored) /\ InChain(it.rest, n, it.index, X)
      /\ d.size = n /\ \A i \in 0 .. n - 1 : i > it.index => d.table[i] = t[i]
    BY <1>1, <1>2 DEF Iterating, Shaped
<1>4. n \in Nat /\ it.index \in Int
    BY <1>3 DEF Holding, Keeps
<1> DEFINE later == {i \in it.index + 1 .. n - 1 : d.table[i] # <<>>}
           i0 == CHOOSE i \in later : \A j \in later : i <= j
<1>5. x = IF it.rest # <<>>
          THEN [some |-> TRUE, entry |-> Head(it.rest), iter |-> [it EXCEPT !.rest = Tail(@)]]
          ELSE IF later = {} THEN [some |-> FALSE]
          ELSE [some |-> TRUE, entry |-> Head(d.table[i0]),
                iter |-> [index |-> i0, rest |-> Tail(d.table[i0])]]
    BY <1>1, <1>2, <1>3 DEF dictNext
<1>6. \A i \in it.index + 1 .. n - 1 : i \in 0 .. n - 1 /\ i > it.index /\ d.table[i] = t[i]
    BY <1>3, <1>4
<1> HIDE DEF later, i0
<1>7. CASE it.rest # <<>>
    <2>1. x.some /\ x.entry = Head(it.rest) /\ x.iter = [it EXCEPT !.rest = Tail(@)]
        BY <1>5, <1>7
    <2>2. x.iter = [index |-> it.index, rest |-> Tail(it.rest)]
        <3>1. PICK i : i = it.index
            OBVIOUS
        <3>2. PICK q : q = it.rest
            OBVIOUS
        <3>3. it = [index |-> i, rest |-> q]
            BY <1>3, <3>1, <3>2
        <3>4. PICK r : r = Tail(q)
            OBVIOUS
        <3>5. x.iter = [it EXCEPT !.rest = r]
            BY <2>1, <3>2, <3>4
        <3>6. x.iter = [index |-> i, rest |-> r]
            BY <3>3, <3>5
        <3> QED
            BY <3>1, <3>2, <3>4, <3>6
    <2>3. 1 \in 1 .. Len(it.rest)
        BY <1>3, <1>7
    <2>4. it.rest[1] \in X /\ Slot(n, it.rest[1].key) = it.index
        BY <1>3, <2>3 DEF InChain
    <2>5. Keeps(t, n, X)
        BY <2>4 DEF Holding
    <2>6. it.index \in 0 .. n - 1
        BY <2>4, <2>5, SlotFacts DEF Keeps, Stored
    <2>7. Ahead(it, n, X) = {e \in X : Slot(n, e.key) > it.index \/ \E j \in 1 .. Len(it.rest) : it.rest[j] = e}
        BY DEF Ahead
    <2>8. it.index >= it.index
        BY <1>4
    <2>9. FirstAhead(x, it, it.rest, it.index, n, X)
        BY <1>3, <1>7, <2>1, <2>2, <2>7, <2>8 DEF FirstAhead
    <2> QED
        BY <1>1, <1>3, <2>1, <2>5, <2>6, <2>9
<1>8. CASE it.rest = <<>> /\ later = {}
    <2>1. ~x.some
        BY <1>5, <1>8
    <2>2. ASSUME NEW e \in X, e \in Ahead(it, n, X)
          PROVE  FALSE
        <3>1. Slot(n, e.key) > it.index
            BY <1>8, <2>2 DEF Ahead
        <3>2. Keeps(t, n, X)
            BY DEF Holding
        <3>3. PICK i \in 0 .. n - 1 : i = Slot(n, e.key)
            BY <3>2, SlotFacts DEF Keeps, Stored
        <3>4. t[i] # <<>>
            BY <3>2, <3>3 DEF Keeps, Found
        <3>5. i \in it.index + 1 .. n - 1
            BY <1>4, <3>1, <3>3
        <3>6. i \in later
            BY <1>6, <3>4, <3>5 DEF later
        <3> QED
            BY <1>8, <3>6
    <2>3. Ahead(it, n, X) = {}
        BY <2>2 DEF Ahead
    <2> QED
        BY <1>1, <2>1, <2>3
<1>9. CASE it.rest = <<>> /\ later # {}
    <2>1. PICK i : i = i0
        OBVIOUS
    <2>2. i \in later /\ \A j \in later : i <= j
        <3>1. later \in SUBSET Nat
            BY <1>6 DEF later
        <3>2. \E a \in later : \A j \in later : a <= j
            BY <1>9, <3>1, Least
        <3> QED
            BY <2>1, <3>2 DEF i0
    <2>3. i \in it.index + 1 .. n - 1 /\ d.table[i] # <<>>
        BY <2>2 DEF later
    <2>4. i \in 0 .. n - 1 /\ i > it.index /\ d.table[i] = t[i]
        BY <1>6, <2>3
    <2>5. n # 0
        BY <2>4
    <2>6. Keeps(t, n, X)
        BY <2>5 DEF Holding
    <2>7. PICK q : q = t[i]
        OBVIOUS
    <2>8. q \in Seq(Stored) /\ InChain(q, n, i, X) /\ q # <<>>
        BY <2>3, <2>4, <2>6, <2>7 DEF Keeps
    <2>9. x.some /\ x.entry = Head(q) /\ x.iter = [index |-> i, rest |-> Tail(q)]
        BY <1>5, <1>9, <2>1, <2>4, <2>7
    <2>10. ASSUME NEW e \in X
           PROVE  e \in Ahead(it, n, X) <=> Slot(n, e.key) > i \/ \E j \in 1 .. Len(q) : q[j] = e
        <3>1. PICK h \in 0 .. n - 1 : h = Slot(n, e.key)
            BY <2>6, SlotFacts DEF Keeps, Stored
        <3>2. e \in Ahead(it, n, X) <=> h > it.index
            <4>1. ~ \E j \in 1 .. Len(it.rest) : it.rest[j] = e
                BY <1>9
            <4> QED
                BY <3>1, <4>1 DEF Ahead
        <3>3. (\E j \in 1 .. Len(q) : q[j] = e) <=> h = i
            <4>1. (\E j \in 1 .. Len(q) : q[j] = e) => h = i
                BY <2>8, <3>1 DEF InChain
            <4>2. h = i => \E j \in 1 .. Len(q) : q[j] = e
                BY <2>6, <2>7, <3>1 DEF Keeps, Found
            <4> QED
                BY <4>1, <4>2
        <3>4. h > it.index => h >= i
            <4>1. ASSUME h > it.index
                  PROVE  h \in later
                <5>1. h \in it.index + 1 .. n - 1
                    BY <1>4, <4>1
                <5>2. t[h] # <<>>
                    BY <2>6, <3>1 DEF Keeps, Found
                <5> QED
                    BY <1>6, <5>1, <5>2 DEF later
            <4> QED
                BY <2>2, <2>4, <4>1
        <3>5. h > it.index <=> h > i \/ h = i
            BY <1>4, <2>4, <3>4
        <3> QED
            BY <3>1, <3>2, <3>3, <3>5
    <2>11. Ahead(it, n, X) = {e \in X : Slot(n, e.key) > i \/ \E j \in 1 .. Len(q) : q[j] = e}
        BY <2>10 DEF Ahead
    <2>12. i >= it.index
        BY <1>4, <2>4
    <2>13. FirstAhead(x, it, q, i, n, X)
        BY <2>8, <2>9, <2>11, <2>12 DEF FirstAhead
    <2> QED
        BY <1>1, <2>4, <2>6, <2>8, <2>9, <2>13
<1> QED
    BY <1>7, <1>8, <1>9

LEMMA Fields ==
    ASSUME NEW n, NEW a, NEW t, NEW w, NEW u, NEW c, c = [size |-> n, used |-> a, table |-> t],
           NEW r, r = [c EXCEPT !.table = w, !.used = u]
    PROVE  r = [size |-> n, used |-> u, table |-> w]
OBVIOUS

(* Deleting a key changes no other chain than its own. *)
LEMMA Apart ==
    ASSUME NEW d, NEW n \in Nat \ {0}, Shaped(d, n), NEW k \in Key, NEW r, r = dictDelete(d, k)
    PROVE  /\ Shaped(r, n)
           /\ \A i \in 0 .. n - 1 : i # Slot(n, k) => r.table[i] = d.table[i]
<1>1. CASE Position(d, k) = 0
    <2>1. r = d
        BY <1>1 DEF dictDelete
    <2> QED
        BY <2>1
<1>2. CASE Position(d, k) # 0
    <2>1. PICK t : t = d.table
        OBVIOUS
    <2>2. PICK p : p = Position(d, k)
        OBVIOUS
    <2>3. PICK h : h = Slot(n, k)
        OBVIOUS
    <2>4. d.size = n /\ n # 0 /\ d.table = [i \in 0 .. n - 1 |-> d.table[i]]
        BY DEF Shaped
    <2>5. r = [d EXCEPT !.table[h] = RemoveAt(@, p), !.used = @ - 1]
        BY <1>2, <2>2, <2>3, <2>4 DEF dictDelete
    <2>6. [d EXCEPT !.table[h] = RemoveAt(@, p), !.used = @ - 1]
          = [d EXCEPT !.table = [t EXCEPT ![h] = RemoveAt(t[h], p)], !.used = @ - 1]
        BY <2>1 DEF Shaped
    <2>7. PICK w : w = [t EXCEPT ![h] = RemoveAt(t[h], p)]
        OBVIOUS
    <2>8. PICK u : u = d.used - 1
        OBVIOUS
    <2>9. r = [d EXCEPT !.table = w, !.used = u]
        BY <2>5, <2>6, <2>7, <2>8
    <2>10. r = [size |-> n, used |-> u, table |-> w]
        <3>1. PICK a : a = d.used
            OBVIOUS
        <3>2. d = [size |-> n, used |-> a, table |-> t]
            BY <2>1, <3>1 DEF Shaped
        <3> QED
            BY <2>9, <3>2, Fields
    <2>11. w = [i \in 0 .. n - 1 |-> w[i]] /\ \A i \in 0 .. n - 1 : i # h => w[i] = t[i]
        <3>1. t = [i \in 0 .. n - 1 |-> t[i]]
            BY <2>1, <2>4
        <3>2. PICK y : y = RemoveAt(t[h], p)
            OBVIOUS
        <3>3. w = [t EXCEPT ![h] = y]
            BY <2>7, <3>2
        <3> QED
            BY <3>1, <3>3
    <2>12. r.used = u /\ r.table = w
        BY <2>10
    <2> QED
        BY <2>1, <2>3, <2>10, <2>11, <2>12 DEF Shaped
<1> QED
    BY <1>1, <1>2

(* One step returns an entry that was not returned before, if any is left; *)
(* deleting it takes nothing from what is ahead.                           *)
LEMMA VisitFacts ==
    ASSUME NEW st, NEW t, NEW n, NEW X, Holding(t, n, X), Iterating(st, t, n, X),
           NEW gone, NEW v, v = Visit(st, gone)
    PROVE  /\ Iterating(v, t, n, X)
           /\ \/ v = st /\ ToSet(st.seen) = X
              \/ Len(v.seen) = Len(st.seen) + 1
<1>1. PICK x : x = dictNext(st.ht, st.iter)
    OBVIOUS
<1>2. v = IF ~x.some THEN st
          ELSE [iter |-> x.iter, seen |-> Append(st.seen, x.entry),
                ht |-> IF x.entry.key \in gone THEN dictDelete(st.ht, x.entry.key) ELSE st.ht]
    BY <1>1 DEF Visit
<1>3. ToSet(st.seen) = X \ Ahead(st.iter, n, X)
    BY DEF Iterating
<1>4. CASE ~x.some /\ Ahead(st.iter, n, X) = {}
    <2>1. v = st /\ ToSet(st.seen) = X
        BY <1>2, <1>3, <1>4
    <2> QED
        BY <2>1
<1>5. ASSUME x.some, Keeps(t, n, X), NEW q \in Seq(Stored), NEW i \in 0 .. n - 1,
             FirstAhead(x, st.iter, q, i, n, X)
      PROVE  Iterating(v, t, n, X) /\ Len(v.seen) = Len(st.seen) + 1
    <2>0. /\ i >= st.iter.index /\ q # <<>> /\ InChain(q, n, i, X)
          /\ x.entry = Head(q) /\ x.iter = [index |-> i, rest |-> Tail(q)]
          /\ Ahead(st.iter, n, X) = {e \in X : Slot(n, e.key) > i \/ \E j \in 1 .. Len(q) : q[j] = e}
        BY <1>5 DEF FirstAhead
    <2>1. n \in Nat \ {0} /\ X \subseteq Stored
        BY <1>5 DEF Keeps
    <2>2. PICK e : e = Head(q)
        OBVIOUS
    <2>3. PICK y : y = Tail(q)
        OBVIOUS
    <2>4. /\ e = q[1] /\ Len(q) \in Nat \ {0} /\ e \in Stored
          /\ y \in Seq(Stored) /\ Len(y) = Len(q) - 1
          /\ \A j \in 1 .. Len(q) - 1 : y[j] = q[j + 1]
        BY <2>0, <2>2, <2>3, TailFacts
    <2>5. e \in X /\ Slot(n, e.key) = i /\ e.key \in Key
        <3>1. 1 \in 1 .. Len(q)
            BY <2>4
        <3>2. e \in X /\ Slot(n, e.key) = i
            BY <2>0, <2>4, <3>1 DEF InChain
        <3> QED
            BY <2>4, <3>2 DEF Stored
    <2>6. PICK it : it = [index |-> i, rest |-> y]
        OBVIOUS
    <2>7. it.index = i /\ it.rest = y /\ it = [index |-> it.index, rest |-> it.rest]
        BY <2>6
    <2>8. InChain(y, n, i, X)
        <3>1. \A j \in 1 .. Len(y) : j + 1 \in 1 .. Len(q) /\ y[j] = q[j + 1]
            BY <2>4
        <3>2. /\ \A j \in 1 .. Len(q) : q[j] \in X /\ Slot(n, q[j].key) = i
              /\ \A j, k \in 1 .. Len(q) : q[j].key = q[k].key => j = k
            BY <2>0 DEF InChain
        <3>3. \A j \in 1 .. Len(y) : y[j] \in X /\ Slot(n, y[j].key) = i
            BY <3>1, <3>2
        <3>4. ASSUME NEW j \in 1 .. Len(y), NEW k \in 1 .. Len(y), y[j].key = y[k].key
              PROVE  j = k
            <4>1. j + 1 \in 1 .. Len(q) /\ k + 1 \in 1 .. Len(q) /\ q[j + 1].key = q[k + 1].key
                BY <3>1, <3>4
            <4>2. j + 1 = k + 1
                BY <3>2, <4>1
            <4> QED
                BY <4>2
        <3> QED
            BY <3>3, <3>4 DEF InChain
    <2>9. Ahead(it, n, X) = Ahead(st.iter, n, X) \ {e} /\ e \in Ahead(st.iter, n, X)
        <3>1. ASSUME NEW f \in X
              PROVE  (\E j \in 1 .. Len(y) : y[j] = f) <=> (f # e /\ \E j \in 1 .. Len(q) : q[j] = f)
            <4>1. ASSUME NEW j \in 1 .. Len(y), y[j] = f
                  PROVE  f # e /\ \E a \in 1 .. Len(q) : q[a] = f
                <5>1. j + 1 \in 1 .. Len(q) /\ q[j + 1] = f /\ 1 \in 1 .. Len(q) /\ j + 1 # 1
                    BY <2>4, <4>1
                <5>2. f # e
                    BY <2>0, <2>4, <5>1 DEF InChain
                <5> QED
                    BY <5>1, <5>2
            <4>2. ASSUME NEW j \in 1 .. Len(q), q[j] = f, f # e
                  PROVE  \E a \in 1 .. Len(y) : y[a] = f
                <5>1. j # 1
                    BY <2>4, <4>2
                <5>2. j - 1 \in 1 .. Len(q) - 1 /\ j - 1 \in 1 .. Len(y) /\ (j - 1) + 1 = j
                    BY <2>4, <5>1
                <5>3. y[j - 1] = f
                    BY <2>4, <4>2, <5>2
                <5> QED
                    BY <5>2, <5>3
            <4> QED
                BY <4>1, <4>2
        <3>2. \E j \in 1 .. Len(q) : q[j] = e
            BY <2>4
        <3>3. \A f \in X : Slot(n, f.key) > i => f # e
            BY <2>1, <2>5
        <3>4. Ahead(it, n, X) = {f \in X : Slot(n, f.key) > i \/ \E j \in 1 .. Len(y) : y[j] = f}
            BY <2>7 DEF Ahead
        <3> QED
            BY <2>0, <2>5, <3>1, <3>2, <3>3, <3>4
    <2>10. PICK sq : sq = Append(st.seen, e)
        OBVIOUS
    <2>11. st.seen \in Seq(Stored)
        BY DEF Iterating
    <2>12. sq \in Seq(Stored) /\ Len(sq) = Len(st.seen) + 1 /\ ToSet(sq) = ToSet(st.seen) \cup {e}
        BY <2>4, <2>10, <2>11, OneMoreSeen
    <2>13. ToSet(sq) = X \ Ahead(it, n, X)
        BY <1>3, <2>5, <2>9, <2>12
    <2>14. IsFiniteSet(ToSet(sq)) /\ Cardinality(ToSet(sq)) = Len(sq)
        <3>1. IsFiniteSet(ToSet(st.seen)) /\ Cardinality(ToSet(st.seen)) = Len(st.seen)
            BY DEF Iterating
        <3>2. e \notin ToSet(st.seen)
            BY <1>3, <2>9
        <3> QED
            BY <2>12, <3>1, <3>2, FS_AddElement
    <2>15. PICK d : d = st.ht
        OBVIOUS
    <2>16. /\ Shaped(d, n)
           /\ \A j \in 0 .. n - 1 : j > st.iter.index => d.table[j] = t[j]
        BY <2>1, <2>15 DEF Iterating
    <2>17. PICK r : r = IF e.key \in gone THEN dictDelete(d, e.key) ELSE d
        OBVIOUS
    <2>18. /\ Shaped(r, n)
           /\ \A j \in 0 .. n - 1 : j # i => r.table[j] = d.table[j]
        <3>1. CASE e.key \in gone
            <4>1. r = dictDelete(d, e.key)
                BY <2>17, <3>1
            <4>2. /\ Shaped(r, n)
                  /\ \A j \in 0 .. n - 1 : j # Slot(n, e.key) => r.table[j] = d.table[j]
                BY <2>1, <2>5, <2>16, <4>1, Apart
            <4> QED
                BY <2>5, <4>2
        <3>2. CASE e.key \notin gone
            <4>1. r = d
                BY <2>17, <3>2
            <4> QED
                BY <2>16, <4>1
        <3> QED
            BY <3>1, <3>2
    <2>19. \A j \in 0 .. n - 1 : j > i => r.table[j] = t[j]
        <3> TAKE j \in 0 .. n - 1
        <3> HAVE j > i
        <3>1. st.iter.index \in -1 .. n - 1
            BY DEF Iterating
        <3>2. j # i /\ j > st.iter.index
            BY <2>0, <2>1, <3>1
        <3> QED
            BY <2>16, <2>18, <3>2
    <2>20. v = [iter |-> it, seen |-> sq, ht |-> r]
        BY <1>2, <1>5, <2>0, <2>2, <2>3, <2>6, <2>10, <2>15, <2>17
    <2>21. v.iter = it /\ v.seen = sq /\ v.ht = r /\ v = [iter |-> v.iter, seen |-> v.seen, ht |-> v.ht]
        BY <2>20
    <2>22. i \in -1 .. n - 1
        BY <2>1
    <2>23. Iterating(v, t, n, X)
        BY <2>4, <2>7, <2>8, <2>12, <2>13, <2>14, <2>18, <2>19, <2>21, <2>22 DEF Iterating
    <2> QED
        BY <2>12, <2>21, <2>23
<1>6. \/ ~x.some /\ Ahead(st.iter, n, X) = {}
      \/ /\ x.some /\ Keeps(t, n, X)
         /\ \E q \in Seq(Stored), i \in 0 .. n - 1 : FirstAhead(x, st.iter, q, i, n, X)
    BY <1>1, NextFacts
<1> QED
    BY <1>4, <1>5, <1>6

(* The iteration step by step. *)
Steps(gone, m, h) ==
    h = [i \in 0 .. m |->
            IF i = 0 THEN [iter |-> NewIterator, seen |-> <<>>, ht |-> ht]
            ELSE Visit(h[i - 1], gone)]

LEMMA StepsExist ==
    ASSUME NEW gone
    PROVE  \A m \in Nat : \E h : Steps(gone, m, h)
<1> DEFINE T == {m \in Nat : \E h : Steps(gone, m, h)}
<1>z. PICK start : start = [iter |-> NewIterator, seen |-> <<>>, ht |-> ht]
    OBVIOUS
<1>1. 0 \in T
    <2>1. PICK h : h = [j \in 0 .. 0 |-> start]
        OBVIOUS
    <2>2. h = [j \in 0 .. 0 |-> IF j = 0 THEN start ELSE Visit(h[j - 1], gone)]
        BY <2>1
    <2> QED
        BY <1>z, <2>2 DEF Steps
<1>2. ASSUME NEW m \in T
      PROVE  m + 1 \in T
    <2>0. m \in Nat
        BY <1>2
    <2>a. PICK h : Steps(gone, m, h)
        BY <1>2
    <2>b. PICK new : new = Visit(h[m], gone)
        OBVIOUS
    <2>c. PICK g : g = [j \in 0 .. m + 1 |-> IF j <= m THEN h[j] ELSE new]
        OBVIOUS
    <2>1. (\A j \in 0 .. m : g[j] = h[j]) /\ g[m + 1] = new
        BY <2>0, <2>c
    <2>2. \A j \in 0 .. m + 1 : g[j] = IF j = 0 THEN start ELSE Visit(g[j - 1], gone)
        <3> TAKE j \in 0 .. m + 1
        <3>0. h = [k \in 0 .. m |-> IF k = 0 THEN start ELSE Visit(h[k - 1], gone)]
            BY <1>z, <2>a DEF Steps
        <3>1. CASE j = 0
            BY <2>0, <2>1, <3>0, <3>1
        <3>2. CASE j # 0 /\ j <= m
            <4>1. j \in 0 .. m /\ j - 1 \in 0 .. m
                BY <2>0, <3>2
            <4>2. h[j] = Visit(h[j - 1], gone)
                BY <3>0, <3>2, <4>1
            <4> QED
                BY <2>1, <3>2, <4>1, <4>2
        <3>3. CASE j = m + 1
            <4>1. j # 0 /\ j - 1 = m /\ m \in 0 .. m
                BY <2>0, <3>3
            <4> QED
                BY <2>1, <2>b, <3>3, <4>1
        <3> QED
            BY <2>0, <3>1, <3>2, <3>3
    <2>3. g = [j \in 0 .. m + 1 |-> g[j]]
        BY <2>c
    <2>4. Steps(gone, m + 1, g)
        BY <1>z, <2>2, <2>3 DEF Steps
    <2> QED
        BY <2>0, <2>4
<1> HIDE DEF T
<1>3. \A m \in Nat : m \in T
    BY <1>1, <1>2, Induction DEF T
<1> QED
    BY <1>3 DEF T

LEMMA Starts ==
    ASSUME NEW X, Full(ht, X), NEW st, st = [iter |-> NewIterator, seen |-> <<>>, ht |-> ht],
           ht.size # 0 => ht.table = [i \in 0 .. ht.size - 1 |-> ht.table[i]]
    PROVE  Iterating(st, ht.table, ht.size, X) /\ Len(st.seen) = 0
<1>1. PICK n : n = ht.size
    OBVIOUS
<1>2. n \in Nat /\ Holding(ht.table, n, X) /\ ht = [size |-> n, used |-> ht.used, table |-> ht.table]
    BY <1>1 DEF Full
<1>3. st.iter = NewIterator /\ st.seen = <<>> /\ st.ht = ht
    OBVIOUS
<1>4. /\ st.iter.index = -1 /\ st.iter.rest = <<>>
      /\ st.iter = [index |-> st.iter.index, rest |-> st.iter.rest]
    BY <1>3 DEF NewIterator
<1>5. ToSet(<<>>) = {} /\ Len(<<>>) = 0 /\ <<>> \in Seq(Stored)
    BY DEF ToSet
<1>6. Ahead(st.iter, n, X) = X
    <2>1. ASSUME NEW x \in X
          PROVE  Slot(n, x.key) > -1
        <3>1. Keeps(ht.table, n, X)
            BY <1>2 DEF Holding
        <3>2. x \in Stored /\ n \in Nat \ {0}
            BY <3>1 DEF Keeps
        <3>3. Slot(n, x.key) \in 0 .. n - 1
            BY <3>2, SlotFacts DEF Stored
        <3> QED
            BY <1>2, <3>3
    <2> QED
        BY <1>4, <2>1 DEF Ahead
<1>7. InChain(st.iter.rest, n, st.iter.index, X)
    BY <1>4, <1>5 DEF InChain
<1>8. Shaped(st.ht, n)
    BY <1>1, <1>2, <1>3 DEF Shaped
<1>9. -1 \in -1 .. n - 1
    BY <1>2
<1>10. st = [iter |-> st.iter, seen |-> st.seen, ht |-> st.ht]
    OBVIOUS
<1>11. /\ st.seen \in Seq(Stored) /\ Len(st.seen) = 0
       /\ ToSet(st.seen) = X \ Ahead(st.iter, n, X)
       /\ IsFiniteSet(ToSet(st.seen)) /\ Cardinality(ToSet(st.seen)) = Len(st.seen)
    BY <1>3, <1>5, <1>6, FS_EmptySet
<1>12. st.iter.index \in -1 .. n - 1 /\ st.iter.rest \in Seq(Stored)
    BY <1>4, <1>5, <1>9
<1>13. \A i \in 0 .. n - 1 : i > st.iter.index => st.ht.table[i] = ht.table[i]
    BY <1>3
<1>14. Iterating(st, ht.table, n, X)
    BY <1>4, <1>7, <1>8, <1>10, <1>11, <1>12, <1>13 DEF Iterating
<1> QED
    BY <1>1, <1>11, <1>14

(* An iteration over a table of as many entries as it counts returns them  *)
(* all, each once.                                                         *)
LEMMA VisitedFacts ==
    ASSUME NEW X, Full(ht, X), IsFiniteSet(X), ht.used = Cardinality(X), NEW gone
    PROVE  ToSet(Visited(gone)) = X /\ Len(Visited(gone)) = Cardinality(X)
<1> DEFINE f == CHOOSE h : h = [i \in 0 .. ht.used + 1 |->
                    IF i = 0 THEN [iter |-> NewIterator, seen |-> <<>>, ht |-> ht]
                    ELSE Visit(h[i - 1], gone)]
<1>1. Visited(gone) = f[ht.used + 1].seen
    BY DEF Visited
<1>2. PICK m \in Nat : m = ht.used + 1
    BY DEF Full
<1>3. Steps(gone, m, f)
    <2>1. \E h : Steps(gone, m, h)
        BY StepsExist
    <2>2. f = CHOOSE h : Steps(gone, m, h)
        BY <1>2 DEF Steps
    <2> HIDE DEF f
    <2> QED
        BY <2>1, <2>2
<1> HIDE DEF f
<1>4. PICK start : start = [iter |-> NewIterator, seen |-> <<>>, ht |-> ht]
    OBVIOUS
<1>5. \A i \in 0 .. m : f[i] = IF i = 0 THEN start ELSE Visit(f[i - 1], gone)
    BY <1>3, <1>4 DEF Steps
<1>6. PICK t : t = ht.table
    OBVIOUS
<1>7. PICK n : n = ht.size
    OBVIOUS
<1>8. Holding(t, n, X) /\ n \in Nat
    BY <1>6, <1>7 DEF Full
<1>9. Iterating(start, t, n, X) /\ Len(start.seen) = 0
    <2>1. ht.size # 0 => ht.table = [i \in 0 .. ht.size - 1 |-> ht.table[i]]
        BY <1>6, <1>7, <1>8 DEF Holding, Keeps
    <2> QED
        BY <1>4, <1>6, <1>7, <2>1, Starts
<1> DEFINE Good(i) == Iterating(f[i], t, n, X) /\ (ToSet(f[i].seen) = X \/ Len(f[i].seen) = i)
           T == {i \in Nat : i <= m => Good(i)}
<1>10. 0 \in T
    <2>1. f[0] = start
        BY <1>2, <1>5
    <2> QED
        BY <1>9, <2>1
<1>11. ASSUME NEW i \in T
       PROVE  i + 1 \in T
    <2> SUFFICES ASSUME i + 1 <= m
                 PROVE  Good(i + 1)
        BY <1>11
    <2>1. i \in Nat /\ i + 1 \in 0 .. m /\ (i + 1) - 1 = i /\ i + 1 # 0 /\ i <= m
        BY <1>2, <1>11
    <2>2. Good(i)
        BY <1>11, <2>1
    <2>3. PICK a : a = f[i]
        OBVIOUS
    <2>4. PICK b : b = f[i + 1]
        OBVIOUS
    <2>5. b = Visit(a, gone)
        BY <1>5, <2>1, <2>3, <2>4
    <2>6. Iterating(a, t, n, X) /\ (ToSet(a.seen) = X \/ Len(a.seen) = i)
        BY <2>2, <2>3
    <2>7. Iterating(b, t, n, X) /\ ((b = a /\ ToSet(a.seen) = X) \/ Len(b.seen) = Len(a.seen) + 1)
        BY <1>8, <2>5, <2>6, VisitFacts
    <2>8. ASSUME ToSet(a.seen) = X
          PROVE  ToSet(b.seen) = X
        <3>1. ToSet(b.seen) \subseteq X /\ IsFiniteSet(ToSet(b.seen)) /\ Cardinality(ToSet(b.seen)) = Len(b.seen)
            BY <2>7 DEF Iterating
        <3>2. Cardinality(ToSet(a.seen)) = Len(a.seen)
            BY <2>6 DEF Iterating
        <3>3. CASE Len(b.seen) = Len(a.seen) + 1
            <4>1. Cardinality(ToSet(b.seen)) <= Cardinality(X) /\ Cardinality(X) \in Nat
                BY <3>1, FS_Subset, FS_CardinalityType
            <4> QED
                BY <2>8, <3>1, <3>2, <3>3, <4>1
        <3>4. CASE b = a
            BY <2>8, <3>4
        <3> QED
            BY <2>7, <3>3, <3>4
    <2>9. ASSUME Len(a.seen) = i, ToSet(a.seen) # X
          PROVE  Len(b.seen) = i + 1
        BY <2>7, <2>9
    <2> QED
        BY <2>4, <2>6, <2>7, <2>8, <2>9
<1> HIDE DEF T, Good
<1>12. \A i \in Nat : i \in T
    BY <1>10, <1>11, Induction DEF T
<1>13. Good(m)
    BY <1>12 DEF T
<1>14. PICK a : a = f[m]
    OBVIOUS
<1>15. Iterating(a, t, n, X) /\ (ToSet(a.seen) = X \/ Len(a.seen) = m)
    BY <1>13, <1>14 DEF Good
<1>16. ToSet(a.seen) \subseteq X /\ Cardinality(ToSet(a.seen)) = Len(a.seen)
    BY <1>15 DEF Iterating
<1>17. Cardinality(ToSet(a.seen)) <= Cardinality(X) /\ Cardinality(X) \in Nat
    BY <1>16, FS_Subset, FS_CardinalityType
<1>18. ToSet(a.seen) = X
    BY <1>2, <1>15, <1>16, <1>17
<1> QED
    BY <1>1, <1>2, <1>14, <1>16, <1>18

-----------------------------------------------------------------------------
(* The inductive invariant: every entry of the map is in the chain of its  *)
(* key, once, nothing else is in a chain, and used counts the keys.        *)
Entries == {Entry(k, map[k]) : k \in DOMAIN map}

DictInv ==
    /\ map = [k \in DOMAIN map |-> map[k]]
    /\ DOMAIN map \subseteq Key /\ \A k \in DOMAIN map : map[k] \in Val
    /\ IsFiniteSet(DOMAIN map)
    /\ Full(ht, Entries) /\ ht.used = Cardinality(DOMAIN map)

LEMMA EmptyDict ==
    ASSUME ht = _dictReset, map = <<>>
    PROVE  DictInv
<1>1. DOMAIN map = {} /\ map = [k \in {} |-> map[k]]
    OBVIOUS
<1>2. Entries = {}
    BY <1>1 DEF Entries
<1>3. ht = [size |-> 0, used |-> 0, table |-> <<>>] /\ ht.size = 0 /\ ht.used = 0
    BY DEF _dictReset
<1>4. ht = [size |-> ht.size, used |-> ht.used, table |-> ht.table]
    BY <1>3
<1>5. Full(ht, {})
    BY <1>3, <1>4 DEF Full, Holding
<1> QED
    BY <1>1, <1>2, <1>3, <1>5, FS_EmptySet DEF DictInv

(* What the entries say of a key is what the map says. *)
LEMMA EntriesFacts ==
    ASSUME DictInv
    PROVE  /\ \A e \in Entries : e.key \in DOMAIN map /\ e = Entry(e.key, map[e.key]) /\ e.val = map[e.key]
           /\ \A k \in DOMAIN map : Entry(k, map[k]) \in Entries /\ Entry(k, map[k]).key = k
<1>1. ASSUME NEW k \in DOMAIN map
      PROVE  Entry(k, map[k]).key = k /\ Entry(k, map[k]).val = map[k]
    BY DEF Entry
<1> QED
    BY <1>1 DEF Entries

LEMMA ReplaceStep ==
    ASSUME DictInv, NEW k \in Key, NEW v \in Val, Replace(k, v)
    PROVE  DictInv'
<1>1. PICK r : r = dictReplace(ht, k, v)
    OBVIOUS
<1>2. PICK m : m = [j \in DOMAIN map \cup {k} |-> IF j = k THEN v ELSE map[j]]
    OBVIOUS
<1>3. ht' = r /\ map' = m
    BY <1>1, <1>2 DEF Replace
<1>4. Full(r, With(Entries, k, v)) /\ r.used = IF \E e \in Entries : e.key = k THEN ht.used ELSE ht.used + 1
    BY <1>1, ReplaceFacts DEF DictInv
<1>5. (\E e \in Entries : e.key = k) <=> k \in DOMAIN map
    BY EntriesFacts
<1>6. DOMAIN m = DOMAIN map \cup {k} /\ m = [j \in DOMAIN m |-> m[j]] /\ m[k] = v
      /\ \A j \in DOMAIN map : j # k => m[j] = map[j]
    BY <1>2
<1>7. DOMAIN m \subseteq Key /\ \A j \in DOMAIN m : m[j] \in Val
    BY <1>6 DEF DictInv
<1>8. With(Entries, k, v) = {Entry(j, m[j]) : j \in DOMAIN m}
    <2>1. ASSUME NEW e \in Entries, e.key # k
          PROVE  \E j \in DOMAIN m : e = Entry(j, m[j])
        <3>1. e.key \in DOMAIN map /\ e = Entry(e.key, map[e.key])
            BY EntriesFacts
        <3>2. e.key \in DOMAIN m /\ m[e.key] = map[e.key]
            BY <1>6, <2>1, <3>1
        <3> QED
            BY <3>1, <3>2
    <2>2. Entry(k, v) = Entry(k, m[k]) /\ k \in DOMAIN m
        BY <1>6
    <2>3. ASSUME NEW j \in DOMAIN m, j # k
          PROVE  Entry(j, m[j]) \in Entries /\ Entry(j, m[j]).key # k
        <3>1. j \in DOMAIN map /\ m[j] = map[j]
            BY <1>6, <2>3
        <3> QED
            BY <2>3, <3>1, EntriesFacts
    <2>4. With(Entries, k, v) \subseteq {Entry(j, m[j]) : j \in DOMAIN m}
        BY <2>1, <2>2 DEF With
    <2>5. ASSUME NEW j \in DOMAIN m
          PROVE  Entry(j, m[j]) \in With(Entries, k, v)
        <3>1. CASE j = k
            BY <2>2, <3>1 DEF With
        <3>2. CASE j # k
            BY <2>3, <3>2 DEF With
        <3> QED
            BY <3>1, <3>2
    <2> QED
        BY <2>4, <2>5
<1>9. Entries' = With(Entries, k, v)
    BY <1>3, <1>8 DEF Entries
<1>10. IsFiniteSet(DOMAIN m) /\ Cardinality(DOMAIN m) = IF k \in DOMAIN map THEN Cardinality(DOMAIN map) ELSE Cardinality(DOMAIN map) + 1
    BY <1>6, FS_AddElement DEF DictInv
<1>11. r.used = Cardinality(DOMAIN m)
    BY <1>4, <1>5, <1>10 DEF DictInv
<1> QED
    BY <1>3, <1>4, <1>6, <1>7, <1>9, <1>10, <1>11 DEF DictInv

LEMMA DeleteStep ==
    ASSUME DictInv, NEW k \in Key, Delete(k)
    PROVE  DictInv'
<1>1. PICK r : r = dictDelete(ht, k)
    OBVIOUS
<1>2. PICK m : m = [j \in DOMAIN map \ {k} |-> map[j]]
    OBVIOUS
<1>3. ht' = r /\ map' = m
    BY <1>1, <1>2 DEF Delete
<1>4. (\E e \in Entries : e.key = k) <=> k \in DOMAIN map
    BY EntriesFacts
<1>5. DOMAIN m = DOMAIN map \ {k} /\ m = [j \in DOMAIN m |-> m[j]] /\ \A j \in DOMAIN m : m[j] = map[j]
    BY <1>2
<1>6. DOMAIN m \subseteq Key /\ \A j \in DOMAIN m : m[j] \in Val
    BY <1>5 DEF DictInv
<1>7. IsFiniteSet(DOMAIN m) /\ Cardinality(DOMAIN m) = IF k \in DOMAIN map THEN Cardinality(DOMAIN map) - 1 ELSE Cardinality(DOMAIN map)
    BY <1>5, FS_RemoveElement DEF DictInv
<1>8. (\E e \in Entries : e.key = k) => ht.used > 0
    <2>1. Cardinality(DOMAIN m) \in Nat
        BY <1>7, FS_CardinalityType
    <2>2. ht.used = Cardinality(DOMAIN map) /\ ht.used \in Nat
        BY DEF DictInv, Full
    <2> QED
        BY <1>4, <1>7, <2>1, <2>2
<1>9. PICK Y : Y = {e \in Entries : e.key # k}
    OBVIOUS
<1>10. Full(r, Y) /\ r.used = IF \E e \in Entries : e.key = k THEN ht.used - 1 ELSE ht.used
    BY <1>1, <1>8, <1>9, DeleteFacts DEF DictInv
<1>11. Y = {Entry(j, m[j]) : j \in DOMAIN m}
    <2>1. ASSUME NEW e \in Y
          PROVE  \E j \in DOMAIN m : e = Entry(j, m[j])
        <3>1. e.key \in DOMAIN map /\ e = Entry(e.key, map[e.key]) /\ e.key # k
            BY <1>9, EntriesFacts
        <3>2. e.key \in DOMAIN m /\ m[e.key] = map[e.key]
            BY <1>5, <3>1
        <3> QED
            BY <3>1, <3>2
    <2>2. ASSUME NEW j \in DOMAIN m
          PROVE  Entry(j, m[j]) \in Y
        <3>1. j \in DOMAIN map /\ m[j] = map[j] /\ j # k
            BY <1>5
        <3> QED
            BY <1>9, <3>1, EntriesFacts
    <2> QED
        BY <2>1, <2>2
<1>12. Entries' = Y
    BY <1>3, <1>11 DEF Entries
<1>13. r.used = Cardinality(DOMAIN m)
    BY <1>4, <1>7, <1>10 DEF DictInv
<1> QED
    BY <1>3, <1>5, <1>6, <1>7, <1>10, <1>12, <1>13 DEF DictInv

LEMMA EntriesCounted ==
    ASSUME DictInv
    PROVE  IsFiniteSet(Entries) /\ Cardinality(Entries) = Cardinality(DOMAIN map)
<1>1. PICK f : f = [k \in DOMAIN map |-> Entry(k, map[k])]
    OBVIOUS
<1>2. f \in [DOMAIN map -> Entries] /\ \A k \in DOMAIN map : f[k] = Entry(k, map[k])
    BY <1>1 DEF Entries
<1>3. \A j, k \in DOMAIN map : f[j] = f[k] => j = k
    BY <1>2, EntriesFacts
<1>4. \A e \in Entries : \E k \in DOMAIN map : f[k] = e
    BY <1>2 DEF Entries
<1>5. f \in Bijection(DOMAIN map, Entries)
    BY <1>2, <1>3, <1>4 DEF Bijection, Injection, Surjection, IsInjective
<1>6. ExistsBijection(DOMAIN map, Entries)
    BY <1>5 DEF ExistsBijection
<1> QED
    BY <1>6, FS_Bijection DEF DictInv

LEMMA DictInvSuffices ==
    ASSUME DictInv
    PROVE  DictIsMap
<1>1. ASSUME NEW key \in Key
      PROVE  dictFind(ht, key) = IF key \in DOMAIN map THEN {map[key]} ELSE {}
    <2>1. Full(ht, Entries)
        BY DEF DictInv
    <2>2. CASE key \in DOMAIN map
        <3>1. PICK e \in Entries : e.key = key /\ e.val = map[key]
            BY <2>2, EntriesFacts
        <3>2. dictFind(ht, key) = {e.val}
            BY <2>1, <3>1, FindFacts
        <3> QED
            BY <2>2, <3>1, <3>2
    <2>3. CASE key \notin DOMAIN map
        <3>1. \A e \in Entries : e.key # key
            BY <2>3, EntriesFacts
        <3>2. dictFind(ht, key) = {}
            BY <2>1, <3>1, FindFacts
        <3> QED
            BY <2>3, <3>2
    <2> QED
        BY <2>2, <2>3
<1>2. ht.used = Cardinality(DOMAIN map) /\ ht.used <= ht.size
    BY DEF DictInv, Full
<1>3. ASSUME NEW gone
      PROVE  Len(Visited(gone)) = Cardinality(DOMAIN map) /\ ToSet(Visited(gone)) = Entries
    BY <1>2, EntriesCounted, VisitedFacts DEF DictInv
<1> QED
    BY <1>1, <1>2, <1>3 DEF DictIsMap, Entries

(* Whatever was added, replaced and deleted in whatever order, with        *)
(* whatever keys in one chain and however often the table has grown (dict.c *)
(* dictExpand, dictReplace, dictDelete), the table is the map: a key is    *)
(* found with its last value and no other is, used counts the keys, and an *)
(* iteration returns every entry once, even if entries are deleted as they *)
(* are returned.  For any hash, any initial size and any number of keys.   *)
THEOREM DictIsTheMap == DictSpec => []DictIsMap
<1>1. DictInit => DictInv
    BY EmptyDict DEF DictInit
<1>2. DictInv /\ [DictNext]_dictVars => DictInv'
    <2> SUFFICES ASSUME DictInv, [DictNext]_dictVars
                 PROVE  DictInv'
        OBVIOUS
    <2>1. ASSUME NEW key \in Key, NEW val \in Val, Replace(key, val)
          PROVE  DictInv'
        BY <2>1, ReplaceStep
    <2>2. ASSUME NEW key \in Key, Delete(key)
          PROVE  DictInv'
        BY <2>2, DeleteStep
    <2>3. CASE _dictClear
        <3>1. ht' = _dictReset /\ map' = <<>>
            BY <2>3 DEF _dictClear
        <3>2. (ht = _dictReset /\ map = <<>> => DictInv)'
            BY EmptyDict, PTL
        <3> QED
            BY <3>1, <3>2 DEF _dictReset
    <2>4. CASE UNCHANGED dictVars
        BY <2>4 DEF dictVars, DictInv, Entries
    <2> QED
        BY <2>1, <2>2, <2>3, <2>4 DEF DictNext
<1>3. DictInv => DictIsMap
    BY DictInvSuffices
<1> QED
    BY <1>1, <1>2, <1>3, PTL DEF DictSpec
=============================================================================
