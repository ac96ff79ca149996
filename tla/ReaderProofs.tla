----------------------------- MODULE ReaderProofs -----------------------------
(***************************************************************************)
(* Proofs about ReplyReader, for texts of any length: a reader that is fed *)
(* in pieces ends where a reader that is fed at once does.                 *)
(*                                                                         *)
(* The loop of redisReaderGetReply is seen as a chain of states, of which  *)
(* each step looks only at the stack and at what is unread.  More text     *)
(* changes no step that was not for want of it (ItemKinds), so that, with  *)
(* more text, the loop comes to where it waited and goes on (Fates, by     *)
(* induction on the length of what is unread).                             *)
(*                                                                         *)
(* Induction is over sets of numbers: the provers cannot use the theorems  *)
(* of NaturalsInduction, whose hypotheses are operators.                   *)
(***************************************************************************)
EXTENDS ReplyReader, FiniteSetTheorems, SequenceTheorems, WellFoundedInduction, TLAPS

-----------------------------------------------------------------------------
(* Numbers *)

(* A set of natural numbers that is not empty has a least element. *)
LEMMA Least ==
    ASSUME NEW S \in SUBSET Nat, S # {}
    PROVE  \E x \in S : \A y \in S : x <= y
<1> DEFINE R == OpToRel(<, Nat)
<1>1. \A x, y \in Nat : <<x, y>> \in R <=> x < y
    BY DEF OpToRel
<1>2. IsWellFoundedOn(R, Nat)
    BY NatLessThanWellFounded
<1> HIDE DEF R
<1>3. PICK x \in S : \A y \in S : <<y, x>> \notin R
    BY <1>2, WFMin
<1>4. ASSUME NEW y \in S
      PROVE  x <= y
    <2>1. x \in Nat /\ y \in Nat
        OBVIOUS
    <2>2. ~(y < x)
        BY <1>1, <1>3, <2>1
    <2> QED
        BY <2>1, <2>2
<1> QED
    BY <1>4

(* Induction. *)
LEMMA Induction ==
    ASSUME NEW S \in SUBSET Nat, 0 \in S, \A n \in S : n + 1 \in S
    PROVE  \A n \in Nat : n \in S
<1> SUFFICES ASSUME NEW n \in Nat, n \notin S
             PROVE  FALSE
    OBVIOUS
<1>1. PICK x \in Nat \ S : \A y \in Nat \ S : x <= y
    BY Least
<1>2. x # 0 /\ x - 1 \in S
    BY <1>1
<1> QED
    BY <1>1, <1>2, x - 1 + 1 = x

(* Induction on all smaller numbers. *)
LEMMA StrongInduction ==
    ASSUME NEW S \in SUBSET Nat, \A n \in Nat : (\A m \in Nat : m < n => m \in S) => n \in S
    PROVE  \A n \in Nat : n \in S
<1> SUFFICES ASSUME NEW n \in Nat, n \notin S
             PROVE  FALSE
    OBVIOUS
<1>1. PICK x \in Nat \ S : \A y \in Nat \ S : x <= y
    BY Least
<1>2. \A m \in Nat : m < x => m \in S
    BY <1>1
<1> QED
    BY <1>1, <1>2

(* Min and Max of a set of positions are in it. *)
LEMMA MinFacts ==
    ASSUME NEW S \in SUBSET Nat, S # {}
    PROVE  Min(S) \in S /\ \A y \in S : Min(S) <= y
BY Least DEF Min

LEMMA MaxFacts ==
    ASSUME NEW n \in Nat, NEW S \in SUBSET (0 .. n), S # {}
    PROVE  Max(S) \in S /\ \A y \in S : y <= Max(S)
<1> DEFINE T == {n - x : x \in S}
<1>0. \A x \in S : x \in Nat /\ n - x \in Nat
    OBVIOUS
<1>1. T \in SUBSET Nat /\ T # {}
    BY <1>0
<1>2. PICK t \in T : \A u \in T : t <= u
    BY <1>1, Least
<1>3. PICK x \in S : t = n - x
    BY <1>2
<1>4. \A y \in S : n - x <= n - y
    BY <1>2, <1>3
<1>5. \A y \in S : y <= x
    BY <1>4
<1> QED
    BY <1>5 DEF Max

-----------------------------------------------------------------------------
(* Texts *)

(* A part of the beginning of a text is a part of the text. *)
LEMMA PartOfBoth ==
    ASSUME NEW C, NEW u \in Seq(C), NEW w \in Seq(C),
           NEW a \in Nat, NEW b \in Nat, 1 <= a, b <= Len(u)
    PROVE  SubSeq(u \o w, a, b) = SubSeq(u, a, b)
OBVIOUS

(* The rest of a text from a place in its beginning on. *)
LEMMA RestOfBoth ==
    ASSUME NEW C, NEW u \in Seq(C), NEW w \in Seq(C), NEW n \in Nat, n <= Len(u)
    PROVE  SubSeq(u \o w, n + 1, Len(u \o w)) = SubSeq(u, n + 1, Len(u)) \o w
<1> DEFINE x == SubSeq(u \o w, n + 1, Len(u \o w))
           y == SubSeq(u, n + 1, Len(u)) \o w
<1>1. u \o w \in Seq(C) /\ Len(u \o w) = Len(u) + Len(w)
    OBVIOUS
<1>2. /\ x \in Seq(C) /\ Len(x) = Len(u) + Len(w) - n
      /\ \A i \in 1 .. Len(u) + Len(w) - n : x[i] = (u \o w)[n + i]
    BY <1>1
<1>3. /\ SubSeq(u, n + 1, Len(u)) \in Seq(C) /\ Len(SubSeq(u, n + 1, Len(u))) = Len(u) - n
      /\ \A i \in 1 .. Len(u) - n : SubSeq(u, n + 1, Len(u))[i] = u[n + i]
    OBVIOUS
<1>4. y \in Seq(C) /\ Len(y) = Len(u) + Len(w) - n
    BY <1>3
<1>5. \A i \in 1 .. Len(u) + Len(w) - n : x[i] = y[i]
    BY <1>2, <1>3
<1> HIDE DEF x, y
<1>6. x = y
    BY <1>2, <1>4, <1>5
<1> QED
    BY <1>6 DEF x, y

(* seekNewline finds the first CR LF, if there is one. *)
LEMMA SeekFacts ==
    ASSUME NEW C, NEW u \in Seq(C)
    PROVE  LET n == seekNewline(u)
           IN  /\ n \in Nat
               /\ n # 0 => n + 1 <= Len(u) /\ u[n] = CR /\ u[n + 1] = LF
               /\ \A i \in 1 .. Len(u) - 1 :
                     u[i] = CR /\ u[i + 1] = LF => n # 0 /\ n <= i
<1> DEFINE ends == {i \in 1 .. Len(u) - 1 : u[i] = CR /\ u[i + 1] = LF}
<1>1. ends \in SUBSET Nat
    OBVIOUS
<1>2. CASE ends = {}
    BY <1>2 DEF seekNewline
<1>3. CASE ends # {}
    <2>1. seekNewline(u) = Min(ends)
        BY <1>3 DEF seekNewline
    <2> HIDE DEF ends
    <2>2. Min(ends) \in ends /\ \A i \in ends : Min(ends) <= i
        BY <1>1, <1>3, MinFacts
    <2>3. seekNewline(u) \in ends /\ \A i \in ends : seekNewline(u) <= i
        BY <2>1, <2>2
    <2> QED
        BY <2>3 DEF ends
<1> QED
    BY <1>2, <1>3

(* More text does not change where the first line ends, nor the line.      *)
LEMMA SeekMore ==
    ASSUME NEW C, NEW u \in Seq(C), NEW w \in Seq(C), seekNewline(u) # 0
    PROVE  seekNewline(u \o w) = seekNewline(u)
<1> DEFINE n == seekNewline(u)
           m == seekNewline(u \o w)
<1>1. n \in Nat /\ n + 1 <= Len(u) /\ u[n] = CR /\ u[n + 1] = LF
    BY SeekFacts
<1>2. \A i \in 1 .. Len(u) - 1 : u[i] = CR /\ u[i + 1] = LF => n <= i
    BY SeekFacts
<1>3. u \o w \in Seq(C) /\ Len(u \o w) >= Len(u) /\ \A i \in 1 .. Len(u) : (u \o w)[i] = u[i]
    OBVIOUS
<1>4. /\ m \in Nat
      /\ m # 0 => m + 1 <= Len(u \o w) /\ (u \o w)[m] = CR /\ (u \o w)[m + 1] = LF
      /\ \A i \in 1 .. Len(u \o w) - 1 :
            (u \o w)[i] = CR /\ (u \o w)[i + 1] = LF => m # 0 /\ m <= i
    BY <1>3, SeekFacts
<1> HIDE DEF n, m
<1>0. n # 0
    BY DEF n
<1>5. n \in 1 .. Len(u \o w) - 1 /\ (u \o w)[n] = CR /\ (u \o w)[n + 1] = LF
    BY <1>0, <1>1, <1>3
<1>6. m # 0 /\ m <= n
    BY <1>4, <1>5
<1>7. u[m] = CR /\ u[m + 1] = LF /\ m \in 1 .. Len(u) - 1
    BY <1>1, <1>3, <1>4, <1>6
<1>8. m = n
    BY <1>1, <1>2, <1>4, <1>6, <1>7
<1> QED
    BY <1>8 DEF m, n

LEMMA LineMore ==
    ASSUME NEW C, NEW u \in Seq(C), NEW w \in Seq(C), NEW n, n = seekNewline(u), n # 0
    PROVE  SubSeq(u \o w, 1, n - 1) = SubSeq(u, 1, n - 1)
<1>1. n \in Nat /\ n + 1 <= Len(u)
    BY SeekFacts
<1> QED
    BY <1>1, PartOfBoth, n - 1 \in Nat

-----------------------------------------------------------------------------
(* Numbers in texts *)

(* A function defined by recursion on the places up to n exists: G says    *)
(* how the value at each place follows from the one before.                *)
Recursive(h, n, S, base, G) ==
    h \in [0 .. n -> S] /\ h[0] = base /\ \A i \in 1 .. n : h[i] = G[i][h[i - 1]]

LEMMA Recursion ==
    ASSUME NEW n \in Nat, NEW S, NEW base \in S, NEW G \in [1 .. n -> [S -> S]]
    PROVE  \E h : Recursive(h, n, S, base, G)
<1> DEFINE Good(m, h) == Recursive(h, m, S, base, G)
           T == {m \in Nat : m <= n => \E h : Good(m, h)}
<1>1. 0 \in T
    <2>1. Good(0, [i \in 0 .. 0 |-> base])
        BY DEF Recursive
    <2> QED
        BY <2>1
<1>2. ASSUME NEW m \in T
      PROVE  m + 1 \in T
    <2>0. m \in Nat /\ (m <= n => \E h : Good(m, h))
        BY <1>2
    <2>1. SUFFICES ASSUME m + 1 <= n
                   PROVE  \E g : Good(m + 1, g)
        BY <2>0
    <2>2. PICK h : Good(m, h)
        BY <2>0, <2>1
    <2> DEFINE g == [i \in 0 .. m + 1 |-> IF i <= m THEN h[i] ELSE G[m + 1][h[m]]]
    <2>3. h[m] \in S /\ G[m + 1] \in [S -> S]
        BY <2>0, <2>1, <2>2 DEF Recursive
    <2>4. g \in [0 .. m + 1 -> S] /\ g[0] = base
        BY <2>0, <2>2, <2>3 DEF Recursive
    <2>5. ASSUME NEW i \in 1 .. m + 1
          PROVE  g[i] = G[i][g[i - 1]]
        <3>1. i - 1 \in 0 .. m /\ g[i - 1] = h[i - 1]
            BY <2>0
        <3>2. CASE i <= m
            BY <2>0, <2>2, <3>1, <3>2 DEF Recursive
        <3>3. CASE i = m + 1
            BY <2>0, <3>1, <3>3
        <3> QED
            BY <2>0, <3>2, <3>3
    <2>6. Good(m + 1, g)
        BY <2>4, <2>5 DEF Recursive
    <2> QED
        BY <2>6
<1> HIDE DEF T
<1>3. n \in T
    BY <1>1, <1>2, Induction DEF T
<1> QED
    BY <1>3 DEF T

DigitSet == ToSet(Digits)

(* The digits and their values. *)
LEMMA DigitFacts ==
    /\ DigitSet = {"0", "1", "2", "3", "4", "5", "6", "7", "8", "9"}
    /\ \A c \in DigitSet : Value[c] \in 0 .. 9 /\ Digits[Value[c] + 1] = c
    /\ \A d \in 0 .. 9 : Digits[d + 1] \in DigitSet /\ Value[Digits[d + 1]] = d
<1>1. DOMAIN Digits = 1 .. 10
    BY DEF Digits
<1>2. \A c \in DigitSet : \E d \in 0 .. 9 : Digits[d + 1] = c
    <2> TAKE c \in DigitSet
    <2>1. PICK i \in 1 .. 10 : Digits[i] = c
        BY <1>1 DEF DigitSet, ToSet
    <2> QED
        BY <2>1, i - 1 \in 0 .. 9, i - 1 + 1 = i
<1>3. \A d \in 0 .. 9 : Digits[d + 1] \in DigitSet
    BY <1>1 DEF DigitSet, ToSet
<1>4. \A d, e \in 0 .. 9 : Digits[d + 1] = Digits[e + 1] => d = e
    BY DEF Digits
<1>5. \A c \in DigitSet : Value[c] = CHOOSE d \in 0 .. 9 : Digits[d + 1] = c
    BY DEF Value, DigitSet
<1>6. \A c \in DigitSet : Value[c] \in 0 .. 9 /\ Digits[Value[c] + 1] = c
    BY <1>2, <1>5
<1>7. \A d \in 0 .. 9 : Value[Digits[d + 1]] = d
    BY <1>3, <1>4, <1>6
<1>8. DigitSet = {"0", "1", "2", "3", "4", "5", "6", "7", "8", "9"}
    BY <1>1 DEF Digits, DigitSet, ToSet
<1> QED
    BY <1>3, <1>6, <1>7, <1>8

(* Magnitude is the last of the values after each digit. *)
Values(ds, h) ==
    /\ h \in [0 .. Len(ds) -> Int] /\ h[0] = 0
    /\ \A i \in 1 .. Len(ds) : h[i] = Digit(h[i - 1], Value[ds[i]])

LEMMA DigitType == \A v \in Int, d \in 0 .. 9 : Digit(v, d) \in Int
BY DEF Digit

LEMMA MagnitudeFacts ==
    ASSUME NEW ds \in Seq(DigitSet)
    PROVE  \E h : Values(ds, h) /\ Magnitude(ds) = h[Len(ds)]
<1> DEFINE n == Len(ds)
           G == [i \in 1 .. n |-> [v \in Int |-> Digit(v, Value[ds[i]])]]
           Def(g) == [i \in 0 .. n |-> IF i = 0 THEN 0 ELSE Digit(g[i - 1], Value[ds[i]])]
           f == CHOOSE g : g = Def(g)
<1>1. \A i \in 1 .. n : Value[ds[i]] \in 0 .. 9
    BY DigitFacts
<1>2. n \in Nat /\ G \in [1 .. n -> [Int -> Int]]
    <2> DEFINE F(i) == [v \in Int |-> Digit(v, Value[ds[i]])]
    <2>1. ASSUME NEW i \in 1 .. n
          PROVE  F(i) \in [Int -> Int]
        BY <1>1, DigitType
    <2>2. G = [i \in 1 .. n |-> F(i)]
        OBVIOUS
    <2> HIDE DEF F, G
    <2> QED
        BY <2>1, <2>2
<1> HIDE DEF G
<1>3. PICK h \in [0 .. n -> Int] : h[0] = 0 /\ \A i \in 1 .. n : h[i] = G[i][h[i - 1]]
    <2> HIDE DEF n
    <2>1. PICK S : S = Int
        OBVIOUS
    <2>2. G \in [1 .. n -> [S -> S]] /\ 0 \in S
        BY <1>2, <2>1
    <2>3. \E h : Recursive(h, n, S, 0, G)
        BY <1>2, <2>2, Recursion
    <2> QED
        BY <2>1, <2>3 DEF Recursive
<1>4. \A i \in 1 .. n : h[i] = Digit(h[i - 1], Value[ds[i]])
    <2> TAKE i \in 1 .. n
    <2>1. i - 1 \in 0 .. n
        BY <1>2
    <2>2. h[i - 1] \in Int
        BY <2>1
    <2> QED
        BY <1>3, <2>2 DEF G
<1>5. h = Def(h)
    BY <1>3, <1>4
<1>6. f = Def(f)
    <2> HIDE DEF Def
    <2> QED
        BY <1>5
<1>7. DOMAIN f = 0 .. n /\ f[0] = 0 /\ \A i \in 1 .. n : f[i] = Digit(f[i - 1], Value[ds[i]])
    <2> HIDE DEF f
    <2> QED
        BY <1>6, <1>2
<1> HIDE DEF f
<1>8. \A i \in Nat : i \in {j \in Nat : j <= n => f[j] \in Int}
    <2> DEFINE T == {j \in Nat : j <= n => f[j] \in Int}
    <2>1. 0 \in T
        BY <1>7
    <2>2. \A j \in T : j + 1 \in T
        <3> TAKE j \in T
        <3>1. CASE j + 1 <= n
            <4>1. j + 1 \in 1 .. n /\ f[j] \in Int /\ j + 1 - 1 = j
                BY <3>1, <1>2
            <4>2. f[j + 1] = Digit(f[j], Value[ds[j + 1]])
                BY <4>1, <1>7
            <4>3. Value[ds[j + 1]] \in 0 .. 9
                BY <4>1, <1>1
            <4>4. f[j + 1] \in Int
                BY <4>1, <4>2, <4>3, DigitType
            <4> QED
                BY <4>4
        <3> QED
            BY <3>1
    <2> HIDE DEF T
    <2>3. \A i \in Nat : i \in T
        BY <2>1, <2>2, Induction DEF T
    <2> QED
        BY <2>3 DEF T
<1>9. f \in [0 .. n -> Int]
    <2>1. \A i \in 0 .. n : f[i] \in Int
        BY <1>2, <1>8
    <2>2. f = [i \in 0 .. n |-> f[i]]
        BY <1>6, <1>7
    <2> QED
        BY <2>1, <2>2
<1>10. Values(ds, f)
    BY <1>7, <1>9 DEF Values
<1>11. Magnitude(ds) = f[n]
    BY DEF Magnitude, f
<1> QED
    BY <1>10, <1>11

LEMMA AllDigits ==
    ASSUME NEW C, NEW s \in Seq(C), ToSet(s) \subseteq ToSet(Digits)
    PROVE  s \in Seq(DigitSet)
<1>1. \A i \in 1 .. Len(s) : s[i] \in DigitSet
    <2> TAKE i \in 1 .. Len(s)
    <2>1. i \in DOMAIN s
        OBVIOUS
    <2>2. s[i] \in ToSet(s)
        BY <2>1 DEF ToSet
    <2> QED
        BY <2>2 DEF DigitSet
<1> HIDE DEF DigitSet
<1> QED
    BY <1>1

(* What string2ll returns. *)
LEMMA NumberType ==
    ASSUME NEW C, NEW s \in Seq(C)
    PROVE  string2ll(s).ok \in BOOLEAN /\ string2ll(s).value \in Int
<1> DEFINE negative == s # <<>> /\ s[1] = "-"
           ds == IF negative THEN Tail(s) ELSE s
           v == Magnitude(ds)
<1>1. CASE s = <<"0">>
    BY <1>1 DEF string2ll
<1>2. CASE s # <<"0">> /\ \/ ds = <<>> \/ ds[1] = "0" \/ ~(ToSet(ds) \subseteq ToSet(Digits))
                          \/ v = -1 \/ v > LLONG_MAX + (IF negative THEN 1 ELSE 0)
    BY <1>2 DEF string2ll, Invalid
<1>3. CASE s # <<"0">> /\ ToSet(ds) \subseteq ToSet(Digits)
           /\ ~(\/ ds = <<>> \/ ds[1] = "0" \/ ~(ToSet(ds) \subseteq ToSet(Digits))
                \/ v = -1 \/ v > LLONG_MAX + (IF negative THEN 1 ELSE 0))
    <2>1. ds \in Seq(C)
        OBVIOUS
    <2>3. ds \in Seq(DigitSet)
        BY <1>3, <2>1, AllDigits
    <2>4. v \in Int
        <3> HIDE DEF ds
        <3> QED
            BY <2>3, MagnitudeFacts, Len(ds) \in 0 .. Len(ds) DEF Values
    <2>5. string2ll(s) = [ok |-> TRUE, value |-> IF negative THEN -v ELSE v]
        BY <1>3 DEF string2ll
    <2> HIDE DEF v
    <2> QED
        BY <2>4, <2>5
<1> QED
    BY <1>1, <1>2, <1>3

-----------------------------------------------------------------------------
(* One item *)

ItemTypes == {"error", "status", "integer", "string", "array"}
Task == [type : ItemTypes \cup {Unknown}, elements : Int, idx : Int]

(* A reader without an error. *)
Rd(buf, pos, rstack, reply) ==
    [err |-> "none", buf |-> buf, pos |-> pos, rstack |-> rstack, reply |-> reply]
Ready(r, C) ==
    /\ r = Rd(r.buf, r.pos, r.rstack, r.reply)
    /\ r.buf \in Seq(C) /\ r.pos \in 0 .. Len(r.buf) /\ r.rstack \in Seq(Task)

(* What the functions that process an item decide, from the type of the    *)
(* task on the top, the height of the stack and what is unread: to wait,   *)
(* to fail, to take so many bytes for a node, or for an array to be begun. *)
Waits == [does |-> "wait"]
Fails_(e) == [does |-> "fail", err |-> e]
Takes(used, node) == [does |-> "take", used |-> used, node |-> node]
Begins(used, n) == [does |-> "begin", used |-> used, n |-> n]

LineOutcome(type, u) ==
    LET n == seekNewline(u)
        line == SubSeq(u, 1, n - 1)
        v == string2ll(line)
    IN  IF n = 0 THEN Waits
        ELSE IF type = "integer"
             THEN IF v.ok THEN Takes(n + 1, Node("integer", <<>>, v.value)) ELSE Fails_("protocol")
        ELSE IF Len(line) > MaxAlloc THEN Fails_("oom")
        ELSE Takes(n + 1, Node(type, line, 0))

BulkOutcome(type, u) ==
    LET n == seekNewline(u)
        v == string2ll(SubSeq(u, 1, n - 1))
        end == n + 1 + v.value + 2
    IN  IF n = 0 THEN Waits
        ELSE IF ~v.ok \/ v.value < -1 THEN Fails_("protocol")
        ELSE IF v.value = -1 THEN Takes(n + 1, Node("nil", <<>>, 0))
        ELSE IF end > Len(u) THEN Waits
        ELSE IF v.value > MaxAlloc THEN Fails_("oom")
        ELSE Takes(end, Node(type, SubSeq(u, n + 2, end - 2), 0))

ArrayOutcome(top, u) ==
    LET n == seekNewline(u)
        v == string2ll(SubSeq(u, 1, n - 1))
    IN  IF top = StackSize THEN Fails_("protocol")
        ELSE IF n = 0 THEN Waits
        ELSE IF ~v.ok \/ v.value < -1 \/ v.value > INT_MAX THEN Fails_("protocol")
        ELSE IF v.value = -1 THEN Takes(n + 1, Node("nil", <<>>, 0))
        ELSE IF v.value > MaxAlloc THEN Fails_("oom")
        ELSE IF v.value = 0 THEN Takes(n + 1, Node("array", <<>>, 0))
        ELSE Begins(n + 1, v.value)

ItemOutcome(type, top, u) ==
    IF type = "string" THEN BulkOutcome(type, u)
    ELSE IF type = "array" THEN ArrayOutcome(top, u)
    ELSE LineOutcome(type, u)

(* An outcome is one of the four, and takes bytes that are there.          *)
IsOutcome(o, n) ==
    \/ o = Waits
    \/ \E e \in {"protocol", "oom"} : o = Fails_(e)
    \/ \E used \in 1 .. n : \E node : o = Takes(used, node)
    \/ \E used \in 1 .. n, k \in Int : o = Begins(used, k)

LEMMA LineOutcomeFacts ==
    ASSUME NEW C, NEW u \in Seq(C), NEW w \in Seq(C), NEW type
    PROVE  /\ IsOutcome(LineOutcome(type, u), Len(u))
           /\ LineOutcome(type, u) # Waits => LineOutcome(type, u \o w) = LineOutcome(type, u)
<1> DEFINE n == seekNewline(u)
<1>1. CASE n = 0
    BY <1>1 DEF LineOutcome, IsOutcome
<1>2. CASE n # 0
    <2>1. n + 1 \in 1 .. Len(u)
        BY <1>2, SeekFacts
    <2>2. seekNewline(u \o w) = n /\ SubSeq(u \o w, 1, n - 1) = SubSeq(u, 1, n - 1)
        BY <1>2, SeekMore, LineMore
    <2> HIDE DEF n
    <2>3. IsOutcome(LineOutcome(type, u), Len(u))
        BY <1>2, <2>1 DEF LineOutcome, IsOutcome, n
    <2> QED
        BY <1>2, <2>2, <2>3 DEF LineOutcome, n
<1> QED
    BY <1>1, <1>2

LEMMA BulkOutcomeFacts ==
    ASSUME NEW C, NEW u \in Seq(C), NEW w \in Seq(C), NEW type
    PROVE  /\ IsOutcome(BulkOutcome(type, u), Len(u))
           /\ BulkOutcome(type, u) # Waits => BulkOutcome(type, u \o w) = BulkOutcome(type, u)
<1> DEFINE n == seekNewline(u)
           v == string2ll(SubSeq(u, 1, n - 1))
           end == n + 1 + v.value + 2
<1>1. CASE n = 0
    BY <1>1 DEF BulkOutcome, IsOutcome
<1>2. CASE n # 0
    <2>1. n \in Nat /\ n + 1 \in 1 .. Len(u)
        BY <1>2, SeekFacts
    <2>2. seekNewline(u \o w) = n /\ SubSeq(u \o w, 1, n - 1) = SubSeq(u, 1, n - 1)
        BY <1>2, SeekMore, LineMore
    <2>3. SubSeq(u, 1, n - 1) \in Seq(C)
        BY <2>1
    <2>4. v.ok \in BOOLEAN /\ v.value \in Int
        BY <2>3, NumberType
    <2>5. Len(u \o w) = Len(u) + Len(w)
        OBVIOUS
    <2>6. v.value >= 0 /\ end <= Len(u)
              => SubSeq(u \o w, n + 2, end - 2) = SubSeq(u, n + 2, end - 2)
        <3> HIDE DEF v, n
        <3>1. SUFFICES ASSUME v.value >= 0, end <= Len(u)
                       PROVE  SubSeq(u \o w, n + 2, end - 2) = SubSeq(u, n + 2, end - 2)
            OBVIOUS
        <3>2. n + 2 \in Nat /\ end - 2 \in Nat /\ 1 <= n + 2 /\ end - 2 <= Len(u)
            BY <2>1, <2>4, <3>1
        <3> HIDE DEF end
        <3> QED
            BY <3>2, PartOfBoth
    <2>7. BulkOutcome(type, u) =
              IF ~v.ok \/ v.value < -1 THEN Fails_("protocol")
              ELSE IF v.value = -1 THEN Takes(n + 1, Node("nil", <<>>, 0))
              ELSE IF end > Len(u) THEN Waits
              ELSE IF v.value > MaxAlloc THEN Fails_("oom")
              ELSE Takes(end, Node(type, SubSeq(u, n + 2, end - 2), 0))
        BY <1>2 DEF BulkOutcome
    <2>8. BulkOutcome(type, u \o w) =
              IF ~v.ok \/ v.value < -1 THEN Fails_("protocol")
              ELSE IF v.value = -1 THEN Takes(n + 1, Node("nil", <<>>, 0))
              ELSE IF end > Len(u) + Len(w) THEN Waits
              ELSE IF v.value > MaxAlloc THEN Fails_("oom")
              ELSE Takes(end, Node(type, SubSeq(u \o w, n + 2, end - 2), 0))
        BY <1>2, <2>2, <2>5 DEF BulkOutcome
    <2>9. end \in Int /\ (v.value >= 0 => end >= 1)
        <3> HIDE DEF v, n
        <3> QED
            BY <2>1, <2>4
    <2> HIDE DEF v, n, end
    <2>10. IsOutcome(BulkOutcome(type, u), Len(u))
        BY <2>1, <2>4, <2>7, <2>9 DEF IsOutcome
    <2>11. CASE v.value >= 0 /\ end <= Len(u)
        <3>1. end <= Len(u) + Len(w)
            BY <2>9, <2>11, Len(u) \in Nat, Len(w) \in Nat
        <3>2. ~(end > Len(u)) /\ ~(end > Len(u) + Len(w))
            BY <2>9, <2>11, <3>1, Len(u) \in Nat, Len(w) \in Nat
        <3>3. BulkOutcome(type, u \o w) = BulkOutcome(type, u)
            <4>1. ~(v.value < -1) /\ v.value # -1
                BY <2>4, <2>11
            <4>2. SubSeq(u \o w, n + 2, end - 2) = SubSeq(u, n + 2, end - 2)
                BY <2>6, <2>11
            <4>3. CASE ~v.ok
                BY <2>7, <2>8, <4>3
            <4>4. CASE v.ok /\ v.value > MaxAlloc
                BY <2>7, <2>8, <3>2, <4>1, <4>4
            <4>5. CASE v.ok /\ ~(v.value > MaxAlloc)
                <5>1. BulkOutcome(type, u) = Takes(end, Node(type, SubSeq(u, n + 2, end - 2), 0))
                    BY <2>7, <3>2, <4>1, <4>5
                <5>2. BulkOutcome(type, u \o w)
                        = Takes(end, Node(type, SubSeq(u \o w, n + 2, end - 2), 0))
                    BY <2>8, <3>2, <4>1, <4>5
                <5> QED
                    BY <4>2, <5>1, <5>2
            <4> QED
                BY <4>3, <4>4, <4>5
        <3> QED
            BY <2>10, <3>3
    <2>12. CASE v.value >= 0 /\ end > Len(u)
        BY <2>4, <2>7, <2>8, <2>9, <2>10, <2>12
    <2>13. CASE ~(v.value >= 0)
        BY <2>4, <2>7, <2>8, <2>10, <2>13
    <2> QED
        BY <2>9, <2>11, <2>12, <2>13
<1> QED
    BY <1>1, <1>2

LEMMA ArrayOutcomeFacts ==
    ASSUME NEW C, NEW u \in Seq(C), NEW w \in Seq(C), NEW top
    PROVE  /\ IsOutcome(ArrayOutcome(top, u), Len(u))
           /\ ArrayOutcome(top, u) # Waits => ArrayOutcome(top, u \o w) = ArrayOutcome(top, u)
<1> DEFINE n == seekNewline(u)
           v == string2ll(SubSeq(u, 1, n - 1))
<1>1. CASE top = StackSize
    BY <1>1 DEF ArrayOutcome, IsOutcome
<1>2. CASE top # StackSize /\ n = 0
    BY <1>2 DEF ArrayOutcome, IsOutcome
<1>3. CASE top # StackSize /\ n # 0
    <2>1. n \in Nat /\ n + 1 \in 1 .. Len(u)
        BY <1>3, SeekFacts
    <2>2. seekNewline(u \o w) = n /\ SubSeq(u \o w, 1, n - 1) = SubSeq(u, 1, n - 1)
        BY <1>3, SeekMore, LineMore
    <2>3. SubSeq(u, 1, n - 1) \in Seq(C)
        BY <2>1
    <2>4. v.ok \in BOOLEAN /\ v.value \in Int
        BY <2>3, NumberType
    <2>5. ArrayOutcome(top, u \o w) = ArrayOutcome(top, u)
        BY <1>3, <2>2 DEF ArrayOutcome
    <2>6. ArrayOutcome(top, u) =
              IF ~v.ok \/ v.value < -1 \/ v.value > INT_MAX THEN Fails_("protocol")
              ELSE IF v.value = -1 THEN Takes(n + 1, Node("nil", <<>>, 0))
              ELSE IF v.value > MaxAlloc THEN Fails_("oom")
              ELSE IF v.value = 0 THEN Takes(n + 1, Node("array", <<>>, 0))
              ELSE Begins(n + 1, v.value)
        BY <1>3 DEF ArrayOutcome
    <2> HIDE DEF v, n
    <2>7. IsOutcome(ArrayOutcome(top, u), Len(u))
        BY <2>1, <2>4, <2>6 DEF IsOutcome
    <2> QED
        BY <2>5, <2>7
<1> QED
    BY <1>1, <1>2, <1>3

(* More bytes do not change what was decided already. *)
LEMMA OutcomeFacts ==
    ASSUME NEW C, NEW u \in Seq(C), NEW w \in Seq(C), NEW type, NEW top
    PROVE  /\ IsOutcome(ItemOutcome(type, top, u), Len(u))
           /\ ItemOutcome(type, top, u) # Waits => ItemOutcome(type, top, u \o w) = ItemOutcome(type, top, u)
BY LineOutcomeFacts, BulkOutcomeFacts, ArrayOutcomeFacts DEF ItemOutcome

-----------------------------------------------------------------------------
(* What processing an item makes of the reader *)

Popped(s) ==
    LET more == {i \in 2 .. Len(s) : s[i].idx # s[i - 1].elements - 1}
        n == Max(more)
    IN  IF more = {} THEN <<>>
        ELSE Append(SubSeq(s, 1, n - 1), [type |-> Unknown, elements |-> -1, idx |-> s[n].idx + 1])
Deeper(s, n) == Append([s EXCEPT ![Len(s)].elements = n], [RootTask EXCEPT !.idx = 0])
WithType(s, type) == [s EXCEPT ![Len(s)].type = type]
Grown(s, reply, node) == Linked(reply, [i \in 1 .. Len(s) - 1 |-> s[i + 1].idx], node)

LEMMA PoppedType ==
    ASSUME NEW s \in Seq(Task)
    PROVE  Popped(s) \in Seq(Task)
<1> DEFINE more == {i \in 2 .. Len(s) : s[i].idx # s[i - 1].elements - 1}
           n == Max(more)
<1>1. CASE more = {}
    BY <1>1 DEF Popped
<1>2. CASE more # {}
    <2>1. more \in SUBSET (0 .. Len(s)) /\ Len(s) \in Nat
        OBVIOUS
    <2>2. n \in more
        <3> HIDE DEF more
        <3> QED
            BY <1>2, <2>1, MaxFacts
    <2>3. n \in 2 .. Len(s)
        BY <2>2
    <2>4. Popped(s) = Append(SubSeq(s, 1, n - 1),
                             [type |-> Unknown, elements |-> -1, idx |-> s[n].idx + 1])
        BY <1>2 DEF Popped
    <2> HIDE DEF n
    <2>5. s[n].idx \in Int
        <3>1. n \in 1 .. Len(s)
            BY <2>3
        <3>2. s[n] \in Task
            BY <3>1
        <3> QED
            BY <3>2 DEF Task
    <2>6. [type |-> Unknown, elements |-> -1, idx |-> s[n].idx + 1] \in Task
        BY <2>5 DEF Task, Unknown
    <2>7. SubSeq(s, 1, n - 1) \in Seq(Task)
        BY <2>3
    <2> QED
        BY <2>4, <2>6, <2>7
<1> QED
    BY <1>1, <1>2

LEMMA DeeperType ==
    ASSUME NEW s \in Seq(Task), s # <<>>, NEW n \in Int
    PROVE  Deeper(s, n) \in Seq(Task) /\ Deeper(s, n) # <<>>
<1>1. [RootTask EXCEPT !.idx = 0] \in Task
    BY DEF RootTask, Task, Unknown
<1>2. Len(s) \in 1 .. Len(s) /\ s[Len(s)] \in Task
    OBVIOUS
<1>3. [s[Len(s)] EXCEPT !.elements = n] \in Task
    BY <1>2 DEF Task
<1>4. [s EXCEPT ![Len(s)].elements = n] \in Seq(Task)
    BY <1>2, <1>3
<1> QED
    BY <1>1, <1>4 DEF Deeper

LEMMA TypedFacts ==
    ASSUME NEW s \in Seq(Task), s # <<>>, NEW type \in ItemTypes
    PROVE  /\ WithType(s, type) \in Seq(Task) /\ WithType(s, type) # <<>>
           /\ Len(WithType(s, type)) = Len(s) /\ WithType(s, type)[Len(s)].type = type
<1>1. Len(s) \in 1 .. Len(s) /\ s[Len(s)] \in Task
    OBVIOUS
<1>2. [s[Len(s)] EXCEPT !.type = type] \in Task
    BY <1>1 DEF Task
<1>3. WithType(s, type) = [s EXCEPT ![Len(s)] = [s[Len(s)] EXCEPT !.type = type]]
    BY DEF WithType
<1>4. [s[Len(s)] EXCEPT !.type = type].type = type
    BY <1>1 DEF Task
<1>5. WithType(s, type) \in Seq(Task) /\ Len(WithType(s, type)) = Len(s)
    BY <1>1, <1>2, <1>3
<1> QED
    BY <1>1, <1>3, <1>4, <1>5

(* The reader after an outcome. *)
Done(buf, pos, s, reply, o) ==
    IF o.does = "wait" THEN Starved(Rd(buf, pos, s, reply))
    ELSE IF o.does = "fail" THEN Failed(Rd(buf, pos, s, reply), o.err)
    ELSE IF o.does = "take"
    THEN Processed(Rd(buf, pos + o.used, Popped(s), Grown(s, reply, o.node)))
    ELSE Processed(Rd(buf, pos + o.used, Deeper(s, o.n),
                      Grown(s, reply, Node("array", <<>>, o.n))))

LEMMA FinishIs ==
    ASSUME NEW buf, NEW pos, NEW s, NEW reply, NEW node
    PROVE  Finish(Rd(buf, pos, s, reply), node)
               = Processed(Rd(buf, pos, Popped(s), Grown(s, reply, node)))
<1> DEFINE r == Rd(buf, pos, s, reply)
<1>1. Create(r, node) = Rd(buf, pos, s, Grown(s, reply, node))
    BY DEF Create, Path, Rd, Grown
<1>2. moveToNextTask(Rd(buf, pos, s, Grown(s, reply, node)))
        = Rd(buf, pos, Popped(s), Grown(s, reply, node))
    BY DEF moveToNextTask, Rd, Popped
<1> QED
    BY <1>1, <1>2 DEF Finish

(* The fields of outcomes. *)
LEMMA OutcomeFields ==
    ASSUME NEW buf, NEW pos, NEW s, NEW reply
    PROVE  /\ Done(buf, pos, s, reply, Waits) = Starved(Rd(buf, pos, s, reply))
           /\ \A e : Done(buf, pos, s, reply, Fails_(e)) = Failed(Rd(buf, pos, s, reply), e)
           /\ \A k, node : Done(buf, pos, s, reply, Takes(k, node))
                = Processed(Rd(buf, pos + k, Popped(s), Grown(s, reply, node)))
           /\ \A k, n : Done(buf, pos, s, reply, Begins(k, n))
                = Processed(Rd(buf, pos + k, Deeper(s, n), Grown(s, reply, Node("array", <<>>, n))))
BY DEF Done, Waits, Fails_, Takes, Begins

LEMMA TypedIs ==
    ASSUME NEW C, NEW buf \in Seq(C), NEW pos \in 0 .. Len(buf),
           NEW s \in Seq(Task), s # <<>>, NEW reply
    PROVE  ProcessTyped(Rd(buf, pos, s, reply))
               = Done(buf, pos, s, reply,
                      ItemOutcome(s[Len(s)].type, Len(s), SubSeq(buf, pos + 1, Len(buf))))
<1> DEFINE r == Rd(buf, pos, s, reply)
           u == SubSeq(buf, pos + 1, Len(buf))
           type == s[Len(s)].type
           n == seekNewline(u)
           line == SubSeq(u, 1, n - 1)
           v == string2ll(line)
           end == n + 1 + v.value + 2
<1>0. u \in Seq(C)
    OBVIOUS
<1>1. Unread(r) = u /\ Current(r).type = type /\ Len(r.rstack) = Len(s) /\ r.pos = pos /\ r.rstack = s
    BY DEF Unread, Current, Rd
<1>2. n \in Nat /\ (n # 0 => n + 1 <= Len(u))
    BY <1>0, SeekFacts
<1>3. line \in Seq(C)
    BY <1>0, <1>2
<1>4. v.ok \in BOOLEAN /\ v.value \in Int
    BY <1>3, NumberType
<1> HIDE DEF v, line, n
<1>a. [r EXCEPT !.pos = @ + n + 1] = Rd(buf, pos + (n + 1), s, reply)
    BY <1>2 DEF Rd
<1>b. [r EXCEPT !.pos = @ + end] = Rd(buf, pos + end, s, reply)
    BY DEF Rd
<1>5. processLineItem(r) = Done(buf, pos, s, reply, LineOutcome(type, u))
    <2>1. CASE n = 0
        BY <2>1, <1>1, OutcomeFields DEF processLineItem, LineOutcome, n
    <2>2. CASE n # 0
        <3>1. processLineItem(r) =
                IF type = "integer"
                THEN IF v.ok THEN Finish(Rd(buf, pos + (n + 1), s, reply),
                                         Node("integer", <<>>, v.value))
                     ELSE Failed(r, "protocol")
                ELSE IF Len(line) > MaxAlloc THEN Failed(r, "oom")
                ELSE Finish(Rd(buf, pos + (n + 1), s, reply), Node(type, line, 0))
            BY <2>2, <1>1, <1>a DEF processLineItem, n, v, line
        <3>2. LineOutcome(type, u) =
                IF type = "integer"
                THEN IF v.ok THEN Takes(n + 1, Node("integer", <<>>, v.value)) ELSE Fails_("protocol")
                ELSE IF Len(line) > MaxAlloc THEN Fails_("oom")
                ELSE Takes(n + 1, Node(type, line, 0))
            BY <2>2 DEF LineOutcome, n, v, line
        <3> HIDE DEF r, u, type
        <3> QED
            BY <3>1, <3>2, FinishIs, OutcomeFields DEF r
    <2> QED
        BY <2>1, <2>2
<1>6. processBulkItem(r) = Done(buf, pos, s, reply, BulkOutcome(type, u))
    <2>1. CASE n = 0
        BY <2>1, <1>1, OutcomeFields DEF processBulkItem, BulkOutcome, n
    <2>2. CASE n # 0
        <3>1. processBulkItem(r) =
                IF ~v.ok \/ v.value < -1 THEN Failed(r, "protocol")
                ELSE IF v.value = -1
                     THEN Finish(Rd(buf, pos + (n + 1), s, reply), Node("nil", <<>>, 0))
                ELSE IF end > Len(u) THEN Starved(r)
                ELSE IF v.value > MaxAlloc THEN Failed(r, "oom")
                ELSE Finish(Rd(buf, pos + end, s, reply), Node(type, SubSeq(u, n + 2, end - 2), 0))
            BY <2>2, <1>1, <1>a, <1>b DEF processBulkItem, n, v, line
        <3>2. BulkOutcome(type, u) =
                IF ~v.ok \/ v.value < -1 THEN Fails_("protocol")
                ELSE IF v.value = -1 THEN Takes(n + 1, Node("nil", <<>>, 0))
                ELSE IF end > Len(u) THEN Waits
                ELSE IF v.value > MaxAlloc THEN Fails_("oom")
                ELSE Takes(end, Node(type, SubSeq(u, n + 2, end - 2), 0))
            BY <2>2 DEF BulkOutcome, n, v, line
        <3> HIDE DEF r, u, type, end
        <3> QED
            BY <3>1, <3>2, FinishIs, OutcomeFields DEF r
    <2> QED
        BY <2>1, <2>2
<1>7. processMultiBulkItem(r) = Done(buf, pos, s, reply, ArrayOutcome(Len(s), u))
    <2>1. CASE Len(s) = StackSize
        BY <2>1, <1>1, OutcomeFields DEF processMultiBulkItem, ArrayOutcome
    <2>2. CASE Len(s) # StackSize /\ n = 0
        BY <2>2, <1>1, OutcomeFields DEF processMultiBulkItem, ArrayOutcome, n
    <2>3. CASE Len(s) # StackSize /\ n # 0
        <3> DEFINE after == Rd(buf, pos + (n + 1), s, reply)
                   begun == Processed([Create(after, Node("array", <<>>, v.value)) EXCEPT !.rstack =
                                Append([@ EXCEPT ![Len(s)].elements = v.value],
                                       [RootTask EXCEPT !.idx = 0])])
        <3>1. processMultiBulkItem(r) =
                IF ~v.ok \/ v.value < -1 \/ v.value > INT_MAX THEN Failed(r, "protocol")
                ELSE IF v.value = -1 THEN Finish(after, Node("nil", <<>>, 0))
                ELSE IF v.value > MaxAlloc THEN Failed(r, "oom")
                ELSE IF v.value = 0 THEN Finish(after, Node("array", <<>>, 0))
                ELSE begun
            BY <2>3, <1>1, <1>a, ZenonT(60) DEF processMultiBulkItem, n, v, line
        <3>2. ArrayOutcome(Len(s), u) =
                IF ~v.ok \/ v.value < -1 \/ v.value > INT_MAX THEN Fails_("protocol")
                ELSE IF v.value = -1 THEN Takes(n + 1, Node("nil", <<>>, 0))
                ELSE IF v.value > MaxAlloc THEN Fails_("oom")
                ELSE IF v.value = 0 THEN Takes(n + 1, Node("array", <<>>, 0))
                ELSE Begins(n + 1, v.value)
            BY <2>3 DEF ArrayOutcome, n, v, line
        <3>3. begun = Processed(Rd(buf, pos + (n + 1), Deeper(s, v.value),
                                   Grown(s, reply, Node("array", <<>>, v.value))))
            <4> DEFINE array == Rd(buf, pos + (n + 1), s, Grown(s, reply, Node("array", <<>>, v.value)))
            <4>1. Create(after, Node("array", <<>>, v.value)) = array
                BY DEF Create, Path, Rd, Grown
            <4>2. array.rstack = s
                BY DEF Rd
            <4>3. \A z : [array EXCEPT !.rstack = z]
                    = Rd(buf, pos + (n + 1), z, Grown(s, reply, Node("array", <<>>, v.value)))
                BY DEF Rd
            <4> HIDE DEF array, after
            <4> QED
                BY <4>1, <4>2, <4>3 DEF Deeper, begun
        <3> HIDE DEF r, u, begun, after
        <3> QED
            BY <3>1, <3>2, <3>3, FinishIs, OutcomeFields DEF r, after
    <2> QED
        BY <2>1, <2>2, <2>3
<1> QED
    BY <1>1, <1>5, <1>6, <1>7 DEF ProcessTyped, ItemOutcome


-----------------------------------------------------------------------------
(* What the loop over the items comes to depends on the stack, the reply   *)
(* begun and what is unread: it goes on, it waits, or it has failed.       *)

Past(u, n) == SubSeq(u, n + 1, Len(u))

Go(s, reply, u) == [ok |-> TRUE, err |-> "none", s |-> s, reply |-> reply, u |-> u]
Rests(s, reply, u) == [ok |-> FALSE, err |-> "none", s |-> s, reply |-> reply, u |-> u]
Dead(e) == [ok |-> FALSE, err |-> e, s |-> <<>>, reply |-> <<>>, u |-> <<>>]

View(st) == [ok |-> st.ok, err |-> st.reader.err, s |-> st.reader.rstack,
             reply |-> st.reader.reply, u |-> Unread(st.reader)]

Outcomes(s, reply, u, o) ==
    IF o.does = "wait" THEN Rests(s, reply, u)
    ELSE IF o.does = "fail" THEN Dead(o.err)
    ELSE IF o.does = "take" THEN Go(Popped(s), Grown(s, reply, o.node), Past(u, o.used))
    ELSE Go(Deeper(s, o.n), Grown(s, reply, Node("array", <<>>, o.n)), Past(u, o.used))

TypedItem(s, reply, u) == Outcomes(s, reply, u, ItemOutcome(s[Len(s)].type, Len(s), u))

Item(s, reply, u) ==
    IF s[Len(s)].type # Unknown THEN TypedItem(s, reply, u)
    ELSE IF u = <<>> THEN Rests(s, reply, u)
    ELSE IF u[1] \notin DOMAIN TypeOf THEN Dead("protocol")
    ELSE TypedItem(WithType(s, TypeOf[u[1]]), reply, Past(u, 1))

(* The state of the loop: its reader is ready, or it has failed. *)
Sound(st, C) ==
    \/ \E e \in {"protocol", "oom"} : st = Failed(NewReader, e)
    \/ st.ok \in BOOLEAN /\ st = [ok |-> st.ok, reader |-> st.reader] /\ Ready(st.reader, C)

LEMMA DropFacts ==
    ASSUME NEW C, NEW u \in Seq(C), NEW n \in 0 .. Len(u)
    PROVE  /\ Past(u, n) \in Seq(C) /\ Len(Past(u, n)) = Len(u) - n
           /\ \A i \in 1 .. Len(u) - n : Past(u, n)[i] = u[n + i]
BY DEF Past

LEMMA DropTwice ==
    ASSUME NEW C, NEW u \in Seq(C), NEW n \in 0 .. Len(u), NEW k \in 0 .. Len(u) - n
    PROVE  Past(Past(u, n), k) = Past(u, n + k)
<1>0. Len(u) \in Nat /\ n + k \in 0 .. Len(u)
    OBVIOUS
<1>1. PICK v \in Seq(C) : /\ v = Past(u, n) /\ Len(v) = Len(u) - n
                          /\ \A i \in 1 .. Len(u) - n : v[i] = u[n + i]
    BY DropFacts
<1>2. /\ Past(v, k) \in Seq(C) /\ Len(Past(v, k)) = Len(u) - n - k
      /\ \A i \in 1 .. Len(u) - n - k : Past(v, k)[i] = v[k + i]
    <2>1. k \in 0 .. Len(v)
        BY <1>1
    <2>2. /\ Past(v, k) \in Seq(C) /\ Len(Past(v, k)) = Len(v) - k
          /\ \A i \in 1 .. Len(v) - k : Past(v, k)[i] = v[k + i]
        BY <2>1, DropFacts
    <2> QED
        BY <1>1, <2>2
<1>3. /\ Past(u, n + k) \in Seq(C) /\ Len(Past(u, n + k)) = Len(u) - (n + k)
      /\ \A i \in 1 .. Len(u) - (n + k) : Past(u, n + k)[i] = u[n + k + i]
    BY <1>0, DropFacts
<1>4. PICK x \in Seq(C) : x = Past(v, k)
    BY <1>2
<1>5. PICK y \in Seq(C) : y = Past(u, n + k)
    BY <1>3
<1>6. Len(x) = Len(y) /\ \A i \in 1 .. Len(x) : x[i] = y[i]
    <2>1. Len(u) \in Nat
        OBVIOUS
    <2>2. Len(x) = Len(u) - n - k /\ Len(y) = Len(u) - n - k
        <3>1. Len(x) = Len(u) - n - k
            BY <1>1, <1>2, <1>4
        <3>2. Len(y) = Len(u) - (n + k)
            BY <1>3, <1>5
        <3> QED
            BY <3>1, <3>2, <2>1
    <2>3. ASSUME NEW i \in 1 .. Len(u) - n - k
          PROVE  x[i] = y[i]
        <3>0. i \in 1 .. Len(u) - (n + k)
            BY <2>1
        <3>1. x[i] = v[k + i] /\ y[i] = u[n + k + i]
            BY <1>2, <1>3, <1>4, <1>5, <3>0
        <3>2. k + i \in 1 .. Len(u) - n /\ n + (k + i) = n + k + i
            BY <2>1
        <3> QED
            BY <1>1, <3>1, <3>2
    <2> QED
        BY <2>2, <2>3
<1>7. x = y
    BY <1>6
<1> QED
    BY <1>1, <1>4, <1>5, <1>7

LEMMA DropMore ==
    ASSUME NEW C, NEW u \in Seq(C), NEW w \in Seq(C), NEW n \in 0 .. Len(u)
    PROVE  Past(u \o w, n) = Past(u, n) \o w
<1>1. n \in Nat /\ n <= Len(u)
    OBVIOUS
<1> QED
    BY <1>1, RestOfBoth DEF Past

LEMMA GrownFacts ==
    ASSUME NEW s, NEW reply, NEW node
    PROVE  Grown(s, reply, node) # <<>>
<1> DEFINE p == [i \in 1 .. Len(s) - 1 |-> s[i + 1].idx]
<1>1. p \in DOMAIN Grown(s, reply, node)
    BY DEF Grown, Linked
<1>2. DOMAIN <<>> = {}
    OBVIOUS
<1> HIDE DEF p
<1> QED
    BY <1>1, <1>2

LEMMA FailedView ==
    ASSUME NEW e
    PROVE  View(Failed(NewReader, e)) = Dead(e)
<1>1. Len(<<>>) = 0 /\ SubSeq(<<>>, 0 + 1, 0) = <<>>
    OBVIOUS
<1> QED
    BY <1>1 DEF View, Failed, SetError, NewReader, Dead, Unread

(* What Done does to the reader is what Outcomes does to its view.         *)
LEMMA DoneView ==
    ASSUME NEW C, NEW buf \in Seq(C), NEW pos \in 0 .. Len(buf), NEW s \in Seq(Task), s # <<>>,
           NEW reply, NEW o, IsOutcome(o, Len(buf) - pos)
    PROVE  /\ View(Done(buf, pos, s, reply, o)) = Outcomes(s, reply, Past(buf, pos), o)
           /\ Sound(Done(buf, pos, s, reply, o), C)
<1>0. Len(buf) \in Nat
    OBVIOUS
<1>1. CASE o = Waits
    <2>1. Done(buf, pos, s, reply, o) = Starved(Rd(buf, pos, s, reply))
        BY <1>1, OutcomeFields
    <2>2. Ready(Rd(buf, pos, s, reply), C)
        BY DEF Ready, Rd
    <2>3. Outcomes(s, reply, Past(buf, pos), o) = Rests(s, reply, Past(buf, pos))
        BY <1>1 DEF Outcomes, Waits
    <2> QED
        <3>1. View(Starved(Rd(buf, pos, s, reply))) = Rests(s, reply, Past(buf, pos))
            BY DEF View, Starved, Rd, Rests, Unread, Past
        <3>2. Sound(Starved(Rd(buf, pos, s, reply)), C)
            BY <2>2 DEF Sound, Starved
        <3> QED
            BY <2>1, <2>3, <3>1, <3>2
<1>2. ASSUME NEW e \in {"protocol", "oom"}, o = Fails_(e)
      PROVE  /\ View(Done(buf, pos, s, reply, o)) = Outcomes(s, reply, Past(buf, pos), o)
             /\ Sound(Done(buf, pos, s, reply, o), C)
    <2>1. Done(buf, pos, s, reply, o) = Failed(NewReader, e)
        <3>1. Done(buf, pos, s, reply, Fails_(e)) = Failed(Rd(buf, pos, s, reply), e)
            BY OutcomeFields
        <3> QED
            BY <1>2, <3>1 DEF Failed, SetError
    <2>2. Outcomes(s, reply, Past(buf, pos), o) = Dead(e)
        BY <1>2 DEF Outcomes, Fails_
    <2>3. View(Failed(NewReader, e)) = Dead(e)
        BY FailedView
    <2> QED
        BY <2>1, <2>2, <2>3 DEF Sound
<1>3. ASSUME NEW k \in 1 .. Len(buf) - pos, NEW s2 \in Seq(Task), NEW reply2
      PROVE  /\ View(Processed(Rd(buf, pos + k, s2, reply2)))
                  = Go(s2, reply2, Past(Past(buf, pos), k))
             /\ Sound(Processed(Rd(buf, pos + k, s2, reply2)), C)
    <2>1. pos + k \in 0 .. Len(buf) /\ k \in 0 .. Len(buf) - pos
        BY <1>0
    <2>2. Past(Past(buf, pos), k) = Past(buf, pos + k)
        BY <2>1, DropTwice
    <2>3. Ready(Rd(buf, pos + k, s2, reply2), C)
        BY <2>1 DEF Ready, Rd
    <2> QED
        BY <2>2, <2>3 DEF Sound, View, Processed, Rd, Go, Unread, Past
<1>4. ASSUME NEW k \in 1 .. Len(buf) - pos, NEW node, o = Takes(k, node)
      PROVE  /\ View(Done(buf, pos, s, reply, o)) = Outcomes(s, reply, Past(buf, pos), o)
             /\ Sound(Done(buf, pos, s, reply, o), C)
    <2>1. Done(buf, pos, s, reply, o) = Processed(Rd(buf, pos + k, Popped(s), Grown(s, reply, node)))
        <3>1. Done(buf, pos, s, reply, Takes(k, node))
                = Processed(Rd(buf, pos + k, Popped(s), Grown(s, reply, node)))
            BY DEF Done, Takes
        <3> QED
            BY <1>4, <3>1, Zenon
    <2>2. Outcomes(s, reply, Past(buf, pos), o)
            = Go(Popped(s), Grown(s, reply, node), Past(Past(buf, pos), k))
        BY <1>4 DEF Outcomes, Takes
    <2> QED
        BY <1>3, <2>1, <2>2, PoppedType
<1>5. ASSUME NEW k \in 1 .. Len(buf) - pos, NEW n \in Int, o = Begins(k, n)
      PROVE  /\ View(Done(buf, pos, s, reply, o)) = Outcomes(s, reply, Past(buf, pos), o)
             /\ Sound(Done(buf, pos, s, reply, o), C)
    <2>1. Done(buf, pos, s, reply, o)
            = Processed(Rd(buf, pos + k, Deeper(s, n), Grown(s, reply, Node("array", <<>>, n))))
        <3>1. Done(buf, pos, s, reply, Begins(k, n))
                = Processed(Rd(buf, pos + k, Deeper(s, n), Grown(s, reply, Node("array", <<>>, n))))
            BY DEF Done, Begins
        <3> QED
            BY <1>5, <3>1, Zenon
    <2>2. Outcomes(s, reply, Past(buf, pos), o)
            = Go(Deeper(s, n), Grown(s, reply, Node("array", <<>>, n)), Past(Past(buf, pos), k))
        BY <1>5 DEF Outcomes, Begins
    <2>3. Deeper(s, n) \in Seq(Task)
        BY DeeperType
    <2> QED
        BY <1>3, <2>1, <2>2, <2>3
<1> QED
    BY <1>1, <1>2, <1>4, <1>5 DEF IsOutcome

LEMMA TypeOfFacts ==
    \A c \in DOMAIN TypeOf : TypeOf[c] \in ItemTypes /\ TypeOf[c] # Unknown
BY DEF TypeOf, ItemTypes, Unknown

(* processItem does what Item says. *)
LEMMA ItemIs ==
    ASSUME NEW C, NEW r, Ready(r, C), r.rstack # <<>>
    PROVE  View(processItem(r)) = Item(r.rstack, r.reply, Unread(r)) /\ Sound(processItem(r), C)
<1> DEFINE reply == r.reply
<1>1. PICK buf \in Seq(C), pos \in 0 .. Len(r.buf), s \in Seq(Task) :
          /\ r = Rd(buf, pos, s, reply)
          /\ r.buf = buf /\ r.pos = pos /\ r.rstack = s /\ r.reply = reply
    BY DEF Ready
<1> HIDE DEF reply
<1>2. s # <<>> /\ pos \in 0 .. Len(buf) /\ Unread(r) = Past(buf, pos) /\ Len(buf) \in Nat
    BY <1>1 DEF Unread, Past
<1>3. ASSUME NEW p \in 0 .. Len(buf), NEW z \in Seq(Task), z # <<>>
      PROVE  /\ View(ProcessTyped(Rd(buf, p, z, reply))) = TypedItem(z, reply, Past(buf, p))
             /\ Sound(ProcessTyped(Rd(buf, p, z, reply)), C)
    <2>1. ProcessTyped(Rd(buf, p, z, reply))
            = Done(buf, p, z, reply, ItemOutcome(z[Len(z)].type, Len(z), Past(buf, p)))
        BY <1>3, TypedIs DEF Past
    <2>2. Past(buf, p) \in Seq(C) /\ Len(Past(buf, p)) = Len(buf) - p
        BY DropFacts
    <2>3. IsOutcome(ItemOutcome(z[Len(z)].type, Len(z), Past(buf, p)), Len(buf) - p)
        BY <2>2, OutcomeFacts
    <2> QED
        BY <1>3, <2>1, <2>3, DoneView DEF TypedItem
<1>4. Current(r) = s[Len(s)]
    BY <1>1 DEF Current
<1>5. CASE s[Len(s)].type # Unknown
    BY <1>1, <1>2, <1>3, <1>4, <1>5 DEF processItem, Item
<1>6. CASE s[Len(s)].type = Unknown /\ pos = Len(buf)
    <2>1. Past(buf, pos) = <<>>
        BY <1>2, <1>6, DropFacts
    <2>2. processItem(r) = Starved(r)
        BY <1>1, <1>4, <1>6 DEF processItem
    <2>3. Item(s, reply, Past(buf, pos)) = Rests(s, reply, Past(buf, pos))
        BY <1>6, <2>1 DEF Item
    <2> QED
        <3>1. View(Starved(r)) = Rests(s, reply, Unread(r))
            BY <1>1 DEF View, Starved, Rests, Rd
        <3>2. Sound(Starved(r), C)
            BY DEF Sound, Starved
        <3> QED
            BY <1>1, <1>2, <2>2, <2>3, <3>1, <3>2
<1>7. CASE s[Len(s)].type = Unknown /\ pos # Len(buf)
    <2>1. /\ Past(buf, pos) \in Seq(C) /\ Len(Past(buf, pos)) = Len(buf) - pos
          /\ Past(buf, pos) # <<>> /\ Past(buf, pos)[1] = buf[pos + 1]
        <3>1. /\ Past(buf, pos) \in Seq(C) /\ Len(Past(buf, pos)) = Len(buf) - pos
              /\ \A i \in 1 .. Len(buf) - pos : Past(buf, pos)[i] = buf[pos + i]
            BY <1>2, DropFacts
        <3>2. 1 \in 1 .. Len(buf) - pos
            BY <1>2, <1>7
        <3>3. Len(<<>>) = 0 /\ Len(Past(buf, pos)) # 0
            BY <1>2, <1>7, <3>1
        <3> QED
            BY <3>1, <3>2, <3>3
    <2>2. CASE buf[pos + 1] \notin DOMAIN TypeOf
        <3>1. processItem(r) = Failed(NewReader, "protocol")
            BY <1>1, <1>4, <1>7, <2>2 DEF processItem, Failed, SetError
        <3>2. Item(s, reply, Past(buf, pos)) = Dead("protocol")
            BY <1>7, <2>1, <2>2 DEF Item
        <3>3. View(Failed(NewReader, "protocol")) = Dead("protocol")
            BY FailedView
        <3> QED
            BY <1>1, <1>2, <3>1, <3>2, <3>3 DEF Sound
    <2>3. CASE buf[pos + 1] \in DOMAIN TypeOf
        <3> DEFINE z == WithType(s, TypeOf[buf[pos + 1]])
        <3>1. processItem(r) = ProcessTyped(Rd(buf, pos + 1, z, reply))
            <4>1. processItem(r)
                    = ProcessTyped([r EXCEPT !.pos = @ + 1,
                                             !.rstack[Len(r.rstack)].type = TypeOf[buf[pos + 1]]])
                BY <1>1, <1>4, <1>7, <2>3 DEF processItem
            <4>2. [r EXCEPT !.pos = @ + 1, !.rstack[Len(r.rstack)].type = TypeOf[buf[pos + 1]]]
                    = Rd(buf, pos + 1, z, reply)
                <5>1. \A q : [r EXCEPT !.pos = @ + 1, !.rstack = q] = Rd(buf, pos + 1, q, reply)
                    <6>1. Rd(buf, pos, s, reply).pos = pos
                        BY DEF Rd
                    <6>2. [Rd(buf, pos, s, reply) EXCEPT !.pos = pos + 1] = Rd(buf, pos + 1, s, reply)
                        BY DEF Rd
                    <6>3. \A q : [Rd(buf, pos + 1, s, reply) EXCEPT !.rstack = q]
                                    = Rd(buf, pos + 1, q, reply)
                        BY DEF Rd
                    <6> QED
                        BY <1>1, <6>1, <6>2, <6>3
                <5>2. [r EXCEPT !.pos = @ + 1, !.rstack[Len(r.rstack)].type = TypeOf[buf[pos + 1]]]
                        = [r EXCEPT !.pos = @ + 1, !.rstack = z]
                    BY <1>1 DEF WithType
                <5> HIDE DEF z
                <5> QED
                    BY <5>1, <5>2
            <4> QED
                BY <4>1, <4>2
        <3>2. z \in Seq(Task) /\ z # <<>>
            BY <1>2, <2>3, TypeOfFacts, TypedFacts
        <3>3. Past(Past(buf, pos), 1) = Past(buf, pos + 1) /\ pos + 1 \in 0 .. Len(buf)
            BY <1>2, <1>7, DropTwice
        <3>4. Item(s, reply, Past(buf, pos)) = TypedItem(z, reply, Past(buf, pos + 1))
            BY <1>7, <2>1, <2>3, <3>3 DEF Item
        <3> HIDE DEF z
        <3> QED
            BY <1>1, <1>2, <1>3, <3>1, <3>2, <3>3, <3>4
    <2> QED
        BY <2>2, <2>3
<1> QED
    BY <1>5, <1>6, <1>7

(* What an item comes to, and that it comes to the same when more is there *)
(* already: what waited goes on from where it waited.                      *)
FailsFor(i, s, reply, u, C) ==
    \E e \in {"protocol", "oom"} :
        /\ i = Dead(e)
        /\ \A w \in Seq(C) : Item(s, reply, u \o w) = Dead(e)
GoesOn(i, s, reply, u, C) ==
    \E s2 \in Seq(Task), u2 \in Seq(C) : \E reply2 :
        /\ reply2 # <<>> /\ Len(u2) < Len(u)
        /\ i = Go(s2, reply2, u2)
        /\ \A w \in Seq(C) : Item(s, reply, u \o w) = Go(s2, reply2, u2 \o w)
WaitsFor(i, s, reply, u, C) ==
    \E s2 \in Seq(Task), u2 \in Seq(C) :
        /\ s2 # <<>> /\ Len(u2) <= Len(u)
        /\ i = Rests(s2, reply, u2)
        /\ Item(s2, reply, u2) = Rests(s2, reply, u2)
        /\ \A w \in Seq(C) : Item(s, reply, u \o w) = Item(s2, reply, u2 \o w)
Kinds(i, s, reply, u, C) ==
    FailsFor(i, s, reply, u, C) \/ GoesOn(i, s, reply, u, C) \/ WaitsFor(i, s, reply, u, C)

LEMMA TypedKinds ==
    ASSUME NEW C, NEW s \in Seq(Task), s # <<>>, NEW reply, NEW u \in Seq(C),
           s[Len(s)].type # Unknown
    PROVE  Kinds(Item(s, reply, u), s, reply, u, C)
<1> DEFINE o == ItemOutcome(s[Len(s)].type, Len(s), u)
<1>1. \A v : Item(s, reply, v)
               = Outcomes(s, reply, v, ItemOutcome(s[Len(s)].type, Len(s), v))
    BY DEF Item, TypedItem
<1>2. IsOutcome(o, Len(u))
    BY OutcomeFacts
<1>3. ASSUME NEW w \in Seq(C), o # Waits
      PROVE  Item(s, reply, u \o w) = Outcomes(s, reply, u \o w, o)
    <2>1. ItemOutcome(s[Len(s)].type, Len(s), u \o w) = o
        BY <1>3, OutcomeFacts
    <2> QED
        BY <1>1, <2>1
<1>4. Item(s, reply, u) = Outcomes(s, reply, u, o)
    BY <1>1
<1>0. Len(u) \in Nat
    OBVIOUS
<1> HIDE DEF o
<1>5. CASE o = Waits
    <2>1. Item(s, reply, u) = Rests(s, reply, u)
        BY <1>4, <1>5 DEF Outcomes, Waits
    <2>2. WaitsFor(Item(s, reply, u), s, reply, u, C)
        BY <1>0, <2>1 DEF WaitsFor
    <2> QED
        BY <2>2 DEF Kinds
<1>6. ASSUME NEW e \in {"protocol", "oom"}, o = Fails_(e)
      PROVE  Kinds(Item(s, reply, u), s, reply, u, C)
    <2>1. o # Waits /\ \A v : Outcomes(s, reply, v, o) = Dead(e)
        BY <1>6 DEF Outcomes, Fails_, Waits
    <2>2. \A w \in Seq(C) : Item(s, reply, u \o w) = Dead(e)
        BY <1>3, <2>1
    <2>3. Item(s, reply, u) = Dead(e)
        BY <1>4, <2>1
    <2> QED
        BY <2>2, <2>3 DEF Kinds, FailsFor
<1>7. ASSUME NEW k \in 1 .. Len(u), NEW s2 \in Seq(Task), NEW reply2, reply2 # <<>>, o # Waits,
             \A v : Outcomes(s, reply, v, o) = Go(s2, reply2, Past(v, k))
      PROVE  Kinds(Item(s, reply, u), s, reply, u, C)
    <2>0. k \in 0 .. Len(u)
        BY <1>0
    <2>1. Past(u, k) \in Seq(C) /\ Len(Past(u, k)) = Len(u) - k
        BY <2>0, DropFacts
    <2>2. \A w \in Seq(C) : Past(u \o w, k) = Past(u, k) \o w
        BY <2>0, DropMore
    <2>3. Item(s, reply, u) = Go(s2, reply2, Past(u, k))
        BY <1>4, <1>7
    <2>4. \A w \in Seq(C) : Item(s, reply, u \o w) = Go(s2, reply2, Past(u, k) \o w)
        BY <1>3, <1>7, <2>2
    <2>5. Len(Past(u, k)) < Len(u)
        BY <1>0, <2>1
    <2>6. GoesOn(Item(s, reply, u), s, reply, u, C)
        BY <1>7, <2>1, <2>3, <2>4, <2>5 DEF GoesOn
    <2> QED
        BY <2>6 DEF Kinds
<1>8. ASSUME NEW k \in 1 .. Len(u), NEW node, o = Takes(k, node)
      PROVE  Kinds(Item(s, reply, u), s, reply, u, C)
    <2>1. o # Waits /\ \A v : Outcomes(s, reply, v, o)
                                 = Go(Popped(s), Grown(s, reply, node), Past(v, k))
        BY <1>8 DEF Outcomes, Takes, Waits
    <2>2. Popped(s) \in Seq(Task)
        BY PoppedType
    <2>3. Grown(s, reply, node) # <<>>
        BY GrownFacts
    <2> QED
        BY <1>7, <2>1, <2>2, <2>3
<1>9. ASSUME NEW k \in 1 .. Len(u), NEW n \in Int, o = Begins(k, n)
      PROVE  Kinds(Item(s, reply, u), s, reply, u, C)
    <2>1. o # Waits /\ \A v : Outcomes(s, reply, v, o)
              = Go(Deeper(s, n), Grown(s, reply, Node("array", <<>>, n)), Past(v, k))
        BY <1>9 DEF Outcomes, Begins, Waits
    <2>2. Deeper(s, n) \in Seq(Task)
        BY DeeperType
    <2> QED
        BY <1>7, <2>1, <2>2, GrownFacts
<1> QED
    BY <1>2, <1>5, <1>6, <1>8, <1>9 DEF IsOutcome

LEMMA ItemKinds ==
    ASSUME NEW C, NEW s \in Seq(Task), s # <<>>, NEW reply, NEW u \in Seq(C)
    PROVE  Kinds(Item(s, reply, u), s, reply, u, C)
<1>0. Len(u) \in Nat
    OBVIOUS
<1>1. CASE s[Len(s)].type # Unknown
    BY <1>1, TypedKinds
<1>2. CASE s[Len(s)].type = Unknown /\ u = <<>>
    <2>1. Item(s, reply, u) = Rests(s, reply, u)
        BY <1>2 DEF Item
    <2>2. WaitsFor(Item(s, reply, u), s, reply, u, C)
        BY <1>0, <2>1 DEF WaitsFor
    <2> QED
        BY <2>2 DEF Kinds
<1>3. CASE s[Len(s)].type = Unknown /\ u # <<>>
    <2>1. ASSUME NEW w \in Seq(C)
          PROVE  u \o w # <<>> /\ (u \o w)[1] = u[1]
        <3>1. Len(u) >= 1 /\ Len(u \o w) = Len(u) + Len(w) /\ Len(w) \in Nat /\ Len(<<>>) = 0
            BY <1>3
        <3> QED
            BY <3>1
    <2>2. CASE u[1] \notin DOMAIN TypeOf
        <3>1. Item(s, reply, u) = Dead("protocol")
            BY <1>3, <2>2 DEF Item
        <3>2. \A w \in Seq(C) : Item(s, reply, u \o w) = Dead("protocol")
            BY <1>3, <2>1, <2>2 DEF Item
        <3> QED
            BY <3>1, <3>2 DEF Kinds, FailsFor
    <2>3. CASE u[1] \in DOMAIN TypeOf
        <3>1. PICK z : z = WithType(s, TypeOf[u[1]])
            OBVIOUS
        <3>2. z \in Seq(Task) /\ z # <<>> /\ z[Len(z)].type # Unknown
            BY <2>3, <3>1, TypeOfFacts, TypedFacts
        <3>3. 1 \in 0 .. Len(u)
            BY <1>0, <1>3
        <3>4. PICK v \in Seq(C) : v = Past(u, 1) /\ Len(v) = Len(u) - 1
            BY <3>3, DropFacts
        <3>5. \A w \in Seq(C) : Past(u \o w, 1) = v \o w
            BY <3>3, <3>4, DropMore
        <3>6. \A q : Item(z, reply, q) = TypedItem(z, reply, q)
            BY <3>2 DEF Item
        <3>7. Item(s, reply, u) = Item(z, reply, v)
            BY <1>3, <2>3, <3>1, <3>4, <3>6 DEF Item
        <3>8. \A w \in Seq(C) : Item(s, reply, u \o w) = Item(z, reply, v \o w)
            BY <1>3, <2>1, <2>3, <3>1, <3>5, <3>6 DEF Item
        <3>9. Kinds(Item(z, reply, v), z, reply, v, C)
            BY <3>2, TypedKinds
        <3>10. CASE FailsFor(Item(z, reply, v), z, reply, v, C)
            BY <3>7, <3>8, <3>10 DEF Kinds, FailsFor
        <3>11. CASE GoesOn(Item(z, reply, v), z, reply, v, C)
            <4>1. PICK s2 \in Seq(Task), u2 \in Seq(C) : \E reply2 :
                     /\ reply2 # <<>> /\ Len(u2) < Len(v)
                     /\ Item(z, reply, v) = Go(s2, reply2, u2)
                     /\ \A w \in Seq(C) : Item(z, reply, v \o w) = Go(s2, reply2, u2 \o w)
                BY <3>11 DEF GoesOn
            <4>2. Len(u2) < Len(u)
                BY <1>0, <3>4, <4>1, Len(u2) \in Nat
            <4>3. GoesOn(Item(s, reply, u), s, reply, u, C)
                BY <3>7, <3>8, <4>1, <4>2 DEF GoesOn
            <4> QED
                BY <4>3 DEF Kinds
        <3>12. CASE WaitsFor(Item(z, reply, v), z, reply, v, C)
            <4>1. PICK s2 \in Seq(Task), u2 \in Seq(C) :
                     /\ s2 # <<>> /\ Len(u2) <= Len(v)
                     /\ Item(z, reply, v) = Rests(s2, reply, u2)
                     /\ Item(s2, reply, u2) = Rests(s2, reply, u2)
                     /\ \A w \in Seq(C) : Item(z, reply, v \o w) = Item(s2, reply, u2 \o w)
                BY <3>12 DEF WaitsFor
            <4>2. Len(u2) <= Len(u)
                BY <1>0, <3>4, <4>1, Len(u2) \in Nat
            <4>3. WaitsFor(Item(s, reply, u), s, reply, u, C)
                BY <3>7, <3>8, <4>1, <4>2 DEF WaitsFor
            <4> QED
                BY <4>3 DEF Kinds
        <3> QED
            BY <3>9, <3>10, <3>11, <3>12 DEF Kinds
    <2> QED
        BY <2>2, <2>3
<1> QED
    BY <1>1, <1>2, <1>3

-----------------------------------------------------------------------------
(* Where the loop ends *)

AtRest(x) == ~(x.ok /\ x.s # <<>>)
More(x) == IF AtRest(x) THEN x ELSE Item(x.s, x.reply, x.u)

(* The loop that begins at x ends at y, and where y ends it does. *)
Leads(h, n, x) == h[0] = x /\ \A i \in 1 .. n : h[i] = More(h[i - 1])
Stops(x, y) == AtRest(y) /\ \E n \in Nat : \E h : Leads(h, n, x) /\ h[n] = y
Same(x, y) == \A z : Stops(x, z) <=> Stops(y, z)

LEMMA EndsAtRest ==
    ASSUME NEW x, AtRest(x), NEW y
    PROVE  Stops(x, y) <=> y = x
<1>1. ASSUME y = x PROVE Stops(x, y)
    <2> DEFINE h == [i \in 0 .. 0 |-> x]
    <2>1. Leads(h, 0, x) /\ h[0] = y
        BY <1>1 DEF Leads
    <2> QED
        BY <1>1, <2>1 DEF Stops
<1>2. ASSUME Stops(x, y) PROVE y = x
    <2>1. PICK n \in Nat : \E h : Leads(h, n, x) /\ h[n] = y
        BY <1>2 DEF Stops
    <2>2. PICK h : Leads(h, n, x) /\ h[n] = y
        BY <2>1
    <2> DEFINE S == {i \in Nat : i <= n => h[i] = x}
    <2>3. 0 \in S
        BY <2>2 DEF Leads
    <2>4. ASSUME NEW i \in S
          PROVE  i + 1 \in S
        <3>1. SUFFICES ASSUME i + 1 <= n
                       PROVE  h[i + 1] = x
            OBVIOUS
        <3>2. h[i] = x /\ i + 1 \in 1 .. n /\ (i + 1) - 1 = i
            BY <3>1
        <3>3. h[i + 1] = More(h[i])
            BY <2>2, <3>2 DEF Leads
        <3> QED
            BY <3>2, <3>3 DEF More
    <2>5. \A i \in Nat : i \in S
        <3>1. S \in SUBSET Nat
            OBVIOUS
        <3> HIDE DEF S
        <3> QED
            BY <2>3, <2>4, <3>1, Induction
    <2> QED
        BY <2>2, <2>5
<1> QED
    BY <1>1, <1>2

LEMMA SameMore ==
    ASSUME NEW x
    PROVE  Same(x, More(x))
<1> SUFFICES ASSUME NEW y PROVE Stops(x, y) <=> Stops(More(x), y)
    BY DEF Same
<1>1. ASSUME Stops(More(x), y) PROVE Stops(x, y)
    <2>1. PICK n \in Nat : \E h : Leads(h, n, More(x)) /\ h[n] = y
        BY <1>1 DEF Stops
    <2>2. PICK h : Leads(h, n, More(x)) /\ h[n] = y
        BY <2>1
    <2> DEFINE g == [i \in 0 .. n + 1 |-> IF i = 0 THEN x ELSE h[i - 1]]
    <2>3. g[0] = x /\ \A i \in 1 .. n + 1 : g[i] = h[i - 1]
        OBVIOUS
    <2> HIDE DEF g
    <2>4. ASSUME NEW i \in 1 .. n + 1
          PROVE  g[i] = More(g[i - 1])
        <3>1. CASE i = 1
            BY <2>2, <2>3, <3>1 DEF Leads
        <3>2. CASE i # 1
            <4>1. i - 1 \in 1 .. n /\ i - 1 \in 1 .. n + 1
                BY <3>2
            <4>2. h[i - 1] = More(h[i - 1 - 1])
                BY <2>2, <4>1 DEF Leads
            <4> QED
                BY <2>3, <4>1, <4>2
        <3> QED
            BY <3>1, <3>2
    <2>5. Leads(g, n + 1, x) /\ n + 1 \in Nat
        BY <2>3, <2>4 DEF Leads
    <2>6. g[n + 1] = y
        BY <2>2, <2>3, n + 1 \in 1 .. n + 1, (n + 1) - 1 = n
    <2> QED
        BY <1>1, <2>5, <2>6 DEF Stops
<1>2. ASSUME Stops(x, y) PROVE Stops(More(x), y)
    <2>1. PICK n \in Nat : \E h : Leads(h, n, x) /\ h[n] = y
        BY <1>2 DEF Stops
    <2>2. PICK h : Leads(h, n, x) /\ h[n] = y
        BY <2>1
    <2>3. CASE n = 0
        <3>1. x = y /\ AtRest(x)
            BY <1>2, <2>2, <2>3 DEF Leads, Stops
        <3>2. More(x) = x
            BY <3>1 DEF More
        <3> QED
            BY <1>2, <3>2
    <2>4. CASE n # 0
        <3> DEFINE g == [i \in 0 .. n - 1 |-> h[i + 1]]
        <3>0. n - 1 \in Nat /\ 1 \in 1 .. n
            BY <2>4
        <3>1. \A i \in 0 .. n - 1 : g[i] = h[i + 1]
            OBVIOUS
        <3> HIDE DEF g
        <3>2. g[0] = More(x)
            BY <2>2, <3>0, <3>1 DEF Leads
        <3>3. ASSUME NEW i \in 1 .. n - 1
              PROVE  g[i] = More(g[i - 1])
            <4>1. i + 1 \in 1 .. n /\ i \in 0 .. n - 1 /\ i - 1 \in 0 .. n - 1 /\ (i + 1) - 1 = i
                  /\ (i - 1) + 1 = i
                BY <2>4
            <4>2. h[i + 1] = More(h[i])
                BY <2>2, <4>1 DEF Leads
            <4> QED
                BY <3>1, <4>1, <4>2
        <3>4. Leads(g, n - 1, More(x))
            BY <3>2, <3>3 DEF Leads
        <3>5. g[n - 1] = y
            BY <2>2, <3>0, <3>1, n - 1 \in 0 .. n - 1, (n - 1) + 1 = n
        <3> QED
            BY <1>2, <3>0, <3>4, <3>5 DEF Stops
    <2> QED
        BY <2>3, <2>4
<1> QED
    BY <1>1, <1>2

LEMMA SameTrans == ASSUME NEW x, NEW y, NEW z, Same(x, y), Same(y, z) PROVE Same(x, z)
BY DEF Same

(* What becomes of a loop, and that it becomes of it however the text is   *)
(* cut: it fails, it ends with a reply, or it waits, and then it goes on   *)
(* from where it waits.                                                    *)
FateFails(s, reply, u, C) ==
    \E e \in {"protocol", "oom"} : \A w \in Seq(C) : Same(Go(s, reply, u \o w), Dead(e))
FateWhole(s, reply, u, C) ==
    \E u2 \in Seq(C) : \E reply2 :
        /\ reply2 # <<>>
        /\ \A w \in Seq(C) : Same(Go(s, reply, u \o w), Go(<<>>, reply2, u2 \o w))
FateWaits(s, reply, u, C) ==
    \E s2 \in Seq(Task), u2 \in Seq(C) : \E reply2 :
        /\ s2 # <<>> /\ Item(s2, reply2, u2) = Rests(s2, reply2, u2)
        /\ \A w \in Seq(C) : Same(Go(s, reply, u \o w), Go(s2, reply2, u2 \o w))
Fate(s, reply, u, C) ==
    FateFails(s, reply, u, C) \/ FateWhole(s, reply, u, C) \/ FateWaits(s, reply, u, C)

LEMMA GoMore ==
    ASSUME NEW s, s # <<>>, NEW reply, NEW u
    PROVE  More(Go(s, reply, u)) = Item(s, reply, u) /\ Same(Go(s, reply, u), Item(s, reply, u))
<1>1. More(Go(s, reply, u)) = Item(s, reply, u)
    BY DEF More, AtRest, Go
<1> QED
    BY <1>1, SameMore

LEMMA Fates ==
    ASSUME NEW C
    PROVE  \A s \in Seq(Task), u \in Seq(C) : \A reply : s # <<>> => Fate(s, reply, u, C)
<1> DEFINE T == {n \in Nat : \A s \in Seq(Task), u \in Seq(C) : \A reply :
                    s # <<>> /\ Len(u) = n => Fate(s, reply, u, C)}
<1>1. ASSUME NEW n \in Nat, \A m \in Nat : m < n => m \in T
      PROVE  n \in T
    <2>1. SUFFICES ASSUME NEW s \in Seq(Task), NEW u \in Seq(C), NEW reply, s # <<>>, Len(u) = n
                   PROVE  Fate(s, reply, u, C)
        OBVIOUS
    <2>2. \A w \in Seq(C) : Same(Go(s, reply, u \o w), Item(s, reply, u \o w))
        BY <2>1, GoMore
    <2>3. Kinds(Item(s, reply, u), s, reply, u, C)
        BY <2>1, ItemKinds
    <2>4. CASE FailsFor(Item(s, reply, u), s, reply, u, C)
        <3>1. FateFails(s, reply, u, C)
            BY <2>2, <2>4 DEF FailsFor, FateFails
        <3> QED
            BY <3>1 DEF Fate
    <2>5. CASE GoesOn(Item(s, reply, u), s, reply, u, C)
        <3>1. PICK s2 \in Seq(Task), u2 \in Seq(C) : \E reply2 :
                 /\ reply2 # <<>> /\ Len(u2) < Len(u)
                 /\ \A w \in Seq(C) : Item(s, reply, u \o w) = Go(s2, reply2, u2 \o w)
            BY <2>5 DEF GoesOn
        <3>2. PICK reply2 :
                 /\ reply2 # <<>> /\ Len(u2) < Len(u)
                 /\ \A w \in Seq(C) : Item(s, reply, u \o w) = Go(s2, reply2, u2 \o w)
            BY <3>1
        <3>3. \A w \in Seq(C) : Same(Go(s, reply, u \o w), Go(s2, reply2, u2 \o w))
            BY <2>2, <3>2
        <3>4. CASE s2 = <<>>
            <4>1. FateWhole(s, reply, u, C)
                BY <3>2, <3>3, <3>4 DEF FateWhole
            <4> QED
                BY <4>1 DEF Fate
        <3>5. CASE s2 # <<>>
            <4>1. Len(u2) \in Nat /\ Len(u2) \in T
                BY <1>1, <2>1, <3>2
            <4>2. Fate(s2, reply2, u2, C)
                BY <3>5, <4>1
            <4>3. CASE FateFails(s2, reply2, u2, C)
                <5>1. PICK e \in {"protocol", "oom"} :
                         \A w \in Seq(C) : Same(Go(s2, reply2, u2 \o w), Dead(e))
                    BY <4>3 DEF FateFails
                <5>2. \A w \in Seq(C) : Same(Go(s, reply, u \o w), Dead(e))
                    BY <3>3, <5>1, SameTrans
                <5> QED
                    BY <5>2 DEF Fate, FateFails
            <4>4. CASE FateWhole(s2, reply2, u2, C)
                <5>1. PICK u3 \in Seq(C) : \E reply3 : reply3 # <<>> /\ \A w \in Seq(C) :
                         Same(Go(s2, reply2, u2 \o w), Go(<<>>, reply3, u3 \o w))
                    BY <4>4 DEF FateWhole
                <5>2. PICK reply3 : reply3 # <<>> /\ \A w \in Seq(C) :
                         Same(Go(s2, reply2, u2 \o w), Go(<<>>, reply3, u3 \o w))
                    BY <5>1
                <5>3. \A w \in Seq(C) : Same(Go(s, reply, u \o w), Go(<<>>, reply3, u3 \o w))
                    BY <3>3, <5>2, SameTrans
                <5>4. FateWhole(s, reply, u, C)
                    BY <5>2, <5>3 DEF FateWhole
                <5> QED
                    BY <5>4 DEF Fate
            <4>5. CASE FateWaits(s2, reply2, u2, C)
                <5>1. PICK s3 \in Seq(Task), u3 \in Seq(C) : \E reply3 :
                         /\ s3 # <<>> /\ Item(s3, reply3, u3) = Rests(s3, reply3, u3)
                         /\ \A w \in Seq(C) : Same(Go(s2, reply2, u2 \o w), Go(s3, reply3, u3 \o w))
                    BY <4>5 DEF FateWaits
                <5>2. PICK reply3 :
                         /\ s3 # <<>> /\ Item(s3, reply3, u3) = Rests(s3, reply3, u3)
                         /\ \A w \in Seq(C) : Same(Go(s2, reply2, u2 \o w), Go(s3, reply3, u3 \o w))
                    BY <5>1
                <5>3. \A w \in Seq(C) : Same(Go(s, reply, u \o w), Go(s3, reply3, u3 \o w))
                    BY <3>3, <5>2, SameTrans
                <5>4. FateWaits(s, reply, u, C)
                    BY <5>2, <5>3 DEF FateWaits
                <5> QED
                    BY <5>4 DEF Fate
            <4> QED
                BY <4>2, <4>3, <4>4, <4>5 DEF Fate
        <3> QED
            BY <3>4, <3>5
    <2>6. CASE WaitsFor(Item(s, reply, u), s, reply, u, C)
        <3>1. PICK s2 \in Seq(Task), u2 \in Seq(C) :
                 /\ s2 # <<>> /\ Item(s2, reply, u2) = Rests(s2, reply, u2)
                 /\ \A w \in Seq(C) : Item(s, reply, u \o w) = Item(s2, reply, u2 \o w)
            BY <2>6 DEF WaitsFor
        <3>2. \A w \in Seq(C) : Same(Go(s2, reply, u2 \o w), Item(s2, reply, u2 \o w))
            BY <3>1, GoMore
        <3>3. \A w \in Seq(C) : Same(Go(s, reply, u \o w), Go(s2, reply, u2 \o w))
            BY <2>2, <3>1, <3>2 DEF Same
        <3>4. FateWaits(s, reply, u, C)
            BY <3>1, <3>3 DEF FateWaits
        <3> QED
            BY <3>4 DEF Fate
    <2> QED
        BY <2>3, <2>4, <2>5, <2>6 DEF Kinds
<1>2. T \in SUBSET Nat
    OBVIOUS
<1>3. \A n \in Nat : n \in T
    <2> HIDE DEF T
    <2> QED
        BY <1>1, <1>2, StrongInduction
<1>4. ASSUME NEW s \in Seq(Task), NEW u \in Seq(C), NEW reply, s # <<>>
      PROVE  Fate(s, reply, u, C)
    <2>1. Len(u) \in T
        BY <1>3
    <2> QED
        BY <1>4, <2>1
<1> QED
    BY <1>4

-----------------------------------------------------------------------------
(* The loop of redisReaderGetReply *)

Chain(h, n, st) == h[0] = st /\ \A i \in 1 .. n : h[i] = OneMore(h[i - 1])

LEMMA ChainExists ==
    ASSUME NEW st
    PROVE  \A n \in Nat : \E h : Chain(h, n, st)
<1> DEFINE T == {n \in Nat : \E h : Chain(h, n, st)}
<1>1. 0 \in T
    <2>1. Chain([i \in 0 .. 0 |-> st], 0, st)
        BY DEF Chain
    <2> QED
        BY <2>1
<1>2. ASSUME NEW n \in T
      PROVE  n + 1 \in T
    <2>1. PICK h : Chain(h, n, st)
        BY <1>2
    <2> DEFINE g == [i \in 0 .. n + 1 |-> IF i = n + 1 THEN OneMore(h[n]) ELSE h[i]]
    <2>2. n \in Nat /\ g[n + 1] = OneMore(h[n]) /\ \A i \in 0 .. n : g[i] = h[i]
        BY <1>2
    <2> HIDE DEF g
    <2>3. g[0] = st
        BY <2>1, <2>2 DEF Chain
    <2>4. ASSUME NEW i \in 1 .. n + 1
          PROVE  g[i] = OneMore(g[i - 1])
        <3>1. CASE i = n + 1
            BY <2>2, <3>1
        <3>2. CASE i # n + 1
            <4>1. i \in 1 .. n /\ i \in 0 .. n /\ i - 1 \in 0 .. n
                BY <2>2, <3>2
            <4> QED
                BY <2>1, <2>2, <4>1 DEF Chain
        <3> QED
            BY <3>1, <3>2
    <2>5. Chain(g, n + 1, st)
        BY <2>3, <2>4 DEF Chain
    <2> QED
        BY <2>2, <2>5
<1>3. \A n \in Nat : n \in T
    <2>1. T \in SUBSET Nat
        OBVIOUS
    <2> HIDE DEF T
    <2> QED
        BY <1>1, <1>2, <2>1, Induction
<1> QED
    BY <1>3

(* The sets of Items have one state each. *)
LEMMA ItemsAre ==
    ASSUME NEW C, NEW r, r.buf \in Seq(C)
    PROVE  \E h : /\ Chain(h, Len(r.buf) + 1, Processed(r))
                  /\ ProcessItems(r) = h[Len(r.buf) + 1].reader
<1> DEFINE n == Len(r.buf) + 1
           Def(g) == [i \in 0 .. n |->
                         IF i = 0 THEN {Processed(r)} ELSE {OneMore(st) : st \in g[i - 1]}]
           f == CHOOSE g : g = Def(g)
<1>1. n \in Nat /\ Items(r) = f
    BY DEF Items
<1> HIDE DEF n
<1>2. PICK h : Chain(h, n, Processed(r))
    BY <1>1, ChainExists
<1> DEFINE one == [i \in 0 .. n |-> {h[i]}]
<1>3. one = Def(one)
    <2>1. ASSUME NEW i \in 0 .. n
          PROVE  one[i] = IF i = 0 THEN {Processed(r)} ELSE {OneMore(st) : st \in one[i - 1]}
        <3>1. CASE i = 0
            BY <1>2, <3>1 DEF Chain
        <3>2. CASE i # 0
            <4>1. i \in 1 .. n /\ i - 1 \in 0 .. n
                BY <1>1, <3>2
            <4>2. one[i] = {h[i]} /\ one[i - 1] = {h[i - 1]} /\ h[i] = OneMore(h[i - 1])
                BY <1>2, <4>1 DEF Chain
            <4> HIDE DEF one
            <4>3. {OneMore(st) : st \in one[i - 1]} = {OneMore(h[i - 1])}
                BY <4>2
            <4> QED
                BY <3>2, <4>2, <4>3
        <3> QED
            BY <3>1, <3>2
    <2> QED
        BY <2>1, Zenon
<1>4. f = Def(f)
    <2> HIDE DEF Def, one
    <2> QED
        BY <1>3
<1> HIDE DEF f
<1>5. \A i \in 0 .. n :
          f[i] = IF i = 0 THEN {Processed(r)} ELSE {OneMore(st) : st \in f[i - 1]}
    BY <1>4
<1> DEFINE T == {i \in Nat : i <= n => f[i] = {h[i]}}
<1>6. 0 \in T
    <2>1. 0 \in 0 .. n
        BY <1>1
    <2>2. f[0] = {Processed(r)}
        BY <1>5, <2>1
    <2> QED
        BY <1>2, <2>2 DEF Chain
<1>7. ASSUME NEW i \in T
      PROVE  i + 1 \in T
    <2>1. SUFFICES ASSUME i + 1 <= n
                   PROVE  f[i + 1] = {h[i + 1]}
        OBVIOUS
    <2>2. i + 1 \in 0 .. n /\ i + 1 \in 1 .. n /\ i + 1 # 0 /\ (i + 1) - 1 = i /\ f[i] = {h[i]}
        BY <1>1, <1>7, <2>1
    <2>3. h[i + 1] = OneMore(h[i])
        BY <1>2, <2>2 DEF Chain
    <2>4. f[i + 1] = {OneMore(st) : st \in f[i]}
        BY <1>5, <2>2
    <2>5. {OneMore(st) : st \in f[i]} = {OneMore(h[i])}
        BY <2>2
    <2> QED
        BY <2>3, <2>4, <2>5
<1>8. \A i \in Nat : i \in T
    <2>1. T \in SUBSET Nat
        OBVIOUS
    <2> HIDE DEF T
    <2> QED
        BY <1>6, <1>7, <2>1, Induction
<1>9. Items(r)[n] = {h[n]}
    BY <1>1, <1>8
<1>10. (CHOOSE st \in Items(r)[n] : TRUE) = h[n]
    <2>1. (CHOOSE st \in {h[n]} : TRUE) \in {h[n]}
        OBVIOUS
    <2> QED
        BY <1>9, <2>1
<1> QED
    BY <1>2, <1>10 DEF ProcessItems, n

LEMMA OneMoreView ==
    ASSUME NEW C, NEW st, Sound(st, C)
    PROVE  View(OneMore(st)) = More(View(st)) /\ Sound(OneMore(st), C)
<1>1. CASE \E e \in {"protocol", "oom"} : st = Failed(NewReader, e)
    <2>1. ~st.ok
        BY <1>1 DEF Failed
    <2>2. OneMore(st) = st /\ AtRest(View(st))
        BY <2>1 DEF OneMore, AtRest, View
    <2> QED
        BY <2>2 DEF More
<1>2. CASE st.ok \in BOOLEAN /\ st = [ok |-> st.ok, reader |-> st.reader] /\ Ready(st.reader, C)
    <2>1. CASE st.ok /\ st.reader.rstack # <<>>
        <3>1. OneMore(st) = processItem(st.reader)
            BY <2>1 DEF OneMore
        <3>2. /\ View(processItem(st.reader))
                   = Item(st.reader.rstack, st.reader.reply, Unread(st.reader))
              /\ Sound(processItem(st.reader), C)
            BY <1>2, <2>1, ItemIs
        <3>3. More(View(st)) = Item(st.reader.rstack, st.reader.reply, Unread(st.reader))
            BY <2>1 DEF More, AtRest, View
        <3> QED
            BY <3>1, <3>2, <3>3
    <2>2. CASE ~(st.ok /\ st.reader.rstack # <<>>)
        <3>1. OneMore(st) = st
            BY <2>2 DEF OneMore
        <3>2. AtRest(View(st))
            BY <2>2 DEF AtRest, View
        <3> QED
            BY <3>1, <3>2 DEF More
    <2> QED
        BY <2>1, <2>2
<1> QED
    BY <1>1, <1>2 DEF Sound

(* An item takes a byte at least, or the loop ends. *)
LEMMA MoreLess ==
    ASSUME NEW C, NEW st, Sound(st, C), ~AtRest(View(st))
    PROVE  \/ AtRest(More(View(st)))
           \/ /\ Len(View(st).u) \in Nat /\ Len(More(View(st)).u) \in Nat
              /\ Len(More(View(st)).u) < Len(View(st).u)
<1>1. st.ok /\ st.reader.rstack # <<>>
    BY DEF AtRest, View
<1>2. Ready(st.reader, C)
    BY <1>1 DEF Sound, Failed
<1>3. PICK s \in Seq(Task), u \in Seq(C) : s = st.reader.rstack /\ u = Unread(st.reader)
    <2>1. st.reader.buf \in Seq(C) /\ st.reader.pos \in 0 .. Len(st.reader.buf)
        BY <1>2 DEF Ready
    <2>2. Unread(st.reader) \in Seq(C)
        BY <2>1, DropFacts DEF Unread, Past
    <2> QED
        BY <1>2, <2>2 DEF Ready
<1>r. PICK reply : reply = st.reader.reply
    OBVIOUS
<1>4. View(st).u = u /\ More(View(st)) = Item(s, reply, u) /\ s # <<>>
    BY <1>1, <1>3, <1>r DEF More, AtRest, View
<1>5. Kinds(Item(s, reply, u), s, reply, u, C)
    BY <1>4, ItemKinds
<1>6. CASE FailsFor(Item(s, reply, u), s, reply, u, C)
    BY <1>4, <1>6 DEF FailsFor, AtRest, Dead
<1>7. CASE WaitsFor(Item(s, reply, u), s, reply, u, C)
    BY <1>4, <1>7 DEF WaitsFor, AtRest, Rests
<1>8. CASE GoesOn(Item(s, reply, u), s, reply, u, C)
    <2>1. PICK s2 \in Seq(Task), u2 \in Seq(C) : \E reply2 :
             Len(u2) < Len(u) /\ Item(s, reply, u) = Go(s2, reply2, u2)
        BY <1>8 DEF GoesOn
    <2>2. Item(s, reply, u).u = u2
        BY <2>1 DEF Go
    <2> QED
        BY <1>4, <2>1, <2>2
<1> QED
    BY <1>5, <1>6, <1>7, <1>8 DEF Kinds

(* The loop ends within the buffer, as Stops says. *)
LEMMA LoopEnds ==
    ASSUME NEW C, NEW r, Ready(r, C)
    PROVE  \E st : /\ Sound(st, C) /\ ProcessItems(r) = st.reader
                   /\ Stops(View(Processed(r)), View(st))
<1> DEFINE n == Len(r.buf) + 1
<1>1. n \in Nat /\ r.buf \in Seq(C) /\ Len(r.buf) \in Nat
    BY DEF Ready
<1>2. PICK h : Chain(h, n, Processed(r)) /\ ProcessItems(r) = h[n].reader
    BY <1>1, ItemsAre
<1>3. Sound(h[0], C) /\ Len(View(h[0]).u) \in Nat /\ Len(View(h[0]).u) <= Len(r.buf)
    <2>1. h[0] = Processed(r)
        BY <1>2 DEF Chain
    <2>2. Sound(Processed(r), C)
        BY DEF Sound, Processed
    <2>3. View(Processed(r)).u = Past(r.buf, r.pos)
        BY DEF View, Processed, Unread, Past
    <2>4. r.pos \in 0 .. Len(r.buf)
        BY DEF Ready
    <2>5. Past(r.buf, r.pos) \in Seq(C) /\ Len(Past(r.buf, r.pos)) = Len(r.buf) - r.pos
        BY <1>1, <2>4, DropFacts
    <2> QED
        BY <1>1, <2>1, <2>2, <2>3, <2>4, <2>5
<1> HIDE DEF n
<1> DEFINE T == {i \in Nat : i <= n =>
                    /\ Sound(h[i], C)
                    /\ \/ AtRest(View(h[i]))
                       \/ Len(View(h[i]).u) \in Nat /\ Len(View(h[i]).u) + i <= Len(r.buf)}
<1>4. 0 \in T
    BY <1>1, <1>3
<1>5. ASSUME NEW i \in T
      PROVE  i + 1 \in T
    <2>1. SUFFICES ASSUME i + 1 <= n
                   PROVE  /\ Sound(h[i + 1], C)
                          /\ \/ AtRest(View(h[i + 1]))
                             \/ /\ Len(View(h[i + 1]).u) \in Nat
                                /\ Len(View(h[i + 1]).u) + (i + 1) <= Len(r.buf)
        <3>1. i + 1 \in Nat
            BY <1>5
        <3> QED
            BY <3>1
    <2>2. /\ i \in Nat /\ i + 1 \in 1 .. n /\ (i + 1) - 1 = i /\ Sound(h[i], C)
          /\ \/ AtRest(View(h[i]))
             \/ Len(View(h[i]).u) \in Nat /\ Len(View(h[i]).u) + i <= Len(r.buf)
        BY <1>1, <1>5, <2>1
    <2>3. h[i + 1] = OneMore(h[i])
        BY <1>2, <2>2 DEF Chain
    <2>4. View(h[i + 1]) = More(View(h[i])) /\ Sound(h[i + 1], C)
        BY <2>2, <2>3, OneMoreView
    <2>5. CASE AtRest(View(h[i]))
        BY <2>4, <2>5 DEF More
    <2>6. CASE ~AtRest(View(h[i]))
        <3>1. \/ AtRest(More(View(h[i])))
              \/ /\ Len(View(h[i]).u) \in Nat /\ Len(More(View(h[i])).u) \in Nat
                 /\ Len(More(View(h[i])).u) < Len(View(h[i]).u)
            BY <2>2, <2>6, MoreLess
        <3> QED
            <4>1. CASE AtRest(More(View(h[i])))
                BY <2>4, <4>1
            <4>2. PICK a, b : a = Len(View(h[i]).u) /\ b = Len(More(View(h[i])).u)
                OBVIOUS
            <4>3. CASE a \in Nat /\ b \in Nat /\ b < a
                <5>1. a + i <= Len(r.buf)
                    BY <2>2, <2>6, <4>2
                <5>2. b + (i + 1) <= Len(r.buf)
                    BY <1>1, <2>2, <4>3, <5>1
                <5> QED
                    BY <2>4, <4>2, <4>3, <5>2
            <4> QED
                BY <3>1, <4>1, <4>2, <4>3
    <2> QED
        BY <2>5, <2>6
<1>6. \A i \in Nat : i \in T
    <2>1. T \in SUBSET Nat
        OBVIOUS
    <2> HIDE DEF T
    <2> QED
        BY <1>4, <1>5, <2>1, Induction
<1>7. Sound(h[n], C) /\ AtRest(View(h[n]))
    <2>1. n \in T
        BY <1>1, <1>6
    <2> QED
        BY <1>1, <2>1 DEF n
<1> DEFINE g == [i \in 0 .. n |-> View(h[i])]
<1>8. Leads(g, n, View(Processed(r)))
    <2>0. \A i \in 0 .. n : g[i] = View(h[i])
        OBVIOUS
    <2> HIDE DEF g
    <2>1. g[0] = View(Processed(r))
        BY <1>1, <1>2, <2>0 DEF Chain
    <2>2. ASSUME NEW i \in 1 .. n
          PROVE  g[i] = More(g[i - 1])
        <3>1. i \in 0 .. n /\ i - 1 \in 0 .. n /\ i - 1 \in T
            BY <1>1, <1>6
        <3>2. Sound(h[i - 1], C)
            BY <3>1
        <3>3. h[i] = OneMore(h[i - 1])
            BY <1>2 DEF Chain
        <3>4. View(h[i]) = More(View(h[i - 1]))
            BY <3>2, <3>3, OneMoreView
        <3> QED
            BY <2>0, <3>1, <3>4
    <2> QED
        BY <2>1, <2>2 DEF Leads
<1>9. g[n] = View(h[n])
    BY <1>1
<1> HIDE DEF g
<1>10. Stops(View(Processed(r)), View(h[n]))
    BY <1>1, <1>7, <1>8, <1>9 DEF Stops
<1> QED
    BY <1>2, <1>7, <1>10

-----------------------------------------------------------------------------
(* A reader that is fed in pieces *)

LEMMA EndsOfSame ==
    ASSUME NEW x, NEW y, NEW z, Same(x, y), AtRest(y), Stops(x, z)
    PROVE  z = y
BY EndsAtRest DEF Same

(* Where the loop ended, and where it ends when there is more to read.     *)
EndFails(s, reply, u, y, C) ==
    \E e \in {"protocol", "oom"} :
        y = Dead(e) /\ \A w \in Seq(C) : Same(Go(s, reply, u \o w), Dead(e))
EndWhole(s, reply, u, y, C) ==
    \E u2 \in Seq(C) : \E reply2 :
        /\ reply2 # <<>> /\ y = Go(<<>>, reply2, u2)
        /\ \A w \in Seq(C) : Same(Go(s, reply, u \o w), Go(<<>>, reply2, u2 \o w))
EndWaits(s, reply, u, y, C) ==
    \E s2 \in Seq(Task), u2 \in Seq(C) : \E reply2 :
        /\ s2 # <<>> /\ y = Rests(s2, reply2, u2) /\ Item(s2, reply2, u2) = y
        /\ \A w \in Seq(C) : Same(Go(s, reply, u \o w), Go(s2, reply2, u2 \o w))

LEMMA Feeding ==
    ASSUME NEW C, NEW s \in Seq(Task), s # <<>>, NEW reply, NEW u \in Seq(C),
           NEW y, Stops(Go(s, reply, u), y)
    PROVE  EndFails(s, reply, u, y, C) \/ EndWhole(s, reply, u, y, C) \/ EndWaits(s, reply, u, y, C)
<1>0. <<>> \in Seq(C) /\ \A v \in Seq(C) : v \o <<>> = v
    OBVIOUS
<1>1. Fate(s, reply, u, C)
    BY Fates
<1>2. CASE FateFails(s, reply, u, C)
    <2>1. PICK e \in {"protocol", "oom"} : \A w \in Seq(C) : Same(Go(s, reply, u \o w), Dead(e))
        BY <1>2 DEF FateFails
    <2>2. Same(Go(s, reply, u), Dead(e))
        BY <1>0, <2>1
    <2>3. AtRest(Dead(e))
        BY DEF AtRest, Dead
    <2>4. y = Dead(e)
        BY <2>2, <2>3, EndsOfSame
    <2> QED
        BY <2>1, <2>4 DEF EndFails
<1>3. CASE FateWhole(s, reply, u, C)
    <2>1. PICK u2 \in Seq(C) : \E reply2 : reply2 # <<>> /\ \A w \in Seq(C) :
             Same(Go(s, reply, u \o w), Go(<<>>, reply2, u2 \o w))
        BY <1>3 DEF FateWhole
    <2>2. PICK reply2 : reply2 # <<>> /\ \A w \in Seq(C) :
             Same(Go(s, reply, u \o w), Go(<<>>, reply2, u2 \o w))
        BY <2>1
    <2>3. Same(Go(s, reply, u), Go(<<>>, reply2, u2))
        BY <1>0, <2>2
    <2>4. AtRest(Go(<<>>, reply2, u2))
        BY DEF AtRest, Go
    <2>5. y = Go(<<>>, reply2, u2)
        BY <2>3, <2>4, EndsOfSame
    <2> QED
        BY <2>2, <2>5 DEF EndWhole
<1>4. CASE FateWaits(s, reply, u, C)
    <2>1. PICK s2 \in Seq(Task), u2 \in Seq(C) : \E reply2 :
             /\ s2 # <<>> /\ Item(s2, reply2, u2) = Rests(s2, reply2, u2)
             /\ \A w \in Seq(C) : Same(Go(s, reply, u \o w), Go(s2, reply2, u2 \o w))
        BY <1>4 DEF FateWaits
    <2>2. PICK reply2 :
             /\ s2 # <<>> /\ Item(s2, reply2, u2) = Rests(s2, reply2, u2)
             /\ \A w \in Seq(C) : Same(Go(s, reply, u \o w), Go(s2, reply2, u2 \o w))
        BY <2>1
    <2>3. Same(Go(s, reply, u), Go(s2, reply2, u2))
        BY <1>0, <2>2
    <2>4. Same(Go(s2, reply2, u2), Rests(s2, reply2, u2))
        BY <2>2, GoMore
    <2>5. Same(Go(s, reply, u), Rests(s2, reply2, u2))
        BY <2>3, <2>4, SameTrans
    <2>6. AtRest(Rests(s2, reply2, u2))
        BY DEF AtRest, Rests
    <2>7. y = Rests(s2, reply2, u2)
        BY <2>5, <2>6, EndsOfSame
    <2> QED
        BY <2>2, <2>7 DEF EndWaits
<1> QED
    BY <1>1, <1>2, <1>3, <1>4 DEF Fate

LEMMA EndsOnce ==
    ASSUME NEW C, NEW s \in Seq(Task), s # <<>>, NEW reply, NEW u \in Seq(C),
           NEW y, Stops(Go(s, reply, u), y), NEW z, Stops(Go(s, reply, u), z)
    PROVE  y = z
<1>0. <<>> \in Seq(C) /\ \A v \in Seq(C) : v \o <<>> = v
    OBVIOUS
<1>1. EndFails(s, reply, u, y, C) \/ EndWhole(s, reply, u, y, C) \/ EndWaits(s, reply, u, y, C)
    BY Feeding
<1>2. AtRest(y)
    BY DEF Stops
<1>3. CASE EndFails(s, reply, u, y, C)
    <2>1. Same(Go(s, reply, u), y)
        BY <1>0, <1>3 DEF EndFails
    <2> QED
        BY <1>2, <2>1, EndsOfSame
<1>4. CASE EndWhole(s, reply, u, y, C)
    <2>1. Same(Go(s, reply, u), y)
        BY <1>0, <1>4 DEF EndWhole
    <2> QED
        BY <1>2, <2>1, EndsOfSame
<1>5. CASE EndWaits(s, reply, u, y, C)
    <2>1. PICK s2 \in Seq(Task), u2 \in Seq(C) : \E reply2 :
             /\ s2 # <<>> /\ Item(s2, reply2, u2) = y
             /\ \A w \in Seq(C) : Same(Go(s, reply, u \o w), Go(s2, reply2, u2 \o w))
        BY <1>5 DEF EndWaits
    <2>2. PICK reply2 :
             /\ s2 # <<>> /\ Item(s2, reply2, u2) = y
             /\ \A w \in Seq(C) : Same(Go(s, reply, u \o w), Go(s2, reply2, u2 \o w))
        BY <2>1
    <2>3. Same(Go(s, reply, u), Go(s2, reply2, u2))
        BY <1>0, <2>2
    <2>4. Same(Go(s2, reply2, u2), y)
        BY <2>2, GoMore
    <2>5. Same(Go(s, reply, u), y)
        BY <2>3, <2>4, SameTrans
    <2> QED
        BY <1>2, <2>5, EndsOfSame
<1> QED
    BY <1>1, <1>3, <1>4, <1>5

-----------------------------------------------------------------------------
(* redisReaderGetReply *)

(* What the loop of the next call begins with. *)
Started(r) == Go(IF r.rstack = <<>> THEN <<RootTask>> ELSE r.rstack, r.reply, Unread(r))

(* A reader as the functions of read.c leave it: what it could process it  *)
(* has, once its buffer is empty.                                          *)
IsReader(r, C) ==
    \/ \E e \in {"protocol", "oom"} : r = SetError(NewReader, e)
    \/ /\ Ready(r, C)
       /\ r.buf = <<>> /\ r.rstack # <<>>
              => Item(r.rstack, r.reply, <<>>) = Rests(r.rstack, r.reply, <<>>)

(* One field of a reader is replaced. *)
LEMMA RdBuf ==
    ASSUME NEW a, NEW b, NEW c, NEW d, NEW x
    PROVE  [Rd(a, b, c, d) EXCEPT !.buf = x] = Rd(x, b, c, d)
BY DEF Rd

LEMMA RdPos ==
    ASSUME NEW a, NEW b, NEW c, NEW d, NEW x
    PROVE  [Rd(a, b, c, d) EXCEPT !.pos = x] = Rd(a, x, c, d)
BY DEF Rd

LEMMA RdStack ==
    ASSUME NEW a, NEW b, NEW c, NEW d, NEW x
    PROVE  [Rd(a, b, c, d) EXCEPT !.rstack = x] = Rd(a, b, x, d)
BY DEF Rd

LEMMA RdReply ==
    ASSUME NEW a, NEW b, NEW c, NEW d, NEW x
    PROVE  [Rd(a, b, c, d) EXCEPT !.reply = x] = Rd(a, b, c, x)
BY DEF Rd

LEMMA NewReaderFacts ==
    ASSUME NEW C
    PROVE  IsReader(NewReader, C) /\ NewReader.err = "none"
           /\ Started(NewReader) = Go(<<RootTask>>, NoReply, <<>>)
<1>1. SubSeq(<<>>, 0 + 1, Len(<<>>)) = <<>> /\ Len(<<>>) = 0 /\ <<>> \in Seq(C) /\ <<>> \in Seq(Task)
    OBVIOUS
<1>2. 0 \in 0 .. 0
    OBVIOUS
<1> QED
    <2>1. /\ NewReader.err = "none" /\ NewReader.buf = <<>> /\ NewReader.pos = 0
          /\ NewReader.rstack = <<>> /\ NewReader.reply = <<>>
        BY DEF NewReader
    <2>2. Ready(NewReader, C)
        BY <1>1, <1>2, <2>1 DEF Ready, Rd, NewReader
    <2>3. Unread(NewReader) = <<>>
        BY <1>1, <2>1 DEF Unread
    <2> QED
        BY <2>1, <2>2, <2>3 DEF IsReader, Started, NoReply

LEMMA RootFacts == <<RootTask>> \in Seq(Task) /\ <<RootTask>> # <<>>
<1>1. RootTask \in Task
    BY DEF RootTask, Task, Unknown
<1> QED
    BY <1>1

LEMMA StartedFacts ==
    ASSUME NEW C, NEW r, IsReader(r, C), r.err = "none"
    PROVE  /\ Ready(r, C)
           /\ \E s \in Seq(Task), u \in Seq(C) :
                 s # <<>> /\ u = Unread(r) /\ Started(r) = Go(s, r.reply, u)
<1>1. Ready(r, C)
    BY DEF IsReader, SetError, NewReader
<1>2. r.buf \in Seq(C) /\ r.pos \in 0 .. Len(r.buf) /\ r.rstack \in Seq(Task)
    BY <1>1 DEF Ready
<1>3. Unread(r) \in Seq(C)
    BY <1>2, DropFacts DEF Unread, Past
<1> QED
    BY <1>1, <1>2, <1>3, RootFacts DEF Started

(* Bytes that are fed come after those that are unread. *)
LEMMA FedFacts ==
    ASSUME NEW C, NEW r, IsReader(r, C), r.err = "none", NEW w \in Seq(C), w # <<>>
    PROVE  /\ IsReader(redisReaderFeed(r, w), C) /\ redisReaderFeed(r, w).err = "none"
           /\ \A s, reply, u : Started(r) = Go(s, reply, u)
                 => Started(redisReaderFeed(r, w)) = Go(s, reply, u \o w)
<1> DEFINE q == [r EXCEPT !.buf = @ \o w]
<1>1. redisReaderFeed(r, w) = q
    BY DEF redisReaderFeed
<1>2. Ready(r, C)
    BY StartedFacts
<1>3. PICK buf \in Seq(C), pos \in Nat : buf = r.buf /\ pos = r.pos /\ pos \in 0 .. Len(buf)
    BY <1>2 DEF Ready
<1>4. r = Rd(buf, pos, r.rstack, r.reply)
    BY <1>2, <1>3 DEF Ready
<1>5. q = Rd(buf \o w, pos, r.rstack, r.reply)
    <2>1. PICK x : x = buf \o w
        OBVIOUS
    <2>2. [Rd(buf, pos, r.rstack, r.reply) EXCEPT !.buf = x] = Rd(x, pos, r.rstack, r.reply)
        BY RdBuf
    <2> QED
        BY <1>3, <1>4, <2>1, <2>2
<1> HIDE DEF q
<1>6. /\ q.err = "none" /\ q.buf = buf \o w /\ q.pos = pos /\ q.rstack = r.rstack
      /\ q.reply = r.reply
    BY <1>5 DEF Rd
<1>7. buf \o w \in Seq(C) /\ Len(buf \o w) = Len(buf) + Len(w) /\ Len(w) > 0 /\ Len(<<>>) = 0
      /\ Len(buf) \in Nat /\ Len(w) \in Nat
    BY Len(<<>>) = 0
<1>8. Ready(q, C)
    <2>1. pos \in 0 .. Len(buf \o w)
        BY <1>3, <1>7
    <2>2. r.rstack \in Seq(Task)
        BY <1>2 DEF Ready
    <2> QED
        BY <1>5, <1>6, <1>7, <2>1, <2>2 DEF Ready
<1>9. q.buf # <<>>
    BY <1>6, <1>7
<1>10. IsReader(q, C)
    BY <1>8, <1>9 DEF IsReader
<1>11. Unread(q) = Unread(r) \o w
    BY <1>3, <1>6, DropMore DEF Unread, Past
<1>12. ASSUME NEW s, NEW reply, NEW u, Started(r) = Go(s, reply, u)
       PROVE  Started(q) = Go(s, reply, u \o w)
    <2>1. Unread(r) = u /\ r.reply = reply /\ s = IF r.rstack = <<>> THEN <<RootTask>> ELSE r.rstack
        BY <1>12 DEF Started, Go
    <2> QED
        BY <1>6, <1>11, <2>1 DEF Started
<1> QED
    BY <1>1, <1>6, <1>10, <1>12

(* What a call returns, and where it leaves the reader. *)
AnswerFails(r, g, C) ==
    \E e \in {"protocol", "oom"} :
        /\ g = Result(FALSE, NoReply, SetError(NewReader, e))
        /\ Stops(Started(r), Dead(e))
AnswerWhole(r, g, C) ==
    \E u2 \in Seq(C) : \E reply2 :
        /\ reply2 # NoReply /\ g.ok /\ g.reply = reply2
        /\ IsReader(g.reader, C) /\ g.reader.err = "none"
        /\ Started(g.reader) = Go(<<RootTask>>, NoReply, u2)
        /\ Stops(Started(r), Go(<<>>, reply2, u2))
AnswerNone(r, g, C) ==
    \E s2 \in Seq(Task), u2 \in Seq(C) : \E reply2 :
        /\ s2 # <<>> /\ g.ok /\ g.reply = NoReply
        /\ IsReader(g.reader, C) /\ g.reader.err = "none"
        /\ Started(g.reader) = Go(s2, reply2, u2)
        /\ Item(s2, reply2, u2) = Rests(s2, reply2, u2)
        /\ Stops(Started(r), Rests(s2, reply2, u2))

LEMMA ShortenedFacts ==
    ASSUME NEW C, NEW r, Ready(r, C)
    PROVE  /\ Ready(Shortened(r), C) /\ Unread(Shortened(r)) = Unread(r)
           /\ Shortened(r).rstack = r.rstack /\ Shortened(r).reply = r.reply
           /\ Shortened(r).err = "none"
           /\ Shortened(r).buf = <<>> => Unread(r) = <<>>
<1>1. PICK buf \in Seq(C), pos \in Nat, s \in Seq(Task) :
          /\ buf = r.buf /\ pos = r.pos /\ s = r.rstack /\ pos \in 0 .. Len(buf)
          /\ r = Rd(buf, pos, s, r.reply) /\ Len(buf) \in Nat
    BY DEF Ready
<1>2. PICK reply : reply = r.reply
    OBVIOUS
<1>3. PICK v \in Seq(C) : v = Unread(r) /\ v = Past(buf, pos) /\ Len(v) = Len(buf) - pos
    BY <1>1, DropFacts DEF Unread, Past
<1>4. CASE r.pos >= Discard
    <2>1. Shortened(r) = Rd(v, 0, s, reply)
        <3>1. [Rd(buf, pos, s, reply) EXCEPT !.buf = v] = Rd(v, pos, s, reply)
            BY RdBuf
        <3>2. [Rd(v, pos, s, reply) EXCEPT !.pos = 0] = Rd(v, 0, s, reply)
            BY RdPos
        <3>3. [[r EXCEPT !.buf = v] EXCEPT !.pos = 0] = Rd(v, 0, s, reply)
            BY <1>1, <1>2, <3>1, <3>2
        <3>4. Shortened(r) = [r EXCEPT !.buf = v, !.pos = 0]
            BY <1>3, <1>4 DEF Shortened
        <3> QED
            BY <3>3, <3>4
    <2>2. Unread(Rd(v, 0, s, reply)) = v
        <3>1. SubSeq(v, 0 + 1, Len(v)) = v
            OBVIOUS
        <3> QED
            BY <3>1 DEF Unread, Rd
    <2>3. Ready(Rd(v, 0, s, reply), C)
        BY 0 \in 0 .. Len(v) DEF Ready, Rd
    <2> QED
        BY <1>1, <1>2, <1>3, <2>1, <2>2, <2>3 DEF Rd
<1>5. CASE ~(r.pos >= Discard)
    <2>1. Shortened(r) = r
        BY <1>5 DEF Shortened
    <2>2. r.err = "none"
        BY <1>1 DEF Rd
    <2>3. buf = <<>> => v = <<>>
        <3>1. ASSUME buf = <<>> PROVE Len(v) = 0
            BY <1>1, <1>3, <3>1, Len(<<>>) = 0
        <3> QED
            BY <3>1
    <2> QED
        BY <1>1, <1>3, <2>1, <2>2, <2>3
<1> QED
    BY <1>4, <1>5

LEMMA GetReplyIs ==
    ASSUME NEW C, NEW r, IsReader(r, C), r.err = "none",
           NEW g, g = redisReaderGetReply(r)
    PROVE  AnswerFails(r, g, C) \/ AnswerWhole(r, g, C) \/ AnswerNone(r, g, C)
<1>1. Ready(r, C)
    BY StartedFacts
<1>2. PICK s \in Seq(Task), u \in Seq(C) :
          s # <<>> /\ u = Unread(r) /\ Started(r) = Go(s, r.reply, u)
    BY StartedFacts
<1>3. PICK reply : reply = r.reply
    OBVIOUS
<1>4. s = IF r.rstack = <<>> THEN <<RootTask>> ELSE r.rstack
    BY <1>2 DEF Started, Go
<1>5. CASE r.buf = <<>>
    <2>1. g = Result(TRUE, NoReply, r)
        BY <1>5 DEF redisReaderGetReply
    <2>2. u = <<>>
        <3>1. Len(r.buf) = 0
            BY <1>5
        <3>2. r.pos = 0
            BY <1>1, <3>1 DEF Ready
        <3>3. SubSeq(<<>>, 0 + 1, 0) = <<>>
            OBVIOUS
        <3> QED
            BY <1>2, <1>5, <3>1, <3>2, <3>3 DEF Unread
    <2>3. Item(s, reply, u) = Rests(s, reply, u)
        <3>1. CASE r.rstack = <<>>
            <4>1. s[Len(s)].type = Unknown
                BY <1>4, <3>1 DEF RootTask
            <4> QED
                BY <2>2, <4>1 DEF Item
        <3>2. CASE r.rstack # <<>>
            <4>1. Item(r.rstack, r.reply, <<>>) = Rests(r.rstack, r.reply, <<>>)
                BY <1>5, <3>2 DEF IsReader, SetError, NewReader
            <4> QED
                BY <1>3, <1>4, <2>2, <3>2, <4>1
        <3> QED
            BY <3>1, <3>2
    <2>4. Stops(Go(s, reply, u), Rests(s, reply, u))
        <3>1. Same(Go(s, reply, u), Rests(s, reply, u))
            BY <1>2, <2>3, GoMore
        <3>2. AtRest(Rests(s, reply, u))
            BY DEF AtRest, Rests
        <3>3. Stops(Rests(s, reply, u), Rests(s, reply, u))
            BY <3>2, EndsAtRest
        <3> QED
            BY <3>1, <3>3 DEF Same
    <2>5. g.ok /\ g.reply = NoReply /\ g.reader = r
        BY <2>1 DEF Result
    <2>6. AnswerNone(r, g, C)
        BY <1>2, <1>3, <2>3, <2>4, <2>5 DEF AnswerNone
    <2> QED
        BY <2>6
<1>6. CASE r.buf # <<>>
    <2> DEFINE q == IF r.rstack = <<>> THEN [r EXCEPT !.rstack = <<RootTask>>] ELSE r
    <2>1. g = Emitted(ProcessItems(q))
        BY <1>6 DEF redisReaderGetReply
    <2>2. q = Rd(r.buf, r.pos, s, reply)
        <3>1. r = Rd(r.buf, r.pos, r.rstack, reply)
            BY <1>1, <1>3 DEF Ready
        <3>2. [Rd(r.buf, r.pos, r.rstack, reply) EXCEPT !.rstack = <<RootTask>>]
                = Rd(r.buf, r.pos, <<RootTask>>, reply)
            BY RdStack
        <3> QED
            BY <1>4, <3>1, <3>2
    <2> HIDE DEF q
    <2>3. Ready(q, C)
        BY <1>1, <2>2 DEF Ready, Rd
    <2>4. View(Processed(q)) = Started(r)
        <3>1. q.err = "none" /\ q.buf = r.buf /\ q.pos = r.pos /\ q.rstack = s /\ q.reply = reply
            BY <2>2 DEF Rd
        <3> QED
            BY <1>2, <1>3, <3>1 DEF View, Processed, Go, Unread
    <2>5. PICK st : /\ Sound(st, C) /\ ProcessItems(q) = st.reader
                    /\ Stops(View(Processed(q)), View(st))
        BY <2>3, LoopEnds
    <2>6. PICK y : y = View(st) /\ Stops(Started(r), y) /\ Stops(Go(s, reply, u), y)
        BY <1>2, <1>3, <2>4, <2>5
    <2>7. y.ok = st.ok /\ y.err = st.reader.err /\ y.s = st.reader.rstack /\ y.reply = st.reader.reply
          /\ y.u = Unread(st.reader)
        BY <2>6 DEF View
    <2>8. \/ EndFails(s, reply, u, y, C) \/ EndWhole(s, reply, u, y, C)
          \/ EndWaits(s, reply, u, y, C)
        BY <1>2, <2>6, Feeding
    <2>9. ASSUME NEW e \in {"protocol", "oom"}, st = Failed(NewReader, e)
          PROVE  AnswerFails(r, g, C)
        <3>1. st.reader = SetError(NewReader, e) /\ st.reader.err = e
            BY <2>9 DEF Failed, SetError, NewReader
        <3>2. g = Result(FALSE, NoReply, SetError(NewReader, e))
            BY <2>1, <2>5, <3>1 DEF Emitted
        <3>3. y = Dead(e)
            BY <2>6, <2>9, FailedView
        <3> QED
            BY <2>6, <3>2, <3>3 DEF AnswerFails
    <2>10. CASE Ready(st.reader, C)
        <3> DEFINE z == st.reader
        <3>1. z.err = "none"
            BY <2>10 DEF Ready, Rd
        <3>2. /\ Ready(Shortened(z), C) /\ Unread(Shortened(z)) = Unread(z)
              /\ Shortened(z).rstack = z.rstack /\ Shortened(z).reply = z.reply
              /\ Shortened(z).err = "none"
              /\ Shortened(z).buf = <<>> => Unread(z) = <<>>
            BY <2>10, ShortenedFacts
        <3>3. g = IF z.rstack = <<>>
                  THEN Result(TRUE, z.reply, [Shortened(z) EXCEPT !.reply = NoReply])
                  ELSE Result(TRUE, NoReply, Shortened(z))
            BY <2>1, <2>5, <3>1 DEF Emitted
        <3> HIDE DEF z
        <3>4. ~EndFails(s, reply, u, y, C)
            BY <2>7, <3>1 DEF EndFails, Dead, z
        <3>5. CASE EndWhole(s, reply, u, y, C)
            <4>1. PICK u2 \in Seq(C) : \E reply2 : reply2 # <<>> /\ y = Go(<<>>, reply2, u2)
                BY <3>5 DEF EndWhole
            <4>2. PICK reply2 : reply2 # <<>> /\ y = Go(<<>>, reply2, u2)
                BY <4>1
            <4>3. z.rstack = <<>> /\ z.reply = reply2 /\ Unread(z) = u2
                BY <2>7, <4>2 DEF Go, z
            <4>4. PICK x : x = [Shortened(z) EXCEPT !.reply = NoReply]
                OBVIOUS
            <4>5. Shortened(z) = Rd(Shortened(z).buf, Shortened(z).pos, Shortened(z).rstack,
                                    Shortened(z).reply)
                BY <3>2 DEF Ready
            <4>6. x = Rd(Shortened(z).buf, Shortened(z).pos, Shortened(z).rstack, NoReply)
                BY <4>4, <4>5, RdReply
            <4>7. /\ x.err = "none" /\ x.buf = Shortened(z).buf /\ x.pos = Shortened(z).pos
                  /\ x.rstack = <<>> /\ x.reply = NoReply
                BY <3>2, <4>3, <4>6 DEF Rd
            <4>8. Ready(x, C)
                <5>1. PICK v : v = Shortened(z)
                    OBVIOUS
                <5>2. v.buf \in Seq(C) /\ v.pos \in 0 .. Len(v.buf) /\ v.rstack = <<>>
                    BY <3>2, <4>3, <5>1 DEF Ready
                <5>3. x = Rd(x.buf, x.pos, x.rstack, x.reply)
                    BY <4>6, <4>7, <5>1, <5>2
                <5>4. x.buf \in Seq(C) /\ x.pos \in 0 .. Len(x.buf) /\ x.rstack \in Seq(Task)
                    BY <4>7, <5>1, <5>2
                <5> QED
                    BY <5>3, <5>4 DEF Ready
            <4>9. IsReader(x, C)
                BY <4>7, <4>8 DEF IsReader
            <4>10. Unread(x) = u2
                BY <3>2, <4>3, <4>7 DEF Unread
            <4>11. Started(x) = Go(<<RootTask>>, NoReply, u2)
                BY <4>7, <4>10 DEF Started
            <4>12. g.ok /\ g.reply = reply2 /\ g.reader = x
                BY <3>3, <4>3, <4>4 DEF Result
            <4>13. AnswerWhole(r, g, C)
                BY <2>6, <4>2, <4>7, <4>9, <4>11, <4>12 DEF AnswerWhole, NoReply
            <4> QED
                BY <4>13
        <3>6. CASE EndWaits(s, reply, u, y, C)
            <4>1. PICK s2 \in Seq(Task), u2 \in Seq(C) : \E reply2 :
                     s2 # <<>> /\ y = Rests(s2, reply2, u2) /\ Item(s2, reply2, u2) = y
                BY <3>6 DEF EndWaits
            <4>2. PICK reply2 : s2 # <<>> /\ y = Rests(s2, reply2, u2) /\ Item(s2, reply2, u2) = y
                BY <4>1
            <4>3. z.rstack = s2 /\ z.reply = reply2 /\ Unread(z) = u2
                BY <2>7, <4>2 DEF Rests, z
            <4>4. PICK x : x = Shortened(z)
                OBVIOUS
            <4>5. /\ Ready(x, C) /\ x.rstack = s2 /\ x.reply = reply2 /\ Unread(x) = u2
                  /\ x.err = "none"
                  /\ x.buf = <<>> => u2 = <<>>
                BY <3>2, <4>3, <4>4
            <4>6. IsReader(x, C)
                BY <4>2, <4>5 DEF IsReader
            <4>7. Started(x) = Go(s2, reply2, u2)
                BY <4>2, <4>5 DEF Started
            <4>8. g.ok /\ g.reply = NoReply /\ g.reader = x
                BY <3>3, <4>2, <4>3, <4>4 DEF Result
            <4>9. AnswerNone(r, g, C)
                BY <2>6, <4>2, <4>5, <4>6, <4>7, <4>8 DEF AnswerNone
            <4> QED
                BY <4>9
        <3> QED
            BY <2>8, <3>4, <3>5, <3>6
    <2> QED
        BY <2>5, <2>9, <2>10 DEF Sound
<1> QED
    BY <1>5, <1>6

(* A reader is left a reader, fed or asked for a reply. *)
LEMMA GetReplyReader ==
    ASSUME NEW C, NEW r, IsReader(r, C)
    PROVE  IsReader(redisReaderGetReply(r).reader, C)
<1> PICK g : g = redisReaderGetReply(r)
    OBVIOUS
<1>1. CASE r.err # "none"
    BY <1>1 DEF redisReaderGetReply, Result
<1>2. CASE r.err = "none"
    <2>1. AnswerFails(r, g, C) \/ AnswerWhole(r, g, C) \/ AnswerNone(r, g, C)
        BY <1>2, GetReplyIs
    <2>2. CASE AnswerFails(r, g, C)
        BY <2>2 DEF AnswerFails, Result, IsReader
    <2>3. CASE AnswerWhole(r, g, C)
        BY <2>3 DEF AnswerWhole
    <2>4. CASE AnswerNone(r, g, C)
        BY <2>4 DEF AnswerNone
    <2> QED
        BY <2>1, <2>2, <2>3, <2>4
<1> QED
    BY <1>1, <1>2

LEMMA FeedReader ==
    ASSUME NEW C, NEW r, IsReader(r, C), NEW w \in Seq(C), w # <<>>
    PROVE  IsReader(redisReaderFeed(r, w), C)
<1>1. CASE r.err # "none"
    BY <1>1 DEF redisReaderFeed
<1>2. CASE r.err = "none"
    BY <1>2, FedFacts
<1> QED
    BY <1>1, <1>2

(* What a call returns is told by where the loop ends. *)
LEMMA EndTells ==
    ASSUME NEW C, NEW r, IsReader(r, C), r.err = "none", NEW g, g = redisReaderGetReply(r),
           NEW y, Stops(Started(r), y)
    PROVE  /\ g.ok <=> y.err = "none"
           /\ g.reply = IF y.ok THEN y.reply ELSE NoReply
           /\ g.reader.err = y.err /\ Unread(g.reader) = y.u
<1>1. PICK s \in Seq(Task), u \in Seq(C) : s # <<>> /\ Started(r) = Go(s, r.reply, u)
    BY StartedFacts
<1>2. \A z : Stops(Started(r), z) => z = y
    BY <1>1, EndsOnce
<1>3. AnswerFails(r, g, C) \/ AnswerWhole(r, g, C) \/ AnswerNone(r, g, C)
    BY GetReplyIs
<1>4. CASE AnswerFails(r, g, C)
    <2>1. PICK e \in {"protocol", "oom"} :
              g = Result(FALSE, NoReply, SetError(NewReader, e)) /\ Stops(Started(r), Dead(e))
        BY <1>4 DEF AnswerFails
    <2>2. y = Dead(e)
        BY <1>2, <2>1
    <2>3. g.reader = SetError(NewReader, e)
        BY <2>1 DEF Result
    <2>4. g.reader.err = e /\ Unread(g.reader) = <<>>
        BY <2>3 DEF SetError, NewReader, Unread
    <2> QED
        BY <2>1, <2>2, <2>4 DEF Dead, Result
<1>5. CASE AnswerWhole(r, g, C)
    <2>1. PICK u2 \in Seq(C) :
              /\ g.ok /\ Stops(Started(r), Go(<<>>, g.reply, u2)) /\ g.reader.err = "none"
              /\ Started(g.reader) = Go(<<RootTask>>, NoReply, u2)
        BY <1>5 DEF AnswerWhole
    <2>2. y = Go(<<>>, g.reply, u2)
        BY <1>2, <2>1
    <2>3. Unread(g.reader) = u2
        BY <2>1 DEF Started, Go
    <2> QED
        BY <2>1, <2>2, <2>3 DEF Go
<1>6. CASE AnswerNone(r, g, C)
    <2>1. PICK s2 \in Seq(Task), u2 \in Seq(C) : \E reply2 :
              /\ g.ok /\ g.reply = NoReply /\ Stops(Started(r), Rests(s2, reply2, u2))
              /\ g.reader.err = "none" /\ Started(g.reader) = Go(s2, reply2, u2)
        BY <1>6 DEF AnswerNone
    <2>2. PICK reply2 :
              /\ g.ok /\ g.reply = NoReply /\ Stops(Started(r), Rests(s2, reply2, u2))
              /\ g.reader.err = "none" /\ Started(g.reader) = Go(s2, reply2, u2)
        BY <2>1
    <2>3. Unread(g.reader) = u2
        BY <2>2 DEF Started, Go
    <2>4. y = Rests(s2, reply2, u2)
        BY <1>2, <2>2
    <2> QED
        BY <2>2, <2>3, <2>4 DEF Rests
<1> QED
    BY <1>3, <1>4, <1>5, <1>6

(* A call of redisReaderGetReply that gave no reply gives none when it is  *)
(* repeated: the reader keeps its error, if it has one, and the bytes it   *)
(* has not read.                                                           *)
THEOREM NoneAgain ==
    ASSUME NEW C, NEW r, IsReader(r, C),
           NEW g, g = redisReaderGetReply(r), g.reply = NoReply,
           NEW k, k = redisReaderGetReply(g.reader)
    PROVE  /\ k.reply = NoReply
           /\ k.reader.err = g.reader.err
           /\ Unread(k.reader) = Unread(g.reader)
<1>0. ASSUME g.reader.err # "none"
      PROVE  k.reply = NoReply /\ k.reader = g.reader
    BY <1>0 DEF redisReaderGetReply, Result
<1>1. CASE r.err # "none"
    <2>1. g.reader = r
        BY <1>1 DEF redisReaderGetReply, Result
    <2> QED
        BY <1>0, <1>1, <2>1
<1>2. CASE r.err = "none"
    <2>1. AnswerFails(r, g, C) \/ AnswerWhole(r, g, C) \/ AnswerNone(r, g, C)
        BY <1>2, GetReplyIs
    <2>2. CASE AnswerFails(r, g, C)
        <3>1. g.reader.err # "none"
            BY <2>2 DEF AnswerFails, Result, SetError, NewReader
        <3> QED
            BY <1>0, <3>1
    <2>3. CASE AnswerWhole(r, g, C)
        BY <2>3 DEF AnswerWhole
    <2>4. CASE AnswerNone(r, g, C)
        <3>1. PICK s2 \in Seq(Task), u2 \in Seq(C) : \E reply2 :
                 /\ s2 # <<>> /\ IsReader(g.reader, C) /\ g.reader.err = "none"
                 /\ Started(g.reader) = Go(s2, reply2, u2)
                 /\ Item(s2, reply2, u2) = Rests(s2, reply2, u2)
            BY <2>4 DEF AnswerNone
        <3>2. PICK reply2 :
                 /\ s2 # <<>> /\ IsReader(g.reader, C) /\ g.reader.err = "none"
                 /\ Started(g.reader) = Go(s2, reply2, u2)
                 /\ Item(s2, reply2, u2) = Rests(s2, reply2, u2)
            BY <3>1
        <3>3. PICK y : y = Rests(s2, reply2, u2)
            OBVIOUS
        <3>4. Stops(Started(g.reader), y)
            <4>1. Same(Go(s2, reply2, u2), y)
                BY <3>2, <3>3, GoMore
            <4>2. AtRest(y)
                BY <3>3 DEF AtRest, Rests
            <4>3. Stops(y, y)
                BY <4>2, EndsAtRest
            <4> QED
                BY <3>2, <4>1, <4>3 DEF Same
        <3>5. /\ k.reply = IF y.ok THEN y.reply ELSE NoReply
              /\ k.reader.err = y.err /\ Unread(k.reader) = y.u
            BY <3>2, <3>4, EndTells
        <3>6. ~y.ok /\ y.err = "none" /\ y.u = u2
            BY <3>3 DEF Rests
        <3>7. Unread(g.reader) = u2
            BY <3>2 DEF Started, Go
        <3> QED
            BY <3>2, <3>5, <3>6, <3>7
    <2> QED
        BY <2>1, <2>2, <2>3, <2>4
<1> QED
    BY <1>1, <1>2

(* However a text is cut in two, between any two of its bytes, the calls   *)
(* of redisReaderGetReply come to the same. An error that the first part   *)
(* gives the whole gives too; so with a reply, after which the whole       *)
(* leaves what the first part left and all of the second; and when the     *)
(* first part gives neither, the second gives what the whole gives at      *)
(* once, and the same bytes are left.                                      *)
THEOREM CutAnywhere ==
    ASSUME NEW C, NEW r, IsReader(r, C), r.err = "none",
           NEW v \in Seq(C), v # <<>>, NEW w \in Seq(C), w # <<>>,
           NEW first, first = redisReaderGetReply(redisReaderFeed(r, v)),
           NEW second, second = redisReaderGetReply(redisReaderFeed(first.reader, w)),
           NEW whole, whole = redisReaderGetReply(redisReaderFeed(r, v \o w))
    PROVE  /\ ~first.ok => ~whole.ok /\ whole.reader.err = first.reader.err
           /\ first.reply # NoReply
                 => /\ whole.ok /\ whole.reply = first.reply
                    /\ Unread(whole.reader) = Unread(first.reader) \o w
           /\ first.ok /\ first.reply = NoReply
                 => /\ (second.ok <=> whole.ok) /\ second.reply = whole.reply
                    /\ second.reader.err = whole.reader.err
                    /\ Unread(second.reader) = Unread(whole.reader)
<1>1. PICK s \in Seq(Task), u \in Seq(C) : s # <<>> /\ Started(r) = Go(s, r.reply, u)
    BY StartedFacts
<1> PICK reply : reply = r.reply
    OBVIOUS
<1>2. PICK a : a = redisReaderFeed(r, v)
    OBVIOUS
<1>3. PICK b : b = redisReaderFeed(r, v \o w)
    OBVIOUS
<1>4. PICK x \in Seq(C) : x = u \o v
    <2>1. u \in Seq(C) /\ u \o v \in Seq(C)
        BY <1>1
    <2> QED
        BY <2>1
<1>5. u \o (v \o w) = x \o w
    <2>1. u \o (v \o w) = (u \o v) \o w
        BY <1>1, ConcatAssociative, SMTT(30)
    <2> QED
        BY <1>4, <2>1
<1>6. PICK vw \in Seq(C) : vw = v \o w /\ vw # <<>>
    <2>1. Len(v \o w) = Len(v) + Len(w) /\ Len(v) \in Nat /\ Len(w) \in Nat
        OBVIOUS
    <2>2. Len(v) # 0 /\ Len(<<>>) = 0
        OBVIOUS
    <2>3. v \o w \in Seq(C) /\ v \o w # <<>>
        BY <2>1, <2>2
    <2> QED
        BY <2>3
<1>7. IsReader(a, C) /\ a.err = "none" /\ Started(a) = Go(s, reply, x)
    <2>1. Started(r) = Go(s, reply, u)
        BY <1>1
    <2> QED
        BY <1>2, <1>4, <2>1, FedFacts
<1>8. IsReader(b, C) /\ b.err = "none" /\ Started(b) = Go(s, reply, x \o w)
    <2>1. Started(r) = Go(s, reply, u)
        BY <1>1
    <2>2. IsReader(b, C) /\ b.err = "none" /\ Started(b) = Go(s, reply, u \o vw)
        <3>1. b = redisReaderFeed(r, vw) /\ vw \in Seq(C) /\ vw # <<>>
            BY <1>3, <1>6
        <3>2. /\ IsReader(redisReaderFeed(r, vw), C) /\ redisReaderFeed(r, vw).err = "none"
              /\ Started(redisReaderFeed(r, vw)) = Go(s, reply, u \o vw)
            BY <2>1, <3>1, FedFacts
        <3> QED
            BY <3>1, <3>2
    <2> QED
        BY <1>5, <1>6, <2>2
<1>9. PICK y : Stops(Started(a), y)
    <2>1. AnswerFails(a, first, C) \/ AnswerWhole(a, first, C) \/ AnswerNone(a, first, C)
        BY <1>2, <1>7, GetReplyIs
    <2> QED
        BY <2>1 DEF AnswerFails, AnswerWhole, AnswerNone
<1>10. PICK z : Stops(Started(b), z)
    <2>1. AnswerFails(b, whole, C) \/ AnswerWhole(b, whole, C) \/ AnswerNone(b, whole, C)
        BY <1>3, <1>8, GetReplyIs
    <2> QED
        BY <2>1 DEF AnswerFails, AnswerWhole, AnswerNone
<1>11. /\ first.ok <=> y.err = "none"
       /\ first.reply = IF y.ok THEN y.reply ELSE NoReply
       /\ first.reader.err = y.err /\ Unread(first.reader) = y.u
    BY <1>2, <1>7, <1>9, EndTells
<1>12. /\ whole.ok <=> z.err = "none"
       /\ whole.reply = IF z.ok THEN z.reply ELSE NoReply
       /\ whole.reader.err = z.err /\ Unread(whole.reader) = z.u
    BY <1>3, <1>8, <1>10, EndTells
<1>13. EndFails(s, reply, x, y, C) \/ EndWhole(s, reply, x, y, C) \/ EndWaits(s, reply, x, y, C)
    <2>1. Stops(Go(s, reply, x), y)
        BY <1>7, <1>9
    <2> QED
        BY <1>1, <2>1, Feeding
<1>14. CASE EndFails(s, reply, x, y, C)
    <2>1. PICK e \in {"protocol", "oom"} :
              y = Dead(e) /\ \A t \in Seq(C) : Same(Go(s, reply, x \o t), Dead(e))
        BY <1>14 DEF EndFails
    <2>2. Same(Started(b), y) /\ AtRest(y)
        BY <1>8, <2>1 DEF AtRest, Dead
    <2>3. z = y
        BY <1>10, <2>2, EndsOfSame
    <2>4. y.err # "none" /\ ~y.ok
        BY <2>1 DEF Dead
    <2> QED
        BY <1>11, <1>12, <2>3, <2>4
<1>15. CASE EndWhole(s, reply, x, y, C)
    <2>1. PICK u2 \in Seq(C) : \E reply2 :
              /\ reply2 # <<>> /\ y = Go(<<>>, reply2, u2)
              /\ \A t \in Seq(C) : Same(Go(s, reply, x \o t), Go(<<>>, reply2, u2 \o t))
        BY <1>15 DEF EndWhole
    <2>2. PICK reply2 :
              /\ reply2 # <<>> /\ y = Go(<<>>, reply2, u2)
              /\ \A t \in Seq(C) : Same(Go(s, reply, x \o t), Go(<<>>, reply2, u2 \o t))
        BY <2>1
    <2>3. PICK end : end = Go(<<>>, reply2, u2 \o w)
        OBVIOUS
    <2>4. Same(Started(b), end) /\ AtRest(end)
        BY <1>8, <2>2, <2>3 DEF AtRest, Go
    <2>5. z = end
        BY <1>10, <2>4, EndsOfSame
    <2>6. y.ok /\ y.reply = reply2 /\ z.ok /\ z.err = "none" /\ z.reply = reply2
        BY <2>2, <2>3, <2>5 DEF Go
    <2>7. first.reply = reply2 /\ whole.ok /\ whole.reply = reply2
        BY <1>11, <1>12, <2>6
    <2>10. y.u = u2 /\ z.u = u2 \o w
        BY <2>2, <2>3, <2>5 DEF Go
    <2>11. Unread(whole.reader) = Unread(first.reader) \o w
        BY <1>11, <1>12, <2>10
    <2>8. first.ok
        BY <1>11, <2>2 DEF Go
    <2>9. reply2 # NoReply
        BY <2>2 DEF NoReply
    <2> QED
        BY <2>7, <2>8, <2>9, <2>11
<1>16. CASE EndWaits(s, reply, x, y, C)
    <2>1. PICK s2 \in Seq(Task), u2 \in Seq(C) : \E reply2 :
              /\ y = Rests(s2, reply2, u2)
              /\ \A t \in Seq(C) : Same(Go(s, reply, x \o t), Go(s2, reply2, u2 \o t))
        BY <1>16 DEF EndWaits
    <2>2. PICK reply2 :
              /\ y = Rests(s2, reply2, u2)
              /\ \A t \in Seq(C) : Same(Go(s, reply, x \o t), Go(s2, reply2, u2 \o t))
        BY <2>1
    <2>3. /\ ~y.ok /\ y.err = "none" /\ y.s = s2 /\ y.reply = reply2 /\ y.u = u2
        BY <2>2 DEF Rests
    <2>4. first.ok /\ first.reply = NoReply
        BY <1>11, <2>3
    <2>5. IsReader(first.reader, C) /\ first.reader.err = "none"
          /\ Started(first.reader) = Go(s2, reply2, u2)
        <3>1. AnswerNone(a, first, C)
            <4>1. AnswerFails(a, first, C) \/ AnswerWhole(a, first, C) \/ AnswerNone(a, first, C)
                BY <1>2, <1>7, GetReplyIs
            <4> QED
                BY <2>4, <4>1 DEF AnswerFails, AnswerWhole, Result
        <3>2. PICK s3 \in Seq(Task), u3 \in Seq(C) : \E reply3 :
                  /\ IsReader(first.reader, C) /\ first.reader.err = "none"
                  /\ Started(first.reader) = Go(s3, reply3, u3)
                  /\ Stops(Started(a), Rests(s3, reply3, u3))
            BY <3>1 DEF AnswerNone
        <3>3. PICK reply3 :
                  /\ IsReader(first.reader, C) /\ first.reader.err = "none"
                  /\ Started(first.reader) = Go(s3, reply3, u3)
                  /\ Stops(Started(a), Rests(s3, reply3, u3))
            BY <3>2
        <3>4. y = Rests(s3, reply3, u3)
            <4>1. PICK end : end = Rests(s3, reply3, u3)
                OBVIOUS
            <4>2. Stops(Go(s, reply, x), y) /\ Stops(Go(s, reply, x), end)
                BY <1>7, <1>9, <3>3, <4>1
            <4>3. y = end
                BY <1>1, <4>2, EndsOnce
            <4> QED
                BY <4>1, <4>3
        <3>5. s3 = s2 /\ reply3 = reply2 /\ u3 = u2
            BY <2>3, <3>4 DEF Rests
        <3> QED
            BY <3>3, <3>5
    <2>6. PICK c : c = redisReaderFeed(first.reader, w)
        OBVIOUS
    <2>7. IsReader(c, C) /\ c.err = "none" /\ Started(c) = Go(s2, reply2, u2 \o w)
        BY <2>5, <2>6, FedFacts
    <2>8. Same(Started(b), Started(c))
        BY <1>8, <2>2, <2>7
    <2>9. Stops(Started(c), z)
        BY <1>10, <2>8 DEF Same
    <2>10. /\ second.ok <=> z.err = "none"
           /\ second.reply = IF z.ok THEN z.reply ELSE NoReply
           /\ second.reader.err = z.err /\ Unread(second.reader) = z.u
        BY <2>6, <2>7, <2>9, EndTells
    <2> QED
        BY <1>12, <2>4, <2>10
<1> QED
    BY <1>13, <1>14, <1>15, <1>16
=============================================================================
