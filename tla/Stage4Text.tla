----------------------------- MODULE Stage4Text -----------------------------
(***************************************************************************)
(* The words of Stage4's image and the bytes of its text, one by one.  The *)
(* image is put together from kmain, guest_v3_start and the two vectors,   *)
(* as kmain.c, gic_v3.c, guest_v3.S and vectors.S have them: the first     *)
(* part finds every word's place, the second lists the words by what they  *)
(* are. Then what they print: the text as it goes on from word to word,    *)
(* what a step that prints nothing, a byte of the program or a byte of a   *)
(* notice is to Console, and the text with a notice in it.                 *)
(***************************************************************************)
EXTENDS Stage4Places, Stage4Console, TLAPS

-----------------------------------------------------------------------------
(* The layout.                                                             *)

\* code is a sequence of n words.
Piece(code, n) == Len(code) = n /\ \E S : code \in Seq(S)

\* The words of code begin at the index after at.
Placed(code, at, n) == \A i \in 1..n : Image[at + i] = code[i]

\* c is a, j words long, with b, k words long, behind it.
Chain(c, a, j, b, k) ==
  /\ Piece(c, j + k)
  /\ \A i \in 1..j : c[i] = a[i]
  /\ \A i \in 1..k : c[j + i] = b[i]

\* Two pieces of code make one.
LEMMA Joined ==
  ASSUME NEW a, NEW b, NEW j \in Nat, NEW k \in Nat, Piece(a, j), Piece(b, k)
  PROVE  Chain(a \o b, a, j, b, k)
  <1>1. PICK A : a \in Seq(A)
    BY DEF Piece
  <1>2. PICK B : b \in Seq(B)
    BY DEF Piece
  <1>3. a \in Seq(A \cup B) /\ b \in Seq(A \cup B)
    <2>1. A \subseteq A \cup B /\ B \subseteq A \cup B
      OBVIOUS
    <2> QED
      BY <1>1, <1>2, <2>1
  <1>4. /\ a \o b \in Seq(A \cup B) /\ Len(a \o b) = j + k
        /\ \A i \in 1..(j + k) : (a \o b)[i] = IF i <= j THEN a[i] ELSE b[i - j]
    BY <1>3 DEF Piece
  <1>5. ASSUME NEW i \in 1..k PROVE j + i \in 1..(j + k) /\ ~(j + i <= j) /\ j + i - j = i
    OBVIOUS
  <1> QED
    BY <1>4, <1>5 DEF Piece, Chain

\* So they are in memory, too.
LEMMA Parted ==
  ASSUME NEW a, NEW b, NEW c, NEW j \in Nat, NEW k \in Nat, NEW at \in Nat,
         Chain(c, a, j, b, k), Placed(c, at, j + k)
  PROVE  Placed(a, at, j) /\ Placed(b, at + j, k)
  <1>1. ASSUME NEW i \in 1..j PROVE Image[at + i] = a[i]
    <2>1. i \in 1..(j + k)
      OBVIOUS
    <2> QED
      BY <2>1 DEF Chain, Placed
  <1>2. ASSUME NEW i \in 1..k PROVE Image[at + j + i] = b[i]
    <2>1. j + i \in 1..(j + k) /\ at + (j + i) = at + j + i
      OBVIOUS
    <2> QED
      BY <2>1 DEF Chain, Placed
  <1> QED
    BY <1>1, <1>2 DEF Placed

\* Both at once.
LEMMA Peeled ==
  ASSUME NEW a, NEW b, NEW j \in Nat, NEW k \in Nat, Piece(a, j), Piece(b, k)
  PROVE  /\ Piece(a \o b, j + k)
         /\ \A at \in Nat : Placed(a \o b, at, j + k) => Placed(a, at, j) /\ Placed(b, at + j, k)
  <1> DEFINE c == a \o b
  <1>1. Chain(c, a, j, b, k)
    BY Joined
  <1> HIDE DEF c
  <1>2. Piece(c, j + k)
    BY <1>1 DEF Chain
  <1>3. ASSUME NEW at \in Nat, Placed(c, at, j + k)
        PROVE  Placed(a, at, j) /\ Placed(b, at + j, k)
    BY <1>1, <1>3, Parted
  <1>4. Piece(c, j + k) /\ \A at \in Nat : Placed(c, at, j + k) => Placed(a, at, j) /\ Placed(b, at + j, k)
    BY <1>2, <1>3
  <1> QED
    BY <1>4, Zenon DEF c

\* Words listed one by one.
LEMMA Listed1 ==
  ASSUME NEW p
  PROVE  /\ Piece(<<p>>, 1)
         /\ \A at \in Nat : Placed(<<p>>, at, 1) =>
              Image[at + 1] = p
  <1>1. <<p>> \in Seq({p})
    OBVIOUS
  <1>2. Piece(<<p>>, 1)
    BY <1>1 DEF Piece
  <1>3. ASSUME NEW at \in Nat, Placed(<<p>>, at, 1)
        PROVE  Image[at + 1] = p
    <2>1. {1} \subseteq 1..1
      OBVIOUS
    <2> QED
      BY <1>3, <2>1 DEF Placed
  <1> QED
    BY <1>2, <1>3

\* Two words.
LEMMA Listed2 ==
  ASSUME NEW p, NEW q
  PROVE  /\ Piece(<<p, q>>, 2)
         /\ \A at \in Nat : Placed(<<p, q>>, at, 2) =>
              Image[at + 1] = p /\ Image[at + 2] = q
  <1>1. <<p, q>> \in Seq({p, q})
    OBVIOUS
  <1>2. Piece(<<p, q>>, 2)
    BY <1>1 DEF Piece
  <1>3. ASSUME NEW at \in Nat, Placed(<<p, q>>, at, 2)
        PROVE  Image[at + 1] = p /\ Image[at + 2] = q
    <2>1. {1, 2} \subseteq 1..2
      OBVIOUS
    <2> QED
      BY <1>3, <2>1 DEF Placed
  <1> QED
    BY <1>2, <1>3

\* Three words.
LEMMA Listed3 ==
  ASSUME NEW p, NEW q, NEW r
  PROVE  /\ Piece(<<p, q, r>>, 3)
         /\ \A at \in Nat : Placed(<<p, q, r>>, at, 3) =>
              Image[at + 1] = p /\ Image[at + 2] = q /\ Image[at + 3] = r
  <1>1. <<p, q, r>> \in Seq({p, q, r})
    OBVIOUS
  <1>2. Piece(<<p, q, r>>, 3)
    BY <1>1 DEF Piece
  <1>3. ASSUME NEW at \in Nat, Placed(<<p, q, r>>, at, 3)
        PROVE  Image[at + 1] = p /\ Image[at + 2] = q /\ Image[at + 3] = r
    <2>1. {1, 2, 3} \subseteq 1..3
      OBVIOUS
    <2> QED
      BY <1>3, <2>1 DEF Placed
  <1> QED
    BY <1>2, <1>3

\* Four words.
LEMMA Listed4 ==
  ASSUME NEW p, NEW q, NEW r, NEW s
  PROVE  /\ Piece(<<p, q, r, s>>, 4)
         /\ \A at \in Nat : Placed(<<p, q, r, s>>, at, 4) =>
              Image[at + 1] = p /\ Image[at + 2] = q /\ Image[at + 3] = r /\ Image[at + 4] = s
  <1>1. <<p, q, r, s>> \in Seq({p, q, r, s})
    OBVIOUS
  <1>2. Piece(<<p, q, r, s>>, 4)
    BY <1>1 DEF Piece
  <1>3. ASSUME NEW at \in Nat, Placed(<<p, q, r, s>>, at, 4)
        PROVE  Image[at + 1] = p /\ Image[at + 2] = q /\ Image[at + 3] = r /\ Image[at + 4] = s
    <2>1. {1, 2, 3, 4} \subseteq 1..4
      OBVIOUS
    <2> QED
      BY <1>3, <2>1 DEF Placed
  <1> QED
    BY <1>2, <1>3

\* Five words.
LEMMA Listed5 ==
  ASSUME NEW p, NEW q, NEW r, NEW s, NEW t
  PROVE  /\ Piece(<<p, q, r, s, t>>, 5)
         /\ \A at \in Nat : Placed(<<p, q, r, s, t>>, at, 5) =>
              Image[at + 1] = p /\ Image[at + 2] = q /\ Image[at + 3] = r /\ Image[at + 4] = s /\ Image[at + 5] = t
  <1>1. <<p, q, r, s, t>> \in Seq({p, q, r, s, t})
    OBVIOUS
  <1>2. Piece(<<p, q, r, s, t>>, 5)
    BY <1>1 DEF Piece
  <1>3. ASSUME NEW at \in Nat, Placed(<<p, q, r, s, t>>, at, 5)
        PROVE  Image[at + 1] = p /\ Image[at + 2] = q /\ Image[at + 3] = r /\ Image[at + 4] = s /\ Image[at + 5] = t
    <2>1. {1, 2, 3, 4, 5} \subseteq 1..5
      OBVIOUS
    <2>2. Image[at + 1] = <<p, q, r, s, t>>[1] /\ Image[at + 2] = <<p, q, r, s, t>>[2] /\ Image[at + 3] = <<p, q, r, s, t>>[3] /\ Image[at + 4] = <<p, q, r, s, t>>[4] /\ Image[at + 5] = <<p, q, r, s, t>>[5]
      BY <1>3, <2>1, Zenon DEF Placed
    <2> QED
      BY <2>2
  <1> QED
    BY <1>2, <1>3

\* A loop over one piece is that piece.
LEMMA UnrolledOne ==
  ASSUME NEW a
  PROVE  Unrolled(<<a>>) = a
  <1> DEFINE F(f) == f = [i \in 1..Len(<<a>>) |-> IF i = 1 THEN <<a>>[i] ELSE f[i - 1] \o <<a>>[i]]
             g == [i \in 1..1 |-> a]
             h == CHOOSE f : F(f)
  <1>1. F(g)
    OBVIOUS
  <1>2. Unrolled(<<a>>) = h[1]
    BY DEF Unrolled
  <1> HIDE DEF F
  <1>3. F(h)
    BY <1>1, Zenon
  <1> HIDE DEF h
  <1> QED
    BY <1>2, <1>3 DEF F

\* A loop over two pieces is one after the other, as in guest_v3_start's
\* prints.
LEMMA UnrolledTwo ==
  ASSUME NEW a, NEW b
  PROVE  Unrolled(<<a, b>>) = a \o b
  <1> DEFINE s == <<a, b>>
             F(f) == f = [i \in 1..Len(s) |-> IF i = 1 THEN s[i] ELSE f[i - 1] \o s[i]]
             g == [i \in 1..2 |-> IF i = 1 THEN a ELSE a \o b]
             h == CHOOSE f : F(f)
  <1>1. F(g)
    OBVIOUS
  <1>2. Unrolled(s) = h[2]
    BY DEF Unrolled
  <1> HIDE DEF F
  <1>3. F(h)
    BY <1>1, Zenon
  <1> HIDE DEF h
  <1>4. /\ 1 \in 1..Len(s) /\ 2 \in 1..Len(s) /\ 2 # 1 /\ 2 - 1 = 1
        /\ s[1] = a /\ s[2] = b
    OBVIOUS
  <1> HIDE DEF s
  <1>5. h[1] = a
    BY <1>3, <1>4 DEF F
  <1>6. h[2] = h[2 - 1] \o s[2]
    BY <1>3, <1>4 DEF F
  <1>7. h[2 - 1] = a /\ s[2] = b
    BY <1>4, <1>5
  <1> QED
    BY <1>2, <1>6, <1>7, Zenon DEF s

-----------------------------------------------------------------------------
\* uart_puts prints a byte, or carriage return and line feed at the end of a
\* line.
LEMMA PutsIs ==
  /\ uart_puts(<<LF>>) = uart_putc(CR) \o uart_putc(LF)
  /\ \A c : c # LF =>
       /\ uart_puts(<<c>>) = uart_putc(c)
       /\ uart_puts(<<c, LF>>) = uart_putc(c) \o (uart_putc(CR) \o uart_putc(LF))
  <1> DEFINE Out(d) == IF d = LF THEN uart_putc(CR) \o uart_putc(LF) ELSE uart_putc(d)
  <1>1. ASSUME NEW d PROVE uart_puts(<<d>>) = Out(d)
    <2>1. [n \in DOMAIN <<d>> |-> Out(<<d>>[n])] = <<Out(d)>>
      <3> HIDE DEF Out
      <3> QED
        OBVIOUS
    <2> QED
      BY <2>1, UnrolledOne, Zenon DEF uart_puts
  <1>2. ASSUME NEW c PROVE uart_puts(<<c, LF>>) = Out(c) \o Out(LF)
    <2>1. [n \in DOMAIN <<c, LF>> |-> Out(<<c, LF>>[n])] = <<Out(c), Out(LF)>>
      <3> HIDE DEF Out
      <3> QED
        OBVIOUS
    <2> QED
      BY <2>1, UnrolledTwo, Zenon DEF uart_puts
  <1>3. Out(LF) = uart_putc(CR) \o uart_putc(LF) /\ \A c : c # LF => Out(c) = uart_putc(c)
    BY Zenon
  <1> HIDE DEF Out
  <1> QED
    BY <1>1, <1>2, <1>3, Zenon

\* guest_v3_puts of a text.
LEMMA GuestPutsIs ==
  ASSUME NEW c, NEW d
  PROVE  /\ guest_v3_puts(<<c>>) = uart_write(UARTDR, c)
         /\ guest_v3_puts(<<c, d>>) = uart_write(UARTDR, c) \o uart_write(UARTDR, d)
  <1> DEFINE Out(e) == uart_write(UARTDR, e)
  <1>1. [n \in DOMAIN <<c>> |-> Out(<<c>>[n])] = <<Out(c)>>
    <2> HIDE DEF Out
    <2> QED
      OBVIOUS
  <1>2. [n \in DOMAIN <<c, d>> |-> Out(<<c, d>>[n])] = <<Out(c), Out(d)>>
    <2> HIDE DEF Out
    <2> QED
      OBVIOUS
  <1> QED
    BY <1>1, <1>2, UnrolledOne, UnrolledTwo, Zenon DEF guest_v3_puts

PutcAt(at, c) ==
  /\ Image[at + 1] = Uart("ldr", 2, UARTFR) /\ Image[at + 2] = Sys("tbnz_txff", 0)
  /\ Image[at + 3] = MovTo(0, c) /\ Image[at + 4] = Uart("str", 0, UARTDR)
WriteAt(at, reg, val) == Image[at + 1] = MovTo(0, val) /\ Image[at + 2] = Uart("str", 0, reg)
LineAt(at, c) == PutcAt(at, c) /\ PutcAt(at + 4, CR) /\ PutcAt(at + 8, LF)

\* uart_putc is four words.
LEMMA PutcLayout ==
  ASSUME NEW c
  PROVE  /\ Piece(uart_putc(c), 4)
         /\ \A at \in Nat : Placed(uart_putc(c), at, 4) => PutcAt(at, c)
  <1> DEFINE p == Uart("ldr", 2, UARTFR)
             q == Sys("tbnz_txff", 0)
             r == MovTo(0, c)
             s == Uart("str", 0, UARTDR)
  <1>1. uart_putc(c) = <<p, q, r, s>>
    BY DEF uart_putc
  <1>2. \A at \in Nat : PutcAt(at, c) <=>
          Image[at + 1] = p /\ Image[at + 2] = q /\ Image[at + 3] = r /\ Image[at + 4] = s
    BY DEF PutcAt
  <1> HIDE DEF p, q, r, s
  <1> QED
    BY <1>1, <1>2, Listed4

\* A write to a device register is two.
LEMMA WriteLayout ==
  ASSUME NEW reg, NEW val
  PROVE  /\ Piece(uart_write(reg, val), 2)
         /\ \A at \in Nat : Placed(uart_write(reg, val), at, 2) => WriteAt(at, reg, val)
  <1> DEFINE p == MovTo(0, val)
             q == Uart("str", 0, reg)
  <1>1. /\ Piece(<<p, q>>, 2)
        /\ \A at \in Nat : Placed(<<p, q>>, at, 2) => Image[at + 1] = p /\ Image[at + 2] = q
    BY Listed2
  <1> QED
    BY <1>1, Zenon DEF uart_write, WriteAt

\* The end of a line.
LEMMA EndLayout ==
  /\ Piece(uart_puts(<<LF>>), 8)
  /\ \A at \in Nat : Placed(uart_puts(<<LF>>), at, 8) => PutcAt(at, CR) /\ PutcAt(at + 4, LF)
  <1> DEFINE cr == uart_putc(CR)
             lf == uart_putc(LF)
             end == cr \o lf
  <1>1. uart_puts(<<LF>>) = end
    BY PutsIs, Zenon
  <1>2. /\ Piece(cr, 4) /\ Piece(lf, 4)
        /\ \A at \in Nat : /\ Placed(cr, at, 4) => PutcAt(at, CR)
                           /\ Placed(lf, at, 4) => PutcAt(at, LF)
    BY PutcLayout, Zenon
  <1> HIDE DEF cr, lf
  <1>3. Piece(end, 8) /\ \A at \in Nat : Placed(end, at, 8) => Placed(cr, at, 4) /\ Placed(lf, at + 4, 4)
    BY <1>2, Peeled
  <1> HIDE DEF end
  <1>4. \A at \in Nat : at + 4 \in Nat
    OBVIOUS
  <1> QED
    BY <1>1, <1>2, <1>3, <1>4

\* A text, alone or with the end of a line.
LEMMA PutsLayout ==
  ASSUME NEW c, c # LF
  PROVE  /\ Piece(uart_puts(<<c>>), 4) /\ Piece(uart_puts(<<c, LF>>), 12)
         /\ \A at \in Nat :
              /\ Placed(uart_puts(<<c>>), at, 4) => PutcAt(at, c)
              /\ Placed(uart_puts(<<c, LF>>), at, 12) => LineAt(at, c)
  <1> DEFINE p == uart_putc(c)
             end == uart_puts(<<LF>>)
             line == p \o end
  <1>1. uart_puts(<<c>>) = p /\ uart_puts(<<c, LF>>) = line
    BY PutsIs, Zenon
  <1>2. Piece(p, 4) /\ \A at \in Nat : Placed(p, at, 4) => PutcAt(at, c)
    BY PutcLayout, Zenon
  <1>3. Piece(end, 8) /\ \A at \in Nat : Placed(end, at, 8) => PutcAt(at, CR) /\ PutcAt(at + 4, LF)
    BY EndLayout, Zenon
  <1> HIDE DEF p, end
  <1>4. Piece(line, 12) /\ \A at \in Nat : Placed(line, at, 12) => Placed(p, at, 4) /\ Placed(end, at + 4, 8)
    BY <1>2, <1>3, Peeled
  <1> HIDE DEF line
  <1>5. \A at \in Nat : at + 4 \in Nat /\ at + 4 + 4 = at + 8
    OBVIOUS
  <1> QED
    BY <1>1, <1>2, <1>3, <1>4, <1>5 DEF LineAt

\* uart_init writes seven registers, none of them the data register.
LEMMA InitLayout ==
  /\ Piece(uart_init, 14)
  /\ \A at \in Nat : Placed(uart_init, at, 14) =>
       /\ WriteAt(at, UARTCR, 0) /\ WriteAt(at + 2, UARTICR, \h7ff) /\ WriteAt(at + 4, UARTIBRD, 26)
       /\ WriteAt(at + 6, UARTFBRD, 3) /\ WriteAt(at + 8, UARTLCR_H, \h70)
       /\ WriteAt(at + 10, UARTIMSC, 0) /\ WriteAt(at + 12, UARTCR, \h301)
  <1> DEFINE w1 == uart_write(UARTCR, 0)
             w2 == uart_write(UARTICR, \h7ff)
             w3 == uart_write(UARTIBRD, 26)
             w4 == uart_write(UARTFBRD, 3)
             w5 == uart_write(UARTLCR_H, \h70)
             w6 == uart_write(UARTIMSC, 0)
             w7 == uart_write(UARTCR, \h301)
             p2 == w1 \o w2
             p3 == p2 \o w3
             p4 == p3 \o w4
             p5 == p4 \o w5
             p6 == p5 \o w6
             p7 == p6 \o w7
  <1>1. /\ Piece(w1, 2) /\ Piece(w2, 2) /\ Piece(w3, 2) /\ Piece(w4, 2)
        /\ Piece(w5, 2) /\ Piece(w6, 2) /\ Piece(w7, 2)
    BY WriteLayout
  <1>2. \A at \in Nat :
          /\ Placed(w1, at, 2) => WriteAt(at, UARTCR, 0)
          /\ Placed(w2, at, 2) => WriteAt(at, UARTICR, \h7ff)
          /\ Placed(w3, at, 2) => WriteAt(at, UARTIBRD, 26)
          /\ Placed(w4, at, 2) => WriteAt(at, UARTFBRD, 3)
          /\ Placed(w5, at, 2) => WriteAt(at, UARTLCR_H, \h70)
          /\ Placed(w6, at, 2) => WriteAt(at, UARTIMSC, 0)
          /\ Placed(w7, at, 2) => WriteAt(at, UARTCR, \h301)
    BY WriteLayout
  <1>3. uart_init = p7
    BY Zenon DEF uart_init
  <1> HIDE DEF w1, w2, w3, w4, w5, w6, w7
  <1>4. Piece(p2, 4) /\ \A at \in Nat : Placed(p2, at, 4) => Placed(w1, at, 2) /\ Placed(w2, at + 2, 2)
    BY <1>1, Peeled
  <1> HIDE DEF p2
  <1>5. Piece(p3, 6) /\ \A at \in Nat : Placed(p3, at, 6) => Placed(p2, at, 4) /\ Placed(w3, at + 4, 2)
    BY <1>1, <1>4, Peeled
  <1> HIDE DEF p3
  <1>6. Piece(p4, 8) /\ \A at \in Nat : Placed(p4, at, 8) => Placed(p3, at, 6) /\ Placed(w4, at + 6, 2)
    BY <1>1, <1>5, Peeled
  <1> HIDE DEF p4
  <1>7. Piece(p5, 10) /\ \A at \in Nat : Placed(p5, at, 10) => Placed(p4, at, 8) /\ Placed(w5, at + 8, 2)
    BY <1>1, <1>6, Peeled
  <1> HIDE DEF p5
  <1>8. Piece(p6, 12) /\ \A at \in Nat : Placed(p6, at, 12) => Placed(p5, at, 10) /\ Placed(w6, at + 10, 2)
    BY <1>1, <1>7, Peeled
  <1> HIDE DEF p6
  <1>9. Piece(p7, 14) /\ \A at \in Nat : Placed(p7, at, 14) => Placed(p6, at, 12) /\ Placed(w7, at + 12, 2)
    BY <1>1, <1>8, Peeled
  <1> HIDE DEF p7
  <1>10. ASSUME NEW at \in Nat
         PROVE  {at + 2, at + 4, at + 6, at + 8, at + 10, at + 12} \subseteq Nat
    OBVIOUS
  <1> QED
    BY <1>2, <1>3, <1>4, <1>5, <1>6, <1>7, <1>8, <1>9, <1>10

\* The texts are not line feeds.
LEMMA Texts ==
  /\ HELLO # LF /\ GIC_INIT # LF /\ TIMEOUT # LF /\ PPI_ON # LF /\ LR0_LOADED # LF /\ UNEXPECTED # LF
  BY DEF HELLO, GIC_INIT, TIMEOUT, PPI_ON, LR0_LOADED, UNEXPECTED, LF

\* uart_put_hex prints what is in x19.
HexAt(at) ==
  /\ Image[at + 1] = Uart("ldr", 2, UARTFR) /\ Image[at + 2] = Sys("tbnz_txff", 0)
  /\ Image[at + 3] = Sys("mov_x0_x19", 0) /\ Image[at + 4] = Uart("str", 0, UARTDR)

\* uart_put_hex's four words, wherever they are placed.
LEMMA HexLayout ==
  /\ Piece(uart_put_hex, 4)
  /\ \A at \in Nat : Placed(uart_put_hex, at, 4) => HexAt(at)
  <1> DEFINE p == Uart("ldr", 2, UARTFR)
             q == Sys("tbnz_txff", 0)
             r == Sys("mov_x0_x19", 0)
             s == Uart("str", 0, UARTDR)
  <1>1. uart_put_hex = <<p, q, r, s>>
    BY DEF uart_put_hex
  <1>2. \A at \in Nat : HexAt(at) <=>
          Image[at + 1] = p /\ Image[at + 2] = q /\ Image[at + 3] = r /\ Image[at + 4] = s
    BY DEF HexAt
  <1> HIDE DEF p, q, r, s
  <1> QED
    BY <1>1, <1>2, Listed4

\* wake_redistributor polls, and prints a line if that takes too long.
LEMMA WakeLayout ==
  /\ Piece(wake_redistributor, 14)
  /\ \A at \in Nat : Placed(wake_redistributor, at, 14) =>
       Image[at + 1] = Sys("waker", 0) /\ Image[at + 2] = Sys("spin", 12) /\ LineAt(at + 2, TIMEOUT)
  <1> DEFINE p == Sys("waker", 0)
             q == Sys("spin", 12)
             poll == <<p, q>>
             timeout == uart_puts(<<TIMEOUT, LF>>)
  <1>1. Piece(timeout, 12) /\ \A at \in Nat : Placed(timeout, at, 12) => LineAt(at, TIMEOUT)
    BY Texts, PutsLayout, Zenon
  <1>2. wake_redistributor = poll \o timeout
    <2>1. Len(timeout) = 12
      BY <1>1 DEF Piece
    <2> QED
      BY <2>1 DEF wake_redistributor
  <1> HIDE DEF timeout, p, q
  <1>3. /\ Piece(poll, 2)
        /\ \A at \in Nat : Placed(poll, at, 2) => Image[at + 1] = p /\ Image[at + 2] = q
    BY Listed2
  <1> HIDE DEF poll
  <1>4. /\ Piece(poll \o timeout, 14)
        /\ \A at \in Nat : Placed(poll \o timeout, at, 14) => Placed(poll, at, 2) /\ Placed(timeout, at + 2, 12)
    BY <1>1, <1>3, Peeled
  <1>5. \A at \in Nat : at + 2 \in Nat
    OBVIOUS
  <1> QED
    BY <1>1, <1>2, <1>3, <1>4, <1>5 DEF p, q

\* gic_init_el2, 44 words behind the first line of kmain.
LEMMA GicInitLayout ==
  /\ Piece(gic_init_el2, 44)
  /\ Placed(gic_init_el2, 31, 44) =>
       /\ LineAt(31, GIC_INIT) /\ Image[44] = Sys("icc_sre", 0)
       /\ Image[45] = Sys("waker", 0) /\ Image[46] = Sys("spin", 12) /\ LineAt(46, TIMEOUT)
       /\ Image[59] = Sys("gicd_ctlr", 0) /\ Image[60] = Sys("ich_hcr", 0)
       /\ Image[61] = Sys("icc_pmr", 0) /\ Image[62] = Sys("icc_igrpen1", 0)
       /\ Image[63] = Sys("enable_ppi", IRQ_HTIMER_PPI) /\ LineAt(63, PPI_ON)
  <1> DEFINE hello == uart_puts(<<GIC_INIT, LF>>)
             sre == <<Sys("icc_sre", 0)>>
             on == <<Sys("gicd_ctlr", 0), Sys("ich_hcr", 0), Sys("icc_pmr", 0), Sys("icc_igrpen1", 0),
                     enable_ppi(IRQ_HTIMER_PPI)>>
             ppi == uart_puts(<<PPI_ON, LF>>)
             p2 == hello \o sre
             p3 == p2 \o wake_redistributor
             p4 == p3 \o on
             p5 == p4 \o ppi
  <1>1. gic_init_el2 = p5
    BY DEF gic_init_el2
  <1>2. /\ Piece(hello, 12) /\ (Placed(hello, 31, 12) => LineAt(31, GIC_INIT))
        /\ Piece(ppi, 12) /\ (Placed(ppi, 63, 12) => LineAt(63, PPI_ON))
    BY Texts, PutsLayout
  <1>3. Piece(sre, 1) /\ (Placed(sre, 43, 1) => Image[44] = Sys("icc_sre", 0))
    BY Listed1
  <1>4. /\ Piece(on, 5)
        /\ Placed(on, 58, 5) =>
             /\ Image[59] = Sys("gicd_ctlr", 0) /\ Image[60] = Sys("ich_hcr", 0)
             /\ Image[61] = Sys("icc_pmr", 0) /\ Image[62] = Sys("icc_igrpen1", 0)
             /\ Image[63] = Sys("enable_ppi", IRQ_HTIMER_PPI)
    <2> DEFINE a == Sys("gicd_ctlr", 0)
               b == Sys("ich_hcr", 0)
               c == Sys("icc_pmr", 0)
               d == Sys("icc_igrpen1", 0)
               e == Sys("enable_ppi", IRQ_HTIMER_PPI)
    <2>1. on = <<a, b, c, d, e>>
      BY DEF enable_ppi
    <2> HIDE DEF a, b, c, d, e
    <2>2. /\ Piece(<<a, b, c, d, e>>, 5)
          /\ Placed(<<a, b, c, d, e>>, 58, 5) =>
               Image[59] = a /\ Image[60] = b /\ Image[61] = c /\ Image[62] = d /\ Image[63] = e
      BY Listed5
    <2> QED
      BY <2>1, <2>2 DEF a, b, c, d, e
  <1> HIDE DEF hello, sre, on, ppi
  <1>5. Piece(p2, 13) /\ (Placed(p2, 31, 13) => Placed(hello, 31, 12) /\ Placed(sre, 43, 1))
    BY <1>2, <1>3, Peeled
  <1> HIDE DEF p2
  <1>6. Piece(p3, 27) /\ (Placed(p3, 31, 27) => Placed(p2, 31, 13) /\ Placed(wake_redistributor, 44, 14))
    BY <1>5, WakeLayout, Peeled
  <1> HIDE DEF p3
  <1>7. Piece(p4, 32) /\ (Placed(p4, 31, 32) => Placed(p3, 31, 27) /\ Placed(on, 58, 5))
    BY <1>4, <1>6, Peeled
  <1> HIDE DEF p4
  <1>8. Piece(p5, 44) /\ (Placed(p5, 31, 44) => Placed(p4, 31, 32) /\ Placed(ppi, 63, 12))
    BY <1>2, <1>7, Peeled
  <1> HIDE DEF p5
  <1>9. Placed(wake_redistributor, 44, 14) =>
          Image[45] = Sys("waker", 0) /\ Image[46] = Sys("spin", 12) /\ LineAt(46, TIMEOUT)
    BY WakeLayout
  <1> QED
    BY <1>1, <1>2, <1>3, <1>4, <1>5, <1>6, <1>7, <1>8, <1>9

\* stage4_eret_to_guest, the last 18 words of kmain.
LEMMA EretLayout ==
  /\ Piece(stage4_eret_to_guest, 18)
  /\ Placed(stage4_eret_to_guest, 75, 18) =>
       /\ Image[76] = Sys("hcr_imo", 0) /\ Image[77] = Sys("ich_hcr", 0)
       /\ Image[78] = Sys("ich_vmcr", 0) /\ Image[79] = Sys("ich_lr0", VINTID)
       /\ LineAt(79, LR0_LOADED)
       /\ Image[92] = Sys("elr_el2", 0) /\ Image[93] = Sys("eret", 0)
  <1> DEFINE a == Sys("hcr_imo", 0)
             b == Sys("ich_hcr", 0)
             c == Sys("ich_vmcr", 0)
             d == Sys("ich_lr0", VINTID)
             e == Sys("elr_el2", 0)
             f == Sys("eret", 0)
             on == <<a, b, c, d>>
             loaded == uart_puts(<<LR0_LOADED, LF>>)
             leave == <<e, f>>
             p2 == on \o loaded
             p3 == p2 \o leave
  <1>1. stage4_eret_to_guest = p3
    BY DEF stage4_eret_to_guest, write_ich_lr0_el2
  <1>2. Piece(loaded, 12) /\ (Placed(loaded, 79, 12) => LineAt(79, LR0_LOADED))
    BY Texts, PutsLayout
  <1> HIDE DEF a, b, c, d, e, f, loaded
  <1>3. /\ Piece(on, 4)
        /\ Placed(on, 75, 4) => Image[76] = a /\ Image[77] = b /\ Image[78] = c /\ Image[79] = d
    BY Listed4
  <1>4. Piece(leave, 2) /\ (Placed(leave, 91, 2) => Image[92] = e /\ Image[93] = f)
    BY Listed2
  <1> HIDE DEF on, leave
  <1>5. Piece(p2, 16) /\ (Placed(p2, 75, 16) => Placed(on, 75, 4) /\ Placed(loaded, 79, 12))
    BY <1>2, <1>3, Peeled
  <1> HIDE DEF p2
  <1>6. Piece(p3, 18) /\ (Placed(p3, 75, 18) => Placed(p2, 75, 16) /\ Placed(leave, 91, 2))
    BY <1>4, <1>5, Peeled
  <1> HIDE DEF p3
  <1> QED
    BY <1>1, <1>2, <1>3, <1>4, <1>5, <1>6 DEF a, b, c, d, e, f

\* kmain, from the UART to the exception return.
LEMMA KmainLayout ==
  /\ Piece(kmain, 93)
  /\ Placed(kmain, 0, 93) =>
       /\ Image[1] = MovTo(1, PL011_BASE) /\ Placed(uart_init, 1, 14)
       /\ PutcAt(15, HELLO) /\ PutcAt(19, 50) /\ PutcAt(23, CR) /\ PutcAt(27, LF)
       /\ Placed(gic_init_el2, 31, 44) /\ Placed(stage4_eret_to_guest, 75, 18)
  <1> DEFINE base == <<MovTo(1, PL011_BASE)>>
             hello == uart_puts(<<HELLO>>)
             el == uart_putc(50)
             lf == uart_puts(<<LF>>)
             p2 == base \o uart_init
             p3 == p2 \o hello
             p4 == p3 \o el
             p5 == p4 \o lf
             p6 == p5 \o gic_init_el2
             p7 == p6 \o stage4_eret_to_guest
  <1>1. kmain = p7
    BY DEF kmain
  <1>2. Piece(base, 1) /\ (Placed(base, 0, 1) => Image[1] = MovTo(1, PL011_BASE))
    BY Listed1
  <1>3. /\ Piece(hello, 4) /\ (Placed(hello, 15, 4) => PutcAt(15, HELLO))
        /\ Piece(lf, 8) /\ (Placed(lf, 23, 8) => PutcAt(23, CR) /\ PutcAt(27, LF))
    <2>1. Piece(hello, 4) /\ (Placed(hello, 15, 4) => PutcAt(15, HELLO))
      BY Texts, PutsLayout
    <2>2. Piece(lf, 8) /\ (Placed(lf, 23, 8) => PutcAt(23, CR) /\ PutcAt(27, LF))
      BY EndLayout
    <2> QED
      BY <2>1, <2>2
  <1>4. Piece(el, 4) /\ (Placed(el, 19, 4) => PutcAt(19, 50))
    BY PutcLayout
  <1> HIDE DEF base, hello, el, lf
  <1>5. Piece(p2, 15) /\ (Placed(p2, 0, 15) => Placed(base, 0, 1) /\ Placed(uart_init, 1, 14))
    BY <1>2, InitLayout, Peeled
  <1> HIDE DEF p2
  <1>6. Piece(p3, 19) /\ (Placed(p3, 0, 19) => Placed(p2, 0, 15) /\ Placed(hello, 15, 4))
    BY <1>3, <1>5, Peeled
  <1> HIDE DEF p3
  <1>7. Piece(p4, 23) /\ (Placed(p4, 0, 23) => Placed(p3, 0, 19) /\ Placed(el, 19, 4))
    BY <1>4, <1>6, Peeled
  <1> HIDE DEF p4
  <1>8. Piece(p5, 31) /\ (Placed(p5, 0, 31) => Placed(p4, 0, 23) /\ Placed(lf, 23, 8))
    BY <1>3, <1>7, Peeled
  <1> HIDE DEF p5
  <1>9. Piece(p6, 75) /\ (Placed(p6, 0, 75) => Placed(p5, 0, 31) /\ Placed(gic_init_el2, 31, 44))
    BY <1>8, GicInitLayout, Peeled
  <1> HIDE DEF p6
  <1>10. Piece(p7, 93) /\ (Placed(p7, 0, 93) => Placed(p6, 0, 75) /\ Placed(stage4_eret_to_guest, 75, 18))
    BY <1>9, EretLayout, Peeled
  <1> HIDE DEF p7
  <1> QED
    BY <1>1, <1>2, <1>3, <1>4, <1>5, <1>6, <1>7, <1>8, <1>9, <1>10

\* guest_v3_start and guest_v3_irq_entry.
LEMMA GuestLayout ==
  /\ Piece(guest_v3_start, 11)
  /\ Placed(guest_v3_start, 93, 11) =>
       /\ Image[94] = Sys("vbar_el1", 0) /\ Image[95] = Sys("icc_sre", 0) /\ Image[96] = Sys("icc_pmr", 0)
       /\ Image[97] = Sys("icc_igrpen1", 0) /\ Image[98] = MovTo(1, PL011_BASE)
       /\ WriteAt(98, UARTDR, BANNER) /\ WriteAt(100, UARTDR, LF)
       /\ Image[103] = Sys("daifclr", 0) /\ Image[104] = Wfe
  <1> DEFINE a == Sys("vbar_el1", 0)
             b == Sys("icc_sre", 0)
             c == Sys("icc_pmr", 0)
             d == Sys("icc_igrpen1", 0)
             e == MovTo(1, PL011_BASE)
             f == Sys("daifclr", 0)
             on == <<a, b, c, d, e>>
             w1 == uart_write(UARTDR, BANNER)
             w2 == uart_write(UARTDR, LF)
             banner == w1 \o w2
             wait == <<f, Wfe>>
             p2 == on \o banner
             p3 == p2 \o wait
  <1>1. guest_v3_start = p3
    BY GuestPutsIs DEF guest_v3_start
  <1>2. /\ Piece(w1, 2) /\ (Placed(w1, 98, 2) => WriteAt(98, UARTDR, BANNER))
        /\ Piece(w2, 2) /\ (Placed(w2, 100, 2) => WriteAt(100, UARTDR, LF))
    BY WriteLayout
  <1> HIDE DEF a, b, c, d, e, f, w1, w2
  <1>3. /\ Piece(on, 5)
        /\ Placed(on, 93, 5) =>
             Image[94] = a /\ Image[95] = b /\ Image[96] = c /\ Image[97] = d /\ Image[98] = e
    BY Listed5
  <1>4. Piece(wait, 2) /\ (Placed(wait, 102, 2) => Image[103] = f /\ Image[104] = Wfe)
    BY Listed2
  <1> HIDE DEF on, wait
  <1>5. Piece(banner, 4) /\ (Placed(banner, 98, 4) => Placed(w1, 98, 2) /\ Placed(w2, 100, 2))
    BY <1>2, Peeled
  <1> HIDE DEF banner
  <1>6. Piece(p2, 9) /\ (Placed(p2, 93, 9) => Placed(on, 93, 5) /\ Placed(banner, 98, 4))
    BY <1>3, <1>5, Peeled
  <1> HIDE DEF p2
  <1>7. Piece(p3, 11) /\ (Placed(p3, 93, 11) => Placed(p2, 93, 9) /\ Placed(wait, 102, 2))
    BY <1>4, <1>6, Peeled
  <1> HIDE DEF p3
  <1> QED
    BY <1>1, <1>2, <1>3, <1>4, <1>5, <1>6, <1>7 DEF a, b, c, d, e, f

\* guest_v3_irq_entry reports a real interrupt and halts, and returns from a
\* spurious one.
LEMMA GuestIrqLayout ==
  /\ Piece(guest_v3_irq_entry, 22)
  /\ Placed(guest_v3_irq_entry, 104, 22) =>
       /\ Image[105] = Sys("push", 0) /\ Image[106] = MovTo(1, PL011_BASE)
       /\ Image[107] = Sys("icc_iar1", 0) /\ Image[108] = Sys("b_eq_1023", 15)
       /\ WriteAt(108, UARTDR, GOT_IRQ)
       /\ Image[111] = Sys("nibble", 16) /\ Image[112] = Uart("str", 0, UARTDR)
       /\ Image[113] = Sys("nibble", 1) /\ Image[114] = Uart("str", 0, UARTDR)
       /\ WriteAt(114, UARTDR, LF) /\ Image[117] = Sys("icc_eoir1", 0)
       /\ WriteAt(117, UARTDR, DONE) /\ WriteAt(119, UARTDR, LF)
       /\ Image[122] = Sys("daifset", 0) /\ Image[123] = Wfe
       /\ Image[124] = Sys("icc_eoir1", 0) /\ Image[125] = Sys("pop", 0) /\ Image[126] = Sys("eret", 0)
  <1> DEFINE a == Sys("push", 0)
             b == MovTo(1, PL011_BASE)
             c == Sys("icc_iar1", 0)
             d == Sys("b_eq_1023", 15)
             e == Sys("nibble", 16)
             f == Uart("str", 0, UARTDR)
             g == Sys("nibble", 1)
             eoi == Sys("icc_eoir1", 0)
             i == Sys("daifset", 0)
             j == Sys("pop", 0)
             k == Sys("eret", 0)
             head == <<a, b, c, d>>
             w1 == uart_write(UARTDR, GOT_IRQ)
             hex == <<e, f, g, f>>
             w2 == uart_write(UARTDR, LF)
             done == <<eoi>>
             w3 == uart_write(UARTDR, DONE)
             text == w3 \o w2
             halt == <<i, Wfe>>
             tail == <<eoi, j, k>>
             r2 == w1 \o hex
             r3 == r2 \o w2
             r4 == r3 \o done
             r5 == r4 \o text
             real == r5 \o halt
             p2 == head \o real
             p3 == p2 \o tail
  <1>1. /\ guest_v3_puts(<<GOT_IRQ>>) = w1 /\ guest_v3_puts(<<LF>>) = w2
        /\ guest_v3_puts(<<DONE, LF>>) = text
    BY GuestPutsIs, Zenon
  <1>2. /\ Piece(w1, 2) /\ (Placed(w1, 108, 2) => WriteAt(108, UARTDR, GOT_IRQ))
        /\ Piece(w2, 2) /\ (Placed(w2, 114, 2) => WriteAt(114, UARTDR, LF))
        /\ Piece(w3, 2) /\ (Placed(w3, 117, 2) => WriteAt(117, UARTDR, DONE))
        /\ Placed(w2, 119, 2) => WriteAt(119, UARTDR, LF)
    BY WriteLayout
  <1> HIDE DEF a, b, c, d, e, f, g, eoi, i, j, k, w1, w2, w3
  <1>3. /\ Piece(head, 4)
        /\ Placed(head, 104, 4) => Image[105] = a /\ Image[106] = b /\ Image[107] = c /\ Image[108] = d
        /\ Piece(hex, 4)
        /\ Placed(hex, 110, 4) => Image[111] = e /\ Image[112] = f /\ Image[113] = g /\ Image[114] = f
    BY Listed4
  <1>4. Piece(done, 1) /\ (Placed(done, 116, 1) => Image[117] = eoi)
    BY Listed1
  <1>5. Piece(halt, 2) /\ (Placed(halt, 121, 2) => Image[122] = i /\ Image[123] = Wfe)
    BY Listed2
  <1>6. /\ Piece(tail, 3)
        /\ Placed(tail, 123, 3) => Image[124] = eoi /\ Image[125] = j /\ Image[126] = k
    BY Listed3
  <1> HIDE DEF head, hex, done, halt, tail
  <1>7. Piece(text, 4) /\ (Placed(text, 117, 4) => Placed(w3, 117, 2) /\ Placed(w2, 119, 2))
    BY <1>2, Peeled
  <1> HIDE DEF text
  <1>8. Piece(r2, 6) /\ (Placed(r2, 108, 6) => Placed(w1, 108, 2) /\ Placed(hex, 110, 4))
    BY <1>2, <1>3, Peeled
  <1> HIDE DEF r2
  <1>9. Piece(r3, 8) /\ (Placed(r3, 108, 8) => Placed(r2, 108, 6) /\ Placed(w2, 114, 2))
    BY <1>2, <1>8, Peeled
  <1> HIDE DEF r3
  <1>10. Piece(r4, 9) /\ (Placed(r4, 108, 9) => Placed(r3, 108, 8) /\ Placed(done, 116, 1))
    BY <1>4, <1>9, Peeled
  <1> HIDE DEF r4
  <1>11. Piece(r5, 13) /\ (Placed(r5, 108, 13) => Placed(r4, 108, 9) /\ Placed(text, 117, 4))
    BY <1>7, <1>10, Peeled
  <1> HIDE DEF r5
  <1>12. Piece(real, 15) /\ (Placed(real, 108, 15) => Placed(r5, 108, 13) /\ Placed(halt, 121, 2))
    BY <1>5, <1>11, Peeled
  <1> HIDE DEF real
  <1>13. Piece(p2, 19) /\ (Placed(p2, 104, 19) => Placed(head, 104, 4) /\ Placed(real, 108, 15))
    BY <1>3, <1>12, Peeled
  <1> HIDE DEF p2
  <1>14. Piece(p3, 22) /\ (Placed(p3, 104, 22) => Placed(p2, 104, 19) /\ Placed(tail, 123, 3))
    BY <1>6, <1>13, Peeled
  <1>15. guest_v3_irq_entry = p3
    <2>1. Len(real) = 15
      BY <1>12 DEF Piece
    <2> QED
      BY <1>1, <2>1 DEF guest_v3_irq_entry, p2, p3, real, r5, r4, r3, r2, head, hex, done, halt, tail,
                        a, b, c, d, e, f, g, eoi, i, j, k
  <1> HIDE DEF p3
  <1> QED
    BY <1>2, <1>3, <1>4, <1>5, <1>6, <1>7, <1>8, <1>9, <1>10, <1>11, <1>12, <1>13, <1>14, <1>15
    DEF a, b, c, d, e, f, g, eoi, i, j, k

\* The EL2 vector.
LEMMA HandlerLayout ==
  /\ Piece(gic_handle_physical_irq, 31)
  /\ Placed(gic_handle_physical_irq, 126, 31) =>
       /\ Image[127] = Sys("save_ctx", 0) /\ Image[128] = Sys("icc_iar1", 0)
       /\ Image[129] = Sys("b_hs_1020", 26) /\ Image[130] = Sys("b_ne_26", 5)
       /\ Image[131] = Sys("cnthp_disable", 0) /\ Image[132] = Sys("icc_eoir1", 0)
       /\ Image[133] = Sys("count", 0) /\ Image[134] = Sys("restore_ctx", 0) /\ Image[135] = Sys("eret", 0)
       /\ Image[136] = MovTo(1, PL011_BASE) /\ PutcAt(136, UNEXPECTED) /\ HexAt(140)
       /\ PutcAt(144, CR) /\ PutcAt(148, LF) /\ Image[153] = Sys("icc_eoir1", 0)
       /\ Image[154] = Sys("restore_ctx", 0) /\ Image[155] = Sys("eret", 0)
       /\ Image[156] = Sys("restore_ctx", 0) /\ Image[157] = Sys("eret", 0)
  <1> DEFINE a == Sys("save_ctx", 0)
             b == Sys("icc_iar1", 0)
             c == Sys("b_hs_1020", 26)
             d == Sys("b_ne_26", 5)
             e == Sys("cnthp_disable", 0)
             f == Sys("icc_eoir1", 0)
             g == Sys("count", 0)
             i == Sys("restore_ctx", 0)
             j == Sys("eret", 0)
             k == MovTo(1, PL011_BASE)
             head == <<a, b, c, d>>
             done == <<i, j>>
             work == <<e, f, g>>
             timer == work \o done
             base == <<k>>
             text == uart_puts(<<UNEXPECTED>>)
             lf == uart_puts(<<LF>>)
             eoi == <<f>>
             q2 == base \o text
             q3 == q2 \o uart_put_hex
             q4 == q3 \o lf
             q5 == q4 \o eoi
             other == q5 \o done
             p2 == head \o timer
             p3 == p2 \o other
             p4 == p3 \o done
  <1>1. /\ Piece(text, 4) /\ (Placed(text, 136, 4) => PutcAt(136, UNEXPECTED))
        /\ Piece(lf, 8) /\ (Placed(lf, 144, 8) => PutcAt(144, CR) /\ PutcAt(148, LF))
    <2>1. Piece(text, 4) /\ (Placed(text, 136, 4) => PutcAt(136, UNEXPECTED))
      BY Texts, PutsLayout
    <2>2. Piece(lf, 8) /\ (Placed(lf, 144, 8) => PutcAt(144, CR) /\ PutcAt(148, LF))
      BY EndLayout
    <2> QED
      BY <2>1, <2>2
  <1>2. Piece(uart_put_hex, 4) /\ (Placed(uart_put_hex, 140, 4) => HexAt(140))
    BY HexLayout
  <1> HIDE DEF a, b, c, d, e, f, g, i, j, k, text, lf
  <1>3. /\ Piece(head, 4)
        /\ Placed(head, 126, 4) => Image[127] = a /\ Image[128] = b /\ Image[129] = c /\ Image[130] = d
    BY Listed4
  <1>4. /\ Piece(work, 3)
        /\ Placed(work, 130, 3) => Image[131] = e /\ Image[132] = f /\ Image[133] = g
    BY Listed3
  <1>5. /\ Piece(done, 2)
        /\ Placed(done, 133, 2) => Image[134] = i /\ Image[135] = j
        /\ Placed(done, 153, 2) => Image[154] = i /\ Image[155] = j
        /\ Placed(done, 155, 2) => Image[156] = i /\ Image[157] = j
    BY Listed2
  <1>6. /\ Piece(base, 1) /\ (Placed(base, 135, 1) => Image[136] = k)
        /\ Piece(eoi, 1) /\ (Placed(eoi, 152, 1) => Image[153] = f)
    BY Listed1
  <1> HIDE DEF head, done, work, base, eoi
  <1>7. Piece(timer, 5) /\ (Placed(timer, 130, 5) => Placed(work, 130, 3) /\ Placed(done, 133, 2))
    BY <1>4, <1>5, Peeled
  <1> HIDE DEF timer
  <1>8. Piece(q2, 5) /\ (Placed(q2, 135, 5) => Placed(base, 135, 1) /\ Placed(text, 136, 4))
    BY <1>1, <1>6, Peeled
  <1> HIDE DEF q2
  <1>9. Piece(q3, 9) /\ (Placed(q3, 135, 9) => Placed(q2, 135, 5) /\ Placed(uart_put_hex, 140, 4))
    BY <1>2, <1>8, Peeled
  <1> HIDE DEF q3
  <1>10. Piece(q4, 17) /\ (Placed(q4, 135, 17) => Placed(q3, 135, 9) /\ Placed(lf, 144, 8))
    BY <1>1, <1>9, Peeled
  <1> HIDE DEF q4
  <1>11. Piece(q5, 18) /\ (Placed(q5, 135, 18) => Placed(q4, 135, 17) /\ Placed(eoi, 152, 1))
    BY <1>6, <1>10, Peeled
  <1> HIDE DEF q5
  <1>12. Piece(other, 20) /\ (Placed(other, 135, 20) => Placed(q5, 135, 18) /\ Placed(done, 153, 2))
    BY <1>5, <1>11, Peeled
  <1> HIDE DEF other
  <1>13. Piece(p2, 9) /\ (Placed(p2, 126, 9) => Placed(head, 126, 4) /\ Placed(timer, 130, 5))
    BY <1>3, <1>7, Peeled
  <1> HIDE DEF p2
  <1>14. Piece(p3, 29) /\ (Placed(p3, 126, 29) => Placed(p2, 126, 9) /\ Placed(other, 135, 20))
    BY <1>12, <1>13, Peeled
  <1> HIDE DEF p3
  <1>15. Piece(p4, 31) /\ (Placed(p4, 126, 31) => Placed(p3, 126, 29) /\ Placed(done, 155, 2))
    BY <1>5, <1>14, Peeled
  <1>16. gic_handle_physical_irq = p4
    <2>1. Len(timer) = 5 /\ Len(other) = 20
      BY <1>7, <1>12 DEF Piece
    <2>2. Len(timer) + Len(other) + 1 = 26
      BY <2>1
    <2>3. c = Sys("b_hs_1020", Len(timer) + Len(other) + 1) /\ d = Sys("b_ne_26", Len(timer))
      BY <2>1, <2>2 DEF c, d
    <2> HIDE DEF c, d
    <2> QED
      BY <2>3 DEF gic_handle_physical_irq, cnthp_disable, p4, p3, p2, other, q5, q4, q3, q2, timer, head, done,
                  work, base, eoi, a, b, e, f, g, i, j, k, text, lf
  <1> HIDE DEF p4
  <1> QED
    BY <1>1, <1>2, <1>3, <1>4, <1>5, <1>6, <1>7, <1>8, <1>9, <1>10, <1>11, <1>12, <1>13, <1>14, <1>15, <1>16
    DEF a, b, c, d, e, f, g, i, j, k

\* The image in memory.
LEMMA ImageLayout ==
  /\ Piece(Image, 157)
  /\ Placed(kmain, 0, 93) /\ Placed(guest_v3_start, 93, 11)
  /\ Placed(guest_v3_irq_entry, 104, 22) /\ Placed(gic_handle_physical_irq, 126, 31)
  /\ GUEST_V3_START = RAM_BASE + 4 * 93 /\ GUEST_V3_VECTORS = RAM_BASE + 4 * 104
  /\ VECTOR_EL2 = RAM_BASE + 4 * 126
  <1> DEFINE p2 == kmain \o guest_v3_start
             p3 == p2 \o guest_v3_irq_entry
             p4 == p3 \o gic_handle_physical_irq
  <1>1. Image = p4
    BY DEF Image
  <1>2. /\ Piece(kmain, 93) /\ Piece(guest_v3_start, 11)
        /\ Piece(guest_v3_irq_entry, 22) /\ Piece(gic_handle_physical_irq, 31)
    BY KmainLayout, GuestLayout, GuestIrqLayout, HandlerLayout, Zenon
  <1>3. Piece(p2, 104) /\ (Placed(p2, 0, 104) => Placed(kmain, 0, 93) /\ Placed(guest_v3_start, 93, 11))
    BY <1>2, Peeled
  <1> HIDE DEF p2
  <1>4. Piece(p3, 126) /\ (Placed(p3, 0, 126) => Placed(p2, 0, 104) /\ Placed(guest_v3_irq_entry, 104, 22))
    BY <1>2, <1>3, Peeled
  <1> HIDE DEF p3
  <1>5. Piece(p4, 157) /\ (Placed(p4, 0, 157) => Placed(p3, 0, 126) /\ Placed(gic_handle_physical_irq, 126, 31))
    BY <1>2, <1>4, Peeled
  <1> HIDE DEF p4
  <1>6. Placed(Image, 0, 157)
    BY DEF Placed
  <1>7. Len(kmain) = 93 /\ Len(guest_v3_start) = 11 /\ Len(guest_v3_irq_entry) = 22
    BY <1>2 DEF Piece
  <1>8. /\ GUEST_V3_START = RAM_BASE + 4 * 93 /\ GUEST_V3_VECTORS = RAM_BASE + 4 * 104
        /\ VECTOR_EL2 = RAM_BASE + 4 * 126
    BY <1>7, LayoutAssumption DEF GUEST_V3_START, GUEST_V3_VECTORS, VECTOR_EL2
  <1> QED
    BY <1>1, <1>3, <1>4, <1>5, <1>6, <1>8

\* Where an eret of kmain, an IRQ of the guest and one of EL2 go.
LEMMA EntriesAt == Entries
  BY ImageLayout, LayoutAssumption DEF Entries, Addr

-----------------------------------------------------------------------------
(* The listing.                                                            *)

\* The four words of uart_putc.
LEMMA PutcListed ==
  ASSUME NEW at \in Nat, at + 1 \in POLLS, at # 140, NEW c, Byte(at + 4) = c, PutcAt(at, c)
  PROVE  Lists(at + 1) /\ Lists(at + 2) /\ Lists(at + 3) /\ Lists(at + 4)
  <1>1. at + 2 = at + 1 + 1 /\ at + 3 + 1 = at + 4
    OBVIOUS
  <1>2. at + 4 \in PUTS \ {112, 114, 144}
    BY DEF POLLS, PUTS
  <1>3. /\ Image[at + 1] = Uart("ldr", 2, UARTFR) /\ Image[at + 2] = Sys("tbnz_txff", 0)
        /\ Image[at + 3] = MovTo(0, c) /\ Image[at + 4] = Uart("str", 0, UARTDR)
    BY DEF PutcAt
  <1>4. PlainWord(at + 1)
    BY <1>3 DEF PlainWord
  <1>5. PlainWord(at + 3)
    <2>1. at + 3 + 1 \in PUTS \ {112, 114, 144} /\ Image[at + 3] = MovTo(0, Byte(at + 3 + 1))
      BY <1>1, <1>2, <1>3
    <2> QED
      BY <2>1, Zenon DEF PlainWord
  <1>6. PlainWord(at + 4)
    BY <1>2, <1>3 DEF PlainWord
  <1>7. SysWord(at + 2)
    <2>1. at + 2 \in {p + 1 : p \in POLLS}
      BY <1>1
    <2> QED
      BY <1>3, <2>1 DEF SysWord, PollWord
  <1> QED
    BY <1>4, <1>5, <1>6, <1>7 DEF Lists

\* The three characters of a line.
LEMMA LineListed ==
  ASSUME NEW at \in {31, 46, 63, 79}, NEW c, LineAt(at, c),
         Byte(at + 4) = c, Byte(at + 8) = CR, Byte(at + 12) = LF
  PROVE  \A n \in (at + 1)..(at + 12) : Lists(n)
  <1>1. {at + 1, at + 4 + 1, at + 8 + 1} \subseteq POLLS
    BY DEF POLLS
  <1>2. PutcAt(at, c) /\ PutcAt(at + 4, CR) /\ PutcAt(at + 8, LF)
    BY DEF LineAt
  <1>3. Lists(at + 1) /\ Lists(at + 2) /\ Lists(at + 3) /\ Lists(at + 4)
    BY <1>1, <1>2, PutcListed
  <1>4. Lists(at + 4 + 1) /\ Lists(at + 4 + 2) /\ Lists(at + 4 + 3) /\ Lists(at + 4 + 4)
    <2>1. at + 4 \in Nat /\ at + 4 # 140 /\ Byte(at + 4 + 4) = CR
      OBVIOUS
    <2> QED
      BY <1>1, <1>2, <2>1, PutcListed
  <1>5. Lists(at + 8 + 1) /\ Lists(at + 8 + 2) /\ Lists(at + 8 + 3) /\ Lists(at + 8 + 4)
    <2>1. at + 8 \in Nat /\ at + 8 # 140 /\ Byte(at + 8 + 4) = LF
      OBVIOUS
    <2> QED
      BY <1>1, <1>2, <2>1, PutcListed
  <1> SUFFICES ASSUME NEW n \in (at + 1)..(at + 12)
               PROVE  Lists(n)
    OBVIOUS
  <1> QED
    BY <1>3, <1>4, <1>5

\* A byte of the guest's, which does not poll.
LEMMA WriteListed ==
  ASSUME NEW at \in {98, 100, 108, 114, 117, 119}, NEW c, WriteAt(at, UARTDR, c), Byte(at + 2) = c
  PROVE  Lists(at + 1) /\ Lists(at + 2)
  <1>1. at + 1 + 1 = at + 2
    OBVIOUS
  <1>2. at + 2 \in PUTS \ {112, 114, 144}
    BY DEF PUTS
  <1>3. Image[at + 1] = MovTo(0, c) /\ Image[at + 2] = Uart("str", 0, UARTDR)
    BY DEF WriteAt
  <1>4. PlainWord(at + 1)
    BY <1>1, <1>2, <1>3 DEF PlainWord
  <1>5. PlainWord(at + 2)
    BY <1>2, <1>3 DEF PlainWord
  <1> QED
    BY <1>4, <1>5 DEF Lists

\* The first line, the UART's set-up before it.
LEMMA ListsHello ==
  \A n \in 1..31 : Lists(n)
  <1>1. /\ Image[1] = MovTo(1, PL011_BASE) /\ Placed(uart_init, 1, 14)
        /\ PutcAt(15, HELLO) /\ PutcAt(19, 50) /\ PutcAt(23, CR) /\ PutcAt(27, LF)
    BY ImageLayout, KmainLayout
  <1>2. /\ Lists(16) /\ Lists(17) /\ Lists(18) /\ Lists(19)
        /\ Lists(20) /\ Lists(21) /\ Lists(22) /\ Lists(23)
        /\ Lists(24) /\ Lists(25) /\ Lists(26) /\ Lists(27)
        /\ Lists(28) /\ Lists(29) /\ Lists(30) /\ Lists(31)
    <2>1. {15 + 1, 19 + 1, 23 + 1, 27 + 1} \subseteq POLLS
      BY DEF POLLS
    <2>2. Byte(19) = HELLO /\ Byte(23) = 50 /\ Byte(27) = CR /\ Byte(31) = LF
      BY DEF Byte
    <2> QED
      BY <1>1, <2>1, <2>2, PutcListed
  <1>3. /\ WriteAt(1, UARTCR, 0) /\ WriteAt(3, UARTICR, \h7ff) /\ WriteAt(5, UARTIBRD, 26)
        /\ WriteAt(7, UARTFBRD, 3) /\ WriteAt(9, UARTLCR_H, \h70)
        /\ WriteAt(11, UARTIMSC, 0) /\ WriteAt(13, UARTCR, \h301)
    BY <1>1, InitLayout
  <1>4. ASSUME NEW p \in {2, 4, 6, 8, 10, 12, 14}, NEW reg \in STORED \cup {UARTICR},
               NEW v \in {0, 3, 26, \h70, \h301, \h7ff}, WriteAt(p - 1, reg, v)
        PROVE  Lists(p) /\ Lists(p + 1)
    <2>1. Image[p] = MovTo(0, v) /\ Image[p + 1] = Uart("str", 0, reg)
      BY <1>4 DEF WriteAt
    <2>2. PlainWord(p)
      BY <2>1 DEF PlainWord
    <2>3. PlainWord(p + 1)
      BY <2>1 DEF PlainWord
    <2> QED
      BY <2>2, <2>3 DEF Lists
  <1>5. /\ Lists(2) /\ Lists(3) /\ Lists(4) /\ Lists(5) /\ Lists(6) /\ Lists(7) /\ Lists(8)
        /\ Lists(9) /\ Lists(10) /\ Lists(11) /\ Lists(12) /\ Lists(13) /\ Lists(14) /\ Lists(15)
    <2>1. {UARTCR, UARTICR, UARTIBRD, UARTFBRD, UARTLCR_H, UARTIMSC} \subseteq STORED \cup {UARTICR}
      BY DEF STORED
    <2> QED
      BY <1>3, <1>4, <2>1
  <1>6. Lists(1)
    BY <1>1 DEF Lists, PlainWord
  <1> QED
    BY <1>2, <1>5, <1>6

\* The GIC's set-up.
LEMMA ListsGic ==
  \A n \in 32..75 : Lists(n)
  <1>1. /\ LineAt(31, GIC_INIT) /\ Image[44] = Sys("icc_sre", 0)
        /\ Image[45] = Sys("waker", 0) /\ Image[46] = Sys("spin", 12) /\ LineAt(46, TIMEOUT)
        /\ Image[59] = Sys("gicd_ctlr", 0) /\ Image[60] = Sys("ich_hcr", 0)
        /\ Image[61] = Sys("icc_pmr", 0) /\ Image[62] = Sys("icc_igrpen1", 0)
        /\ Image[63] = Sys("enable_ppi", IRQ_HTIMER_PPI) /\ LineAt(63, PPI_ON)
    BY ImageLayout, KmainLayout, GicInitLayout
  <1>2. Lists(44) /\ Lists(45) /\ Lists(59) /\ Lists(60) /\ Lists(61) /\ Lists(62) /\ Lists(63)
    BY <1>1 DEF Lists, SysWord, WriteWord
  <1>3. Lists(46)
    BY <1>1 DEF Lists, SysWord, OtherWord
  <1>4. /\ Byte(35) = GIC_INIT /\ Byte(39) = CR /\ Byte(43) = LF
        /\ Byte(50) = TIMEOUT /\ Byte(54) = CR /\ Byte(58) = LF
        /\ Byte(67) = PPI_ON /\ Byte(71) = CR /\ Byte(75) = LF
    BY DEF Byte
  <1>5. \A n \in 32..43 : Lists(n)
    BY <1>1, <1>4, LineListed
  <1>6. \A n \in 47..58 : Lists(n)
    BY <1>1, <1>4, LineListed
  <1>7. \A n \in 64..75 : Lists(n)
    BY <1>1, <1>4, LineListed
  <1> QED
    BY <1>2, <1>3, <1>5, <1>6, <1>7

\* The way into the guest.
LEMMA ListsEret ==
  \A n \in 76..93 : Lists(n)
  <1>1. /\ Image[76] = Sys("hcr_imo", 0) /\ Image[77] = Sys("ich_hcr", 0) /\ Image[78] = Sys("ich_vmcr", 0)
        /\ Image[79] = Sys("ich_lr0", VINTID) /\ LineAt(79, LR0_LOADED)
        /\ Image[92] = Sys("elr_el2", 0) /\ Image[93] = Sys("eret", 0)
    BY ImageLayout, KmainLayout, EretLayout
  <1>2. Lists(76) /\ Lists(77) /\ Lists(78) /\ Lists(79) /\ Lists(92)
    BY <1>1 DEF Lists, SysWord, WriteWord
  <1>3. Lists(93)
    BY <1>1 DEF Lists, SysWord, OtherWord
  <1>4. Byte(83) = LR0_LOADED /\ Byte(87) = CR /\ Byte(91) = LF
    BY DEF Byte
  <1>5. \A n \in 80..91 : Lists(n)
    BY <1>1, <1>4, LineListed
  <1> QED
    BY <1>2, <1>3, <1>5

\* The guest.
LEMMA ListsGuest ==
  \A n \in 94..104 : Lists(n)
  <1>1. /\ Image[94] = Sys("vbar_el1", 0) /\ Image[95] = Sys("icc_sre", 0) /\ Image[96] = Sys("icc_pmr", 0)
        /\ Image[97] = Sys("icc_igrpen1", 0) /\ Image[98] = MovTo(1, PL011_BASE)
        /\ WriteAt(98, UARTDR, BANNER) /\ WriteAt(100, UARTDR, LF)
        /\ Image[103] = Sys("daifclr", 0) /\ Image[104] = Wfe
    BY ImageLayout, GuestLayout
  <1>2. Lists(94) /\ Lists(95) /\ Lists(96) /\ Lists(97) /\ Lists(103)
    BY <1>1 DEF Lists, SysWord, WriteWord
  <1>3. Lists(98) /\ Lists(104)
    BY <1>1 DEF Lists, PlainWord
  <1>4. Byte(100) = BANNER /\ Byte(102) = LF
    BY DEF Byte
  <1>5. Lists(99) /\ Lists(100) /\ Lists(101) /\ Lists(102)
    BY <1>1, <1>4, WriteListed
  <1> QED
    BY <1>2, <1>3, <1>5

\* Its interrupt handler.
LEMMA ListsGuestIrq ==
  \A n \in 105..126 : Lists(n)
  <1>1. /\ Image[105] = Sys("push", 0) /\ Image[106] = MovTo(1, PL011_BASE)
        /\ Image[107] = Sys("icc_iar1", 0) /\ Image[108] = Sys("b_eq_1023", 15)
        /\ WriteAt(108, UARTDR, GOT_IRQ)
        /\ Image[111] = Sys("nibble", 16) /\ Image[112] = Uart("str", 0, UARTDR)
        /\ Image[113] = Sys("nibble", 1) /\ Image[114] = Uart("str", 0, UARTDR)
        /\ WriteAt(114, UARTDR, LF) /\ Image[117] = Sys("icc_eoir1", 0)
        /\ WriteAt(117, UARTDR, DONE) /\ WriteAt(119, UARTDR, LF)
        /\ Image[122] = Sys("daifset", 0) /\ Image[123] = Wfe
        /\ Image[124] = Sys("icc_eoir1", 0) /\ Image[125] = Sys("pop", 0) /\ Image[126] = Sys("eret", 0)
    BY ImageLayout, GuestIrqLayout
  <1>2. Lists(105) /\ Lists(111) /\ Lists(113) /\ Lists(125)
    BY <1>1 DEF Lists, SysWord, MoveWord
  <1>3. Lists(107) /\ Lists(117) /\ Lists(124) /\ Lists(126)
    BY <1>1 DEF Lists, SysWord, OtherWord
  <1>4. Lists(108)
    BY <1>1 DEF Lists, SysWord, BranchWord
  <1>5. Lists(122)
    BY <1>1 DEF Lists, SysWord, WriteWord
  <1>6. Lists(106) /\ Lists(112) /\ Lists(114) /\ Lists(123)
    <2>1. 112 \in PUTS /\ 114 \in PUTS
      BY DEF PUTS
    <2>2. PlainWord(106)
      BY <1>1 DEF PlainWord
    <2>3. PlainWord(123)
      <3>1. Image[123] = Wfe
        BY <1>1
      <3> QED
        BY <3>1 DEF PlainWord
    <2>4. PlainWord(112)
      BY <1>1, <2>1 DEF PlainWord
    <2>5. PlainWord(114)
      BY <1>1, <2>1 DEF PlainWord
    <2> QED
      BY <2>2, <2>4, <2>5, <2>3 DEF Lists
  <1>7. Byte(110) = GOT_IRQ /\ Byte(116) = LF /\ Byte(119) = DONE /\ Byte(121) = LF
    BY DEF Byte
  <1>8. /\ Lists(109) /\ Lists(110) /\ Lists(115) /\ Lists(116)
        /\ Lists(118) /\ Lists(119) /\ Lists(120) /\ Lists(121)
    <2>1. /\ WriteAt(108, UARTDR, GOT_IRQ) /\ WriteAt(114, UARTDR, LF)
          /\ WriteAt(117, UARTDR, DONE) /\ WriteAt(119, UARTDR, LF)
      BY <1>1
    <2> QED
      BY <1>7, <2>1, WriteListed
  <1> QED
    BY <1>2, <1>3, <1>4, <1>5, <1>6, <1>8

\* The handler at EL2.
LEMMA ListsHandler ==
  \A n \in 127..157 : Lists(n)
  <1>1. /\ Image[127] = Sys("save_ctx", 0) /\ Image[128] = Sys("icc_iar1", 0)
        /\ Image[129] = Sys("b_hs_1020", 26) /\ Image[130] = Sys("b_ne_26", 5)
        /\ Image[131] = Sys("cnthp_disable", 0) /\ Image[132] = Sys("icc_eoir1", 0)
        /\ Image[133] = Sys("count", 0) /\ Image[134] = Sys("restore_ctx", 0) /\ Image[135] = Sys("eret", 0)
        /\ Image[136] = MovTo(1, PL011_BASE) /\ PutcAt(136, UNEXPECTED) /\ HexAt(140)
        /\ PutcAt(144, CR) /\ PutcAt(148, LF) /\ Image[153] = Sys("icc_eoir1", 0)
        /\ Image[154] = Sys("restore_ctx", 0) /\ Image[155] = Sys("eret", 0)
        /\ Image[156] = Sys("restore_ctx", 0) /\ Image[157] = Sys("eret", 0)
    BY ImageLayout, HandlerLayout
  <1>2. /\ Lists(127) /\ Lists(128) /\ Lists(132) /\ Lists(134) /\ Lists(135) /\ Lists(153)
        /\ Lists(154) /\ Lists(155) /\ Lists(156) /\ Lists(157)
    BY <1>1 DEF Lists, SysWord, OtherWord
  <1>3. Lists(129) /\ Lists(130)
    BY <1>1 DEF Lists, SysWord, BranchWord
  <1>4. Lists(131) /\ Lists(133)
    BY <1>1 DEF Lists, SysWord, WriteWord
  <1>5. {137, 141, 145, 149} \subseteq POLLS
    BY DEF POLLS
  <1>6. Lists(136)
    BY <1>1 DEF Lists, PlainWord
  <1>7. /\ Lists(137) /\ Lists(138) /\ Lists(139) /\ Lists(140)
        /\ Lists(145) /\ Lists(146) /\ Lists(147) /\ Lists(148)
        /\ Lists(149) /\ Lists(150) /\ Lists(151) /\ Lists(152)
    <2>1. Byte(140) = UNEXPECTED /\ Byte(148) = CR /\ Byte(152) = LF
      BY DEF Byte
    <2>2. PutcAt(136, UNEXPECTED) /\ PutcAt(144, CR) /\ PutcAt(148, LF)
      BY <1>1
    <2> QED
      BY <1>5, <2>1, <2>2, PutcListed
  <1>8. Lists(141) /\ Lists(142) /\ Lists(143) /\ Lists(144)
    <2>1. /\ Image[141] = Uart("ldr", 2, UARTFR) /\ Image[142] = Sys("tbnz_txff", 0)
          /\ Image[143] = Sys("mov_x0_x19", 0) /\ Image[144] = Uart("str", 0, UARTDR)
      <3>1. HexAt(140)
        BY <1>1
      <3>2. 140 + 1 = 141 /\ 140 + 2 = 142 /\ 140 + 3 = 143 /\ 140 + 4 = 144
        OBVIOUS
      <3>3. /\ Image[140 + 1] = Uart("ldr", 2, UARTFR) /\ Image[140 + 2] = Sys("tbnz_txff", 0)
            /\ Image[140 + 3] = Sys("mov_x0_x19", 0) /\ Image[140 + 4] = Uart("str", 0, UARTDR)
        BY <3>1 DEF HexAt
      <3> QED
        BY <3>2, <3>3
    <2>2. 144 \in PUTS
      BY DEF PUTS
    <2>3. PlainWord(141)
      <3>1. 141 \in POLLS /\ Image[141] = Uart("ldr", 2, UARTFR)
        BY <1>5, <2>1
      <3> QED
        BY <3>1, Zenon DEF PlainWord
    <2>4. PlainWord(144)
      BY <2>1, <2>2 DEF PlainWord
    <2>5. 142 \in {p + 1 : p \in POLLS}
      BY <1>5
    <2>6. Lists(142)
      BY <2>1, <2>5 DEF Lists, SysWord, PollWord
    <2>7. Lists(143)
      BY <2>1 DEF Lists, SysWord, MoveWord
    <2> QED
      BY <2>6, <2>7, <2>3, <2>4 DEF Lists
  <1> QED
    BY <1>2, <1>3, <1>4, <1>6, <1>7, <1>8

\* The listing is the image.
LEMMA Listing ==
  \A n \in 1..157 : Lists(n)
  <1> SUFFICES ASSUME NEW n \in 1..157
               PROVE  Lists(n)
    OBVIOUS
  <1>1. CASE n <= 75
    BY <1>1, ListsHello, ListsGic
  <1>2. CASE n \in 76..104
    BY <1>2, ListsEret, ListsGuest
  <1>3. CASE n >= 105
    BY <1>3, ListsGuestIrq, ListsHandler
  <1> QED
    BY <1>1, <1>2, <1>3

\* A byte of a text, or an INTID, gets through the mask for the access size.
LEMMA SmallMasked ==
  ASSUME NEW v \in Int, v >= 0, v < 1020
  PROVE  Masked(v, 2) = v
  <1> DEFINE b2 == BYTE * BYTE
             b3 == b2 * BYTE
             b4 == b3 * BYTE
  <1>1. BYTE \in Nat /\ BYTE > 97
    BY ByteAssumption, Stage4Assumption
  <1>2. b2 \in Nat /\ b2 > 1020
    <2>1. b2 \in Nat /\ b2 >= 98 * BYTE
      BY <1>1
    <2> HIDE DEF b2
    <2> QED
      BY <1>1, <2>1
  <1> HIDE DEF b2
  <1>3. b3 \in Nat /\ b3 >= b2
    BY <1>1, <1>2
  <1> HIDE DEF b3
  <1>4. b4 \in Nat /\ b4 >= b3
    BY <1>1, <1>2, <1>3
  <1>5. Masked(v, 2) = v % b4
    BY DEF Masked, b4, b3, b2
  <1> HIDE DEF b4
  <1> QED
    BY <1>2, <1>3, <1>4, <1>5

\* The bytes, word by word.
LEMMA Bytes ==
  /\ Byte(19) = HELLO /\ Byte(23) = 50 /\ Byte(27) = CR /\ Byte(31) = LF
  /\ Byte(35) = GIC_INIT /\ Byte(39) = CR /\ Byte(43) = LF /\ Byte(50) = TIMEOUT
  /\ Byte(54) = CR /\ Byte(58) = LF /\ Byte(67) = PPI_ON /\ Byte(71) = CR
  /\ Byte(75) = LF /\ Byte(83) = LR0_LOADED /\ Byte(87) = CR /\ Byte(91) = LF
  /\ Byte(100) = BANNER /\ Byte(102) = LF /\ Byte(110) = GOT_IRQ /\ Byte(112) = 50
  /\ Byte(114) = 97 /\ Byte(116) = LF /\ Byte(119) = DONE /\ Byte(121) = LF
  /\ Byte(140) = UNEXPECTED /\ Byte(148) = CR /\ Byte(152) = LF
  <1>1. Byte(19) = HELLO
    BY DEF Byte
  <1>2. Byte(23) = 50
    BY DEF Byte
  <1>3. Byte(27) = CR
    BY DEF Byte
  <1>4. Byte(31) = LF
    BY DEF Byte
  <1>5. Byte(35) = GIC_INIT
    BY DEF Byte
  <1>6. Byte(39) = CR
    BY DEF Byte
  <1>7. Byte(43) = LF
    BY DEF Byte
  <1>8. Byte(50) = TIMEOUT
    BY DEF Byte
  <1>9. Byte(54) = CR
    BY DEF Byte
  <1>10. Byte(58) = LF
    BY DEF Byte
  <1>11. Byte(67) = PPI_ON
    BY DEF Byte
  <1>12. Byte(71) = CR
    BY DEF Byte
  <1>13. Byte(75) = LF
    BY DEF Byte
  <1>14. Byte(83) = LR0_LOADED
    BY DEF Byte
  <1>15. Byte(87) = CR
    BY DEF Byte
  <1>16. Byte(91) = LF
    BY DEF Byte
  <1>17. Byte(100) = BANNER
    BY DEF Byte
  <1>18. Byte(102) = LF
    BY DEF Byte
  <1>19. Byte(110) = GOT_IRQ
    BY DEF Byte
  <1>20. Byte(112) = 50
    BY DEF Byte
  <1>21. Byte(114) = 97
    BY DEF Byte
  <1>22. Byte(116) = LF
    BY DEF Byte
  <1>23. Byte(119) = DONE
    BY DEF Byte
  <1>24. Byte(121) = LF
    BY DEF Byte
  <1>25. Byte(140) = UNEXPECTED
    BY DEF Byte
  <1>26. Byte(148) = CR
    BY DEF Byte
  <1>27. Byte(152) = LF
    BY DEF Byte
  <1> QED
    BY <1>1, <1>2, <1>3, <1>4, <1>5, <1>6, <1>7, <1>8, <1>9, <1>10, <1>11, <1>12, <1>13, <1>14, <1>15, <1>16, <1>17, <1>18, <1>19, <1>20, <1>21, <1>22, <1>23, <1>24, <1>25, <1>26, <1>27

\* What a text is made of is a byte.
LEMMA ByteSmall ==
  /\ \A n \in PUTS \ {144} : Byte(n) \in Int /\ Byte(n) >= 0 /\ Byte(n) <= 97
  /\ \A n \in PUTS \ {144} : Masked(Byte(n), 2) % BYTE = Byte(n)
  <1>1. ASSUME NEW n \in PUTS \ {144}
        PROVE  Byte(n) \in Int /\ Byte(n) >= 0 /\ Byte(n) <= 97
    BY <1>1, Bytes DEF PUTS, HELLO, GIC_INIT, TIMEOUT, PPI_ON, LR0_LOADED, BANNER, GOT_IRQ, DONE, UNEXPECTED, CR, LF
  <1>2. ASSUME NEW n \in PUTS \ {144}
        PROVE  Masked(Byte(n), 2) % BYTE = Byte(n)
    <2>1. Masked(Byte(n), 2) = Byte(n)
      BY <1>1, <1>2, SmallMasked
    <2>2. BYTE \in Nat /\ BYTE > 97
      BY ByteAssumption, Stage4Assumption
    <2> QED
      BY <1>1, <1>2, <2>1, <2>2
  <1> QED
    BY <1>1, <1>2

-----------------------------------------------------------------------------
(* The texts.                                                              *)

\* A line of one byte, and its end.
LEMMA LineIs ==
  ASSUME NEW p
  PROVE  LET t == Line(<<p>>) IN Piece(t, 3) /\ t[1] = p /\ t[2] = CR /\ t[3] = LF
  <1> DEFINE a == <<p>>
             b == <<CR, LF>>
             t == a \o b
  <1>1. Piece(a, 1) /\ Piece(b, 2)
    BY Listed1, Listed2
  <1>2. Chain(t, a, 1, b, 2)
    BY <1>1, Joined
  <1>3. Piece(t, 3) /\ t[1] = a[1] /\ t[2] = b[1] /\ t[3] = b[2]
    <2> HIDE DEF t, a, b
    <2>1. 1 \in 1..1 /\ 1 \in 1..2 /\ 2 \in 1..2
      OBVIOUS
    <2> QED
      BY <1>2, <2>1 DEF Chain
  <1> QED
    BY <1>3 DEF Line

\* The first line, which has two bytes before its end.
LEMMA HelloIs ==
  LET t == Line(<<HELLO, 50>>) IN Piece(t, 4) /\ t[1] = HELLO /\ t[2] = 50 /\ t[3] = CR /\ t[4] = LF
  <1> DEFINE a == <<HELLO, 50>>
             b == <<CR, LF>>
             t == a \o b
  <1>1. Piece(a, 2) /\ Piece(b, 2)
    BY Listed2
  <1>2. Chain(t, a, 2, b, 2)
    BY <1>1, Joined
  <1>3. Piece(t, 4) /\ t[1] = a[1] /\ t[2] = a[2] /\ t[3] = b[1] /\ t[4] = b[2]
    <2> HIDE DEF t, a, b
    <2>1. 1 \in 1..2 /\ 2 \in 1..2
      OBVIOUS
    <2> QED
      BY <1>2, <2>1 DEF Chain
  <1> QED
    BY <1>3 DEF Line

\* A text goes on with a line.
WithLine(c, a, j, p) ==
  /\ Piece(c, j + 3) /\ c[j + 1] = p /\ c[j + 2] = CR /\ c[j + 3] = LF
  /\ \A i \in 1..j : c[i] = a[i]

\* What uart_puts adds to a text.
LEMMA GoesOn ==
  ASSUME NEW a, NEW j \in Nat, Piece(a, j), NEW p, NEW c, c = a \o Line(<<p>>)
  PROVE  WithLine(c, a, j, p)
  <1> DEFINE b == Line(<<p>>)
  <1>1. Piece(b, 3) /\ b[1] = p /\ b[2] = CR /\ b[3] = LF
    BY LineIs
  <1>2. c = a \o b
    OBVIOUS
  <1> HIDE DEF b
  <1>3. Chain(c, a, j, b, 3)
    BY <1>2, <1>1, Joined, Zenon
  <1>4. 1 \in 1..3 /\ 2 \in 1..3 /\ 3 \in 1..3
    OBVIOUS
  <1> QED
    BY <1>1, <1>3, <1>4 DEF Chain, WithLine

\* The guest's lines come last.
Guest8 == <<BANNER, LF, GOT_IRQ, 50, 97, LF, DONE, LF>>
WithGuest(c, a, j) ==
  /\ Piece(c, j + 8) /\ c[j + 1] = BANNER /\ c[j + 2] = LF /\ c[j + 3] = GOT_IRQ /\ c[j + 4] = 50
  /\ c[j + 5] = 97 /\ c[j + 6] = LF /\ c[j + 7] = DONE /\ c[j + 8] = LF
  /\ \A i \in 1..j : c[i] = a[i]

\* What the guest's prints add to a text.
LEMMA Ends ==
  ASSUME NEW a, NEW j \in Nat, Piece(a, j), NEW c, c = a \o Guest8
  PROVE  WithGuest(c, a, j)
  <1> DEFINE b == Guest8
  <1>1. Piece(b, 8)
    <2>1. b \in Seq(Int) /\ Len(b) = 8
      BY DEF Guest8, BANNER, LF, GOT_IRQ, DONE
    <2> QED
      BY <2>1 DEF Piece
  <1>2. /\ b[1] = BANNER /\ b[2] = LF /\ b[3] = GOT_IRQ /\ b[4] = 50
        /\ b[5] = 97 /\ b[6] = LF /\ b[7] = DONE /\ b[8] = LF
    BY DEF Guest8
  <1>3. c = a \o b
    OBVIOUS
  <1> HIDE DEF b
  <1>4. Chain(c, a, j, b, 8)
    BY <1>3, <1>1, Joined, Zenon
  <1>5. {1, 2, 3, 4, 5, 6, 7, 8} \subseteq 1..8
    OBVIOUS
  <1> QED
    BY <1>2, <1>4, <1>5 DEF Chain, WithGuest

\* The text up to the time-out.
LEMMA BeginningIs ==
  LET t == Line(<<HELLO, 50>>) \o Line(<<GIC_INIT>>) IN
  Piece(t, 7) /\ t[1] = HELLO /\ t[2] = 50 /\ t[3] = CR /\ t[4] = LF /\ t[5] = GIC_INIT /\ t[6] = CR /\ t[7] = LF
  <1> DEFINE a == Line(<<HELLO, 50>>)
             t == a \o Line(<<GIC_INIT>>)
  <1>1. Piece(a, 4) /\ a[1] = HELLO /\ a[2] = 50 /\ a[3] = CR /\ a[4] = LF
    BY HelloIs
  <1> HIDE DEF a
  <1>2. 4 \in Nat /\ t = a \o Line(<<GIC_INIT>>)
    OBVIOUS
  <1> HIDE DEF t
  <1>3. /\ Piece(t, 4 + 3) /\ t[4 + 1] = GIC_INIT /\ t[4 + 2] = CR /\ t[4 + 3] = LF
        /\ \A i \in 1..4 : t[i] = a[i]
    <2>1. WithLine(t, a, 4, GIC_INIT)
      BY <1>2, <1>1, GoesOn
    <2> QED
      BY <2>1 DEF WithLine
  <1>4. {1, 2, 3, 4} \subseteq 1..4
    OBVIOUS
  <1>5. Piece(t, 7) /\ t[1] = HELLO /\ t[2] = 50 /\ t[3] = CR /\ t[4] = LF /\ t[5] = GIC_INIT /\ t[6] = CR /\ t[7] = LF
    BY <1>1, <1>3, <1>4
  <1> QED
    BY <1>5 DEF t, a

\* What follows it, behind j bytes.
LEMMA RestIs ==
  ASSUME NEW a, NEW j \in {7, 10}, Piece(a, j)
  PROVE  LET t == a \o Line(<<PPI_ON>>) \o Line(<<LR0_LOADED>>) \o Guest8 IN
         /\ Piece(t, j + 14) /\ \A i \in 1..j : t[i] = a[i]
         /\ t[j + 1] = PPI_ON /\ t[j + 2] = CR /\ t[j + 3] = LF
         /\ t[j + 4] = LR0_LOADED /\ t[j + 5] = CR /\ t[j + 6] = LF
         /\ t[j + 7] = BANNER /\ t[j + 8] = LF /\ t[j + 9] = GOT_IRQ /\ t[j + 10] = 50
         /\ t[j + 11] = 97 /\ t[j + 12] = LF /\ t[j + 13] = DONE /\ t[j + 14] = LF
  <1> DEFINE b == a \o Line(<<PPI_ON>>)
             c == b \o Line(<<LR0_LOADED>>)
             t == c \o Guest8
  <1>1. j \in Nat /\ b = a \o Line(<<PPI_ON>>)
    OBVIOUS
  <1>2. c = b \o Line(<<LR0_LOADED>>)
    OBVIOUS
  <1>3. t = c \o Guest8
    OBVIOUS
  <1> HIDE DEF t, c, b
  <1>4. /\ Piece(b, j + 3) /\ b[j + 1] = PPI_ON /\ b[j + 2] = CR /\ b[j + 3] = LF
        /\ \A i \in 1..j : b[i] = a[i]
    <2>1. WithLine(b, a, j, PPI_ON)
      BY <1>1, GoesOn
    <2> QED
      BY <2>1 DEF WithLine
  <1>5. /\ Piece(c, j + 3 + 3) /\ c[j + 3 + 1] = LR0_LOADED /\ c[j + 3 + 2] = CR /\ c[j + 3 + 3] = LF
        /\ \A i \in 1..(j + 3) : c[i] = b[i]
    <2>1. j + 3 \in Nat
      OBVIOUS
    <2>2. WithLine(c, b, j + 3, LR0_LOADED)
      BY <1>4, <1>2, <2>1, GoesOn
    <2> QED
      BY <2>2 DEF WithLine
  <1>6. /\ Piece(c, j + 6) /\ c[j + 4] = LR0_LOADED /\ c[j + 5] = CR /\ c[j + 6] = LF
    BY <1>5
  <1>7. /\ Piece(t, j + 6 + 8) /\ t[j + 6 + 1] = BANNER /\ t[j + 6 + 2] = LF /\ t[j + 6 + 3] = GOT_IRQ
        /\ t[j + 6 + 4] = 50 /\ t[j + 6 + 5] = 97 /\ t[j + 6 + 6] = LF /\ t[j + 6 + 7] = DONE /\ t[j + 6 + 8] = LF
        /\ \A i \in 1..(j + 6) : t[i] = c[i]
    <2>1. j + 6 \in Nat
      OBVIOUS
    <2>2. WithGuest(t, c, j + 6)
      BY <1>6, <1>3, <2>1, Ends
    <2> QED
      BY <2>2 DEF WithGuest
  <1>8. /\ Piece(t, j + 14) /\ t[j + 7] = BANNER /\ t[j + 8] = LF /\ t[j + 9] = GOT_IRQ /\ t[j + 10] = 50
        /\ t[j + 11] = 97 /\ t[j + 12] = LF /\ t[j + 13] = DONE /\ t[j + 14] = LF
    BY <1>7
  <1>9. {j + 1, j + 2, j + 3} \subseteq 1..(j + 3) /\ 1..j \subseteq 1..(j + 3) /\ 1..(j + 3) \subseteq 1..(j + 6)
        /\ {j + 4, j + 5, j + 6} \subseteq 1..(j + 6)
    OBVIOUS
  <1>10. t[j + 1] = PPI_ON /\ t[j + 2] = CR /\ t[j + 3] = LF
    BY <1>4, <1>5, <1>7, <1>9
  <1>11. t[j + 4] = LR0_LOADED /\ t[j + 5] = CR /\ t[j + 6] = LF
    BY <1>6, <1>7, <1>9
  <1>12. \A i \in 1..j : t[i] = a[i]
    BY <1>4, <1>5, <1>7, <1>9
  <1>13. /\ Piece(t, j + 14) /\ \A i \in 1..j : t[i] = a[i]
         /\ t[j + 1] = PPI_ON /\ t[j + 2] = CR /\ t[j + 3] = LF
         /\ t[j + 4] = LR0_LOADED /\ t[j + 5] = CR /\ t[j + 6] = LF
         /\ t[j + 7] = BANNER /\ t[j + 8] = LF /\ t[j + 9] = GOT_IRQ /\ t[j + 10] = 50
         /\ t[j + 11] = 97 /\ t[j + 12] = LF /\ t[j + 13] = DONE /\ t[j + 14] = LF
    BY <1>8, <1>10, <1>11, <1>12
  <1> QED
    BY <1>13 DEF t, c, b

\* All of the text without a time-out, and with one.
LEMMA PlainText ==
  LET t == Expected(FALSE) IN
  /\ Len(t) = 21
  /\ t[1] = HELLO /\ t[2] = 50 /\ t[3] = CR /\ t[4] = LF /\ t[5] = GIC_INIT /\ t[6] = CR /\ t[7] = LF
  /\ t[8] = PPI_ON /\ t[9] = CR /\ t[10] = LF /\ t[11] = LR0_LOADED /\ t[12] = CR /\ t[13] = LF
  /\ t[14] = BANNER /\ t[15] = LF /\ t[16] = GOT_IRQ /\ t[17] = 50
  /\ t[18] = 97 /\ t[19] = LF /\ t[20] = DONE /\ t[21] = LF
  <1> DEFINE h == Line(<<HELLO, 50>>) \o Line(<<GIC_INIT>>)
             a == h \o <<>>
             t == a \o Line(<<PPI_ON>>) \o Line(<<LR0_LOADED>>) \o Guest8
  <1>1. Expected(FALSE) = t
    BY DEF Expected, Guest8
  <1>2. /\ Piece(h, 7) /\ h[1] = HELLO /\ h[2] = 50 /\ h[3] = CR /\ h[4] = LF
        /\ h[5] = GIC_INIT /\ h[6] = CR /\ h[7] = LF
    BY BeginningIs
  <1> HIDE DEF h
  <1>3. Piece(a, 7) /\ \A i \in 1..7 : a[i] = h[i]
    <2>1. Piece(<<>>, 0)
      BY DEF Piece
    <2>2. Chain(a, h, 7, <<>>, 0)
      BY <1>2, <2>1, Joined
    <2> HIDE DEF a
    <2> QED
      BY <2>2 DEF Chain
  <1> HIDE DEF a
  <1>4. /\ Piece(t, 7 + 14) /\ \A i \in 1..7 : t[i] = a[i]
        /\ t[7 + 1] = PPI_ON /\ t[7 + 2] = CR /\ t[7 + 3] = LF
        /\ t[7 + 4] = LR0_LOADED /\ t[7 + 5] = CR /\ t[7 + 6] = LF
        /\ t[7 + 7] = BANNER /\ t[7 + 8] = LF /\ t[7 + 9] = GOT_IRQ /\ t[7 + 10] = 50
        /\ t[7 + 11] = 97 /\ t[7 + 12] = LF /\ t[7 + 13] = DONE /\ t[7 + 14] = LF
    BY <1>3, RestIs, Zenon
  <1> HIDE DEF t
  <1>5. {1, 2, 3, 4, 5, 6, 7} \subseteq 1..7
    OBVIOUS
  <1>6. t[1] = HELLO /\ t[2] = 50 /\ t[3] = CR /\ t[4] = LF /\ t[5] = GIC_INIT /\ t[6] = CR /\ t[7] = LF
    BY <1>2, <1>3, <1>4, <1>5
  <1>7. /\ Len(t) = 21
        /\ t[8] = PPI_ON /\ t[9] = CR /\ t[10] = LF /\ t[11] = LR0_LOADED /\ t[12] = CR /\ t[13] = LF
        /\ t[14] = BANNER /\ t[15] = LF /\ t[16] = GOT_IRQ /\ t[17] = 50
        /\ t[18] = 97 /\ t[19] = LF /\ t[20] = DONE /\ t[21] = LF
    BY <1>4 DEF Piece
  <1> QED
    BY <1>1, <1>6, <1>7, Zenon

\* All of the text with the line that wake_redistributor prints after 10000
\* polls.
LEMMA TimeoutText ==
  LET t == Expected(TRUE) IN
  /\ Len(t) = 24
  /\ t[1] = HELLO /\ t[2] = 50 /\ t[3] = CR /\ t[4] = LF /\ t[5] = GIC_INIT /\ t[6] = CR /\ t[7] = LF
  /\ t[8] = TIMEOUT /\ t[9] = CR /\ t[10] = LF
  /\ t[11] = PPI_ON /\ t[12] = CR /\ t[13] = LF /\ t[14] = LR0_LOADED /\ t[15] = CR /\ t[16] = LF
  /\ t[17] = BANNER /\ t[18] = LF /\ t[19] = GOT_IRQ /\ t[20] = 50
  /\ t[21] = 97 /\ t[22] = LF /\ t[23] = DONE /\ t[24] = LF
  <1> DEFINE h == Line(<<HELLO, 50>>) \o Line(<<GIC_INIT>>)
             a == h \o Line(<<TIMEOUT>>)
             t == a \o Line(<<PPI_ON>>) \o Line(<<LR0_LOADED>>) \o Guest8
  <1>1. Expected(TRUE) = t
    BY DEF Expected, Guest8
  <1>2. /\ Piece(h, 7) /\ h[1] = HELLO /\ h[2] = 50 /\ h[3] = CR /\ h[4] = LF
        /\ h[5] = GIC_INIT /\ h[6] = CR /\ h[7] = LF
    BY BeginningIs
  <1> HIDE DEF h
  <1>3. /\ Piece(a, 7 + 3) /\ a[7 + 1] = TIMEOUT /\ a[7 + 2] = CR /\ a[7 + 3] = LF
        /\ \A i \in 1..7 : a[i] = h[i]
    <2>1. 7 \in Nat /\ a = h \o Line(<<TIMEOUT>>)
      OBVIOUS
    <2> HIDE DEF a
    <2>2. WithLine(a, h, 7, TIMEOUT)
      BY <1>2, <2>1, GoesOn
    <2> QED
      BY <2>2 DEF WithLine
  <1> HIDE DEF a
  <1>4. Piece(a, 10) /\ a[8] = TIMEOUT /\ a[9] = CR /\ a[10] = LF
    BY <1>3
  <1>5. /\ Piece(t, 10 + 14) /\ \A i \in 1..10 : t[i] = a[i]
        /\ t[10 + 1] = PPI_ON /\ t[10 + 2] = CR /\ t[10 + 3] = LF
        /\ t[10 + 4] = LR0_LOADED /\ t[10 + 5] = CR /\ t[10 + 6] = LF
        /\ t[10 + 7] = BANNER /\ t[10 + 8] = LF /\ t[10 + 9] = GOT_IRQ /\ t[10 + 10] = 50
        /\ t[10 + 11] = 97 /\ t[10 + 12] = LF /\ t[10 + 13] = DONE /\ t[10 + 14] = LF
    BY <1>4, RestIs, Zenon
  <1> HIDE DEF t
  <1>6. {1, 2, 3, 4, 5, 6, 7} \subseteq 1..7 /\ {1, 2, 3, 4, 5, 6, 7, 8, 9, 10} \subseteq 1..10
    OBVIOUS
  <1>7. t[1] = HELLO /\ t[2] = 50 /\ t[3] = CR /\ t[4] = LF /\ t[5] = GIC_INIT /\ t[6] = CR /\ t[7] = LF
    BY <1>2, <1>3, <1>5, <1>6
  <1>8. t[8] = TIMEOUT /\ t[9] = CR /\ t[10] = LF
    BY <1>4, <1>5, <1>6
  <1>9. /\ Len(t) = 24
        /\ t[11] = PPI_ON /\ t[12] = CR /\ t[13] = LF /\ t[14] = LR0_LOADED /\ t[15] = CR /\ t[16] = LF
        /\ t[17] = BANNER /\ t[18] = LF /\ t[19] = GOT_IRQ /\ t[20] = 50
        /\ t[21] = 97 /\ t[22] = LF /\ t[23] = DONE /\ t[24] = LF
    BY <1>5 DEF Piece
  <1> QED
    BY <1>1, <1>7, <1>8, <1>9, Zenon

-----------------------------------------------------------------------------
(* The console.                                                            *)

\* The handler's word, and the program's, from the PC and the return address.
LEMMA IndexOf ==
  /\ \A n \in Int : Index(Addr(n)) = n
  /\ \A n \in Int : Addr(n) >= VECTOR_EL2 <=> n >= 127
  /\ Index(VECTOR_EL2) = 127
  <1>1. VECTOR_EL2 = Addr(127) /\ RAM_BASE \in Int
    BY ImageLayout, LayoutAssumption DEF Addr
  <1>2. ASSUME NEW n \in Int PROVE Index(Addr(n)) = n /\ (Addr(n) >= Addr(127) <=> n >= 127)
    BY <1>1 DEF Addr, Index
  <1> QED
    BY <1>1, <1>2

\* The places that the console is told are those of the invariant.
LEMMA PlaceIs ==
  ASSUME NEW n \in 1..123, NEW k \in 0..31, There(n, k)
  PROVE  Handler = k /\ Program = n
  <1>1. /\ pc = Addr(IF k = 0 THEN n ELSE 126 + k)
        /\ k # 0 => (IF k \in EDGES THEN sys.elr[2] ELSE sys.frame.elr) = Addr(n)
    BY DEF There, Stands
  <1>2. CASE k = 0
    <2>1. Handler = 0
      BY <1>1, <1>2, IndexOf DEF Handler
    <2> QED
      BY <1>1, <1>2, <2>1, IndexOf DEF Program
  <1>3. CASE k # 0
    <2>1. pc = Addr(126 + k) /\ 126 + k \in Int /\ 126 + k >= 127
      BY <1>1, <1>3
    <2>2. Handler = k
      BY <2>1, IndexOf DEF Handler
    <2> QED
      BY <1>1, <1>3, <2>2, IndexOf DEF Program, EDGES
  <1> QED
    BY <1>2, <1>3

\* The same after a step.
LEMMA PlaceWillBe ==
  ASSUME NEW n, NEW k, n \in 1..123, k \in 0..31, There(n, k)'
  PROVE  Handler' = k /\ Program' = n
  <1>1. /\ pc' = Addr(IF k = 0 THEN n ELSE 126 + k)
        /\ k # 0 => (IF k \in EDGES THEN sys'.elr[2] ELSE sys'.frame.elr) = Addr(n)
    BY DEF There, Stands
  <1>2. CASE k = 0
    <2>1. Handler' = 0
      BY <1>1, <1>2, IndexOf DEF Handler
    <2> QED
      BY <1>1, <1>2, <2>1, IndexOf DEF Program
  <1>3. CASE k # 0
    <2>1. pc' = Addr(126 + k) /\ 126 + k \in Int /\ 126 + k >= 127
      BY <1>1, <1>3
    <2>2. Handler' = k
      BY <2>1, IndexOf DEF Handler
    <2> QED
      BY <1>1, <1>3, <2>2, IndexOf DEF Program, EDGES
  <1> QED
    BY <1>2, <1>3

\* How much of the text is out, in terms of the words that print it.
LEMMA SaidIs ==
  ASSUME NEW at \in Seq(Int), \A i, j \in 1..Len(at) : i < j => at[i] < at[j],
         NEW n \in Int, NEW i \in 0..Len(at), i > 0 => at[i] < n, i < Len(at) => at[i + 1] >= n
  PROVE  TextSaid(at, n) = i
  <1> DEFINE P(j) == (j > 0 => at[j] < n) /\ (j < Len(at) => at[j + 1] >= n)
  <1>1. \A j \in 1..Len(at) : at[j] \in Int
    OBVIOUS
  <1>2. ASSUME NEW j \in 0..Len(at), P(j) PROVE j = i
    <2>1. ~(j < i)
      <3> SUFFICES ASSUME j < i PROVE FALSE
        OBVIOUS
      <3>1. j + 1 \in 1..Len(at) /\ i \in 1..Len(at) /\ (j + 1 < i \/ j + 1 = i)
        OBVIOUS
      <3>2. at[j + 1] <= at[i] /\ at[j + 1] >= n /\ at[i] < n
        BY <1>1, <1>2, <3>1
      <3> QED
        BY <1>1, <3>1, <3>2
    <2>2. ~(i < j)
      <3> SUFFICES ASSUME i < j PROVE FALSE
        OBVIOUS
      <3>1. i + 1 \in 1..Len(at) /\ j \in 1..Len(at) /\ (i + 1 < j \/ i + 1 = j)
        OBVIOUS
      <3>2. at[i + 1] <= at[j] /\ at[i + 1] >= n /\ at[j] < n
        BY <1>1, <1>2, <3>1
      <3> QED
        BY <1>1, <3>1, <3>2
    <2> QED
      BY <2>1, <2>2
  <1>3. P(i)
    OBVIOUS
  <1>4. TextSaid(at, n) = CHOOSE j \in 0..Len(at) : P(j)
    BY DEF TextSaid
  <1> HIDE DEF P
  <1> QED
    BY <1>2, <1>3, <1>4

\* Two words with the same printing words before them have said the same.
LEMMA SaidSame ==
  ASSUME NEW at \in Seq(Int), NEW n \in Int, NEW m \in Int,
         \A i \in 1..Len(at) : at[i] < n <=> at[i] < m
  PROVE  TextSaid(at, n) = TextSaid(at, m)
  <1> DEFINE P(j) == (j > 0 => at[j] < n) /\ (j < Len(at) => at[j + 1] >= n)
             Q(j) == (j > 0 => at[j] < m) /\ (j < Len(at) => at[j + 1] >= m)
  <1>1. ASSUME NEW j \in 0..Len(at) PROVE P(j) <=> Q(j)
    <2>1. \A i \in 1..Len(at) : at[i] \in Int
      OBVIOUS
    <2>2. j > 0 => j \in 1..Len(at)
      OBVIOUS
    <2>3. j < Len(at) => j + 1 \in 1..Len(at)
      OBVIOUS
    <2>4. j > 0 => (at[j] < n <=> at[j] < m)
      BY <2>2
    <2>5. j < Len(at) => (at[j + 1] >= n <=> at[j + 1] >= m)
      BY <2>1, <2>3
    <2> QED
      BY <2>4, <2>5
  <1>2. /\ TextSaid(at, n) = CHOOSE j \in 0..Len(at) : P(j)
        /\ TextSaid(at, m) = CHOOSE j \in 0..Len(at) : Q(j)
    BY DEF TextSaid
  <1> HIDE DEF P, Q
  <1> QED
    BY <1>1, <1>2, Zenon

\* The words that print are those of the texts, byte by byte.
LEMMA PlainPrints ==
  LET at == Prints(FALSE) IN
  /\ at \in Seq(Int) /\ Len(at) = 21
  /\ \A i, j \in 1..Len(at) : i < j => at[i] < at[j]
  /\ \A i \in 1..Len(at) : at[i] \in SAYS /\ at[i] \notin {50, 54, 58}
  <1> DEFINE at == Prints(FALSE)
  <1>1. at \in Seq(Int) /\ Len(at) = 21
    BY DEF Prints
  <1>2. \A i, j \in 1..21 : i < j => at[i] < at[j]
    BY DEF Prints
  <1>3. \A i \in 1..21 : at[i] \in SAYS /\ at[i] \notin {50, 54, 58}
    BY DEF Prints, SAYS
  <1> QED
    BY <1>1, <1>2, <1>3

\* The same with the time-out line.
LEMMA TimeoutPrints ==
  LET at == Prints(TRUE) IN
  /\ at \in Seq(Int) /\ Len(at) = 24
  /\ \A i, j \in 1..Len(at) : i < j => at[i] < at[j]
  /\ \A i \in 1..Len(at) : at[i] \in SAYS
  <1> DEFINE at == Prints(TRUE)
  <1>1. at \in Seq(Int) /\ Len(at) = 24
    BY DEF Prints
  <1>2. \A i, j \in 1..24 : i < j => at[i] < at[j]
    BY DEF Prints
  <1>3. \A i \in 1..24 : at[i] \in SAYS
    BY DEF Prints, SAYS
  <1> QED
    BY <1>1, <1>2, <1>3

\* Each of them prints its byte of the text without a time-out.
LEMMA PlainBytes ==
  \A n \in SAYS \ {50, 54, 58} : \E i \in 1..21 : Prints(FALSE)[i] = n /\ Expected(FALSE)[i] = Byte(n)
  <1> DEFINE at == Prints(FALSE)
             t == Expected(FALSE)
  <1>1. /\ at[1] = 19 /\ at[2] = 23 /\ at[3] = 27 /\ at[4] = 31 /\ at[5] = 35 /\ at[6] = 39
        /\ at[7] = 43 /\ at[8] = 67 /\ at[9] = 71 /\ at[10] = 75 /\ at[11] = 83 /\ at[12] = 87
        /\ at[13] = 91 /\ at[14] = 100 /\ at[15] = 102 /\ at[16] = 110 /\ at[17] = 112 /\ at[18] = 114
        /\ at[19] = 116 /\ at[20] = 119 /\ at[21] = 121
    BY DEF Prints
  <1>2. /\ t[1] = Byte(19) /\ t[2] = Byte(23) /\ t[3] = Byte(27) /\ t[4] = Byte(31)
        /\ t[5] = Byte(35) /\ t[6] = Byte(39) /\ t[7] = Byte(43) /\ t[8] = Byte(67)
        /\ t[9] = Byte(71) /\ t[10] = Byte(75) /\ t[11] = Byte(83) /\ t[12] = Byte(87)
        /\ t[13] = Byte(91) /\ t[14] = Byte(100) /\ t[15] = Byte(102) /\ t[16] = Byte(110)
        /\ t[17] = Byte(112) /\ t[18] = Byte(114) /\ t[19] = Byte(116) /\ t[20] = Byte(119)
        /\ t[21] = Byte(121)
    BY PlainText, Bytes, Zenon
  <1> HIDE DEF at, t
  <1>3. {1, 2, 3, 4, 5, 6, 7, 8, 9, 10, 11, 12, 13, 14, 15, 16, 17, 18, 19, 20, 21} \subseteq 1..21
    OBVIOUS
  <1>4. ASSUME NEW n \in SAYS \ {50, 54, 58} PROVE \E i \in 1..21 : at[i] = n /\ t[i] = Byte(n)
    BY <1>1, <1>2, <1>3 DEF SAYS
  <1> QED
    BY <1>4 DEF at, t

\* Each of them prints its byte of the text with one.
LEMMA TimeoutBytes ==
  \A n \in SAYS : \E i \in 1..24 : Prints(TRUE)[i] = n /\ Expected(TRUE)[i] = Byte(n)
  <1> DEFINE at == Prints(TRUE)
             t == Expected(TRUE)
  <1>1. /\ at[1] = 19 /\ at[2] = 23 /\ at[3] = 27 /\ at[4] = 31 /\ at[5] = 35 /\ at[6] = 39
        /\ at[7] = 43 /\ at[8] = 50 /\ at[9] = 54 /\ at[10] = 58 /\ at[11] = 67 /\ at[12] = 71
        /\ at[13] = 75 /\ at[14] = 83 /\ at[15] = 87 /\ at[16] = 91 /\ at[17] = 100 /\ at[18] = 102
        /\ at[19] = 110 /\ at[20] = 112 /\ at[21] = 114 /\ at[22] = 116 /\ at[23] = 119 /\ at[24] = 121
    BY DEF Prints
  <1>2. /\ t[1] = Byte(19) /\ t[2] = Byte(23) /\ t[3] = Byte(27) /\ t[4] = Byte(31)
        /\ t[5] = Byte(35) /\ t[6] = Byte(39) /\ t[7] = Byte(43) /\ t[8] = Byte(50)
        /\ t[9] = Byte(54) /\ t[10] = Byte(58) /\ t[11] = Byte(67) /\ t[12] = Byte(71)
        /\ t[13] = Byte(75) /\ t[14] = Byte(83) /\ t[15] = Byte(87) /\ t[16] = Byte(91)
        /\ t[17] = Byte(100) /\ t[18] = Byte(102) /\ t[19] = Byte(110) /\ t[20] = Byte(112)
        /\ t[21] = Byte(114) /\ t[22] = Byte(116) /\ t[23] = Byte(119) /\ t[24] = Byte(121)
    BY TimeoutText, Bytes, Zenon
  <1> HIDE DEF at, t
  <1>3. {1, 2, 3, 4, 5, 6, 7, 8, 9, 10, 11, 12, 13, 14, 15, 16, 17, 18, 19, 20, 21, 22, 23, 24} \subseteq 1..24
    OBVIOUS
  <1>4. ASSUME NEW n \in SAYS PROVE \E i \in 1..24 : at[i] = n /\ t[i] = Byte(n)
    BY <1>1, <1>2, <1>3 DEF SAYS
  <1> QED
    BY <1>4 DEF at, t

\* The word that prints the i-th byte.
LEMMA SaidAt ==
  ASSUME NEW at \in Seq(Int), \A i, j \in 1..Len(at) : i < j => at[i] < at[j],
         NEW n \in Int, NEW i \in 1..Len(at), at[i] = n
  PROVE  TextSaid(at, n) = i - 1 /\ TextSaid(at, n + 1) = i
  <1>1. \A j \in 1..Len(at) : at[j] \in Int
    OBVIOUS
  <1>2. TextSaid(at, n) = i - 1
    <2>1. i - 1 \in 0..Len(at) /\ (i - 1 < Len(at) => at[i - 1 + 1] >= n)
      OBVIOUS
    <2>2. i - 1 > 0 => at[i - 1] < n
      OBVIOUS
    <2> QED
      BY <2>1, <2>2, SaidIs
  <1>3. TextSaid(at, n + 1) = i
    <2>1. i \in 0..Len(at) /\ at[i] < n + 1 /\ n + 1 \in Int
      OBVIOUS
    <2>2. i < Len(at) => at[i + 1] >= n + 1
      <3> SUFFICES ASSUME i < Len(at) PROVE at[i + 1] >= n + 1
        OBVIOUS
      <3>1. i + 1 \in 1..Len(at) /\ i < i + 1
        OBVIOUS
      <3>2. at[i] < at[i + 1] /\ at[i + 1] \in Int
        BY <1>1, <3>1
      <3> QED
        BY <3>2
    <2> QED
      BY <2>1, <2>2, SaidIs
  <1> QED
    BY <1>2, <1>3

\* The text and the words that print it go on together, from one text to
\* another if they agree so far.
Utters(old, new, n) ==
  LET said == TextSaid(Prints(old), n)
      t == Expected(new)
  IN /\ said \in Nat /\ said < Len(t) /\ t[said + 1] = Byte(n)
     /\ \A k \in 1..said : t[k] = Expected(old)[k]
     /\ TextSaid(Prints(new), n + 1) = said + 1

\* A byte of the text without a time-out.
LEMMA SpeaksPlain ==
  ASSUME NEW n \in SAYS \ {50, 54, 58}
  PROVE  Utters(FALSE, FALSE, n)
  <1> DEFINE at == Prints(FALSE)
             t == Expected(FALSE)
  <1>1. /\ at \in Seq(Int) /\ Len(at) = 21
        /\ \A i, j \in 1..Len(at) : i < j => at[i] < at[j]
    BY PlainPrints, Zenon
  <1>2. Len(t) = 21
    BY PlainText, Zenon
  <1>3. PICK i \in 1..21 : at[i] = n /\ t[i] = Byte(n)
    BY PlainBytes, Zenon
  <1>4. n \in Int
    BY DEF SAYS
  <1> HIDE DEF at, t
  <1>5. TextSaid(at, n) = i - 1 /\ TextSaid(at, n + 1) = i
    BY <1>1, <1>3, <1>4, SaidAt
  <1>6. i - 1 \in Nat /\ i - 1 < Len(t) /\ t[i - 1 + 1] = Byte(n) /\ i - 1 + 1 = i
    BY <1>2, <1>3
  <1> QED
    BY <1>5, <1>6 DEF Utters, at, t

\* A byte of the text with one.
LEMMA SpeaksTimeout ==
  ASSUME NEW n \in SAYS
  PROVE  Utters(TRUE, TRUE, n)
  <1> DEFINE at == Prints(TRUE)
             t == Expected(TRUE)
  <1>1. /\ at \in Seq(Int) /\ Len(at) = 24
        /\ \A i, j \in 1..Len(at) : i < j => at[i] < at[j]
    BY TimeoutPrints, Zenon
  <1>2. Len(t) = 24
    BY TimeoutText, Zenon
  <1>3. PICK i \in 1..24 : at[i] = n /\ t[i] = Byte(n)
    BY TimeoutBytes, Zenon
  <1>4. n \in Int
    BY DEF SAYS
  <1> HIDE DEF at, t
  <1>5. TextSaid(at, n) = i - 1 /\ TextSaid(at, n + 1) = i
    BY <1>1, <1>3, <1>4, SaidAt
  <1>6. i - 1 \in Nat /\ i - 1 < Len(t) /\ t[i - 1 + 1] = Byte(n) /\ i - 1 + 1 = i
    BY <1>2, <1>3
  <1> QED
    BY <1>5, <1>6 DEF Utters, at, t

\* The first byte of the time-out line turns the one text into the other.
LEMMA SpeaksOut ==
  ASSUME NEW n, n = 50
  PROVE  Utters(FALSE, TRUE, n)
  <1> DEFINE at == Prints(FALSE)
             t == Expected(TRUE)
             u == Expected(FALSE)
             p == Prints(TRUE)
  <1>1. /\ at \in Seq(Int) /\ Len(at) = 21
        /\ \A i, j \in 1..Len(at) : i < j => at[i] < at[j]
    BY PlainPrints, Zenon
  <1>2. at[7] = 43 /\ at[8] = 67
    BY DEF Prints
  <1>3. /\ p \in Seq(Int) /\ Len(p) = 24
        /\ \A i, j \in 1..Len(p) : i < j => p[i] < p[j]
    BY TimeoutPrints, Zenon
  <1>4. p[8] = 50
    BY DEF Prints
  <1>5. /\ Len(t) = 24 /\ t[8] = TIMEOUT
        /\ t[1] = u[1] /\ t[2] = u[2] /\ t[3] = u[3] /\ t[4] = u[4] /\ t[5] = u[5] /\ t[6] = u[6] /\ t[7] = u[7]
    BY TimeoutText, PlainText, Zenon
  <1>6. Byte(n) = TIMEOUT
    BY Bytes
  <1> HIDE DEF at, t, u, p
  <1>7. PICK i : i = 7
    OBVIOUS
  <1>8. TextSaid(at, n) = i
    <2>1. i \in 0..Len(at) /\ at[i] < n /\ at[i + 1] >= n /\ n \in Int
      BY <1>1, <1>2, <1>7
    <2> QED
      BY <1>1, <2>1, SaidIs
  <1>9. TextSaid(p, n + 1) = i + 1
    <2>1. i + 1 \in 1..Len(p) /\ p[i + 1] = n /\ n \in Int
      BY <1>3, <1>4, <1>7
    <2> QED
      BY <1>3, <2>1, SaidAt
  <1>10. i \in Nat /\ i < Len(t) /\ t[i + 1] = Byte(n) /\ \A k \in 1..i : t[k] = u[k]
    BY <1>5, <1>6, <1>7
  <1> QED
    BY <1>8, <1>9, <1>10 DEF Utters, at, t, u, p

\* The time-out line is the only one that settles which text it is.
LEMMA TimeoutSettled ==
  ASSUME NEW n \in SAYS, There(n, 0), dev \in Device, dev'.out = Append(dev.out, Byte(n))
  PROVE  \/ n = 50 /\ ~TimedOut /\ TimedOut'
         \/ TimedOut /\ TimedOut'
         \/ ~TimedOut /\ ~TimedOut' /\ n \notin {50, 54, 58}
  <1>1. /\ Len(dev'.out) = Len(dev.out) + 1 /\ Len(dev.out) \in Nat
        /\ \A i \in 1..Len(dev.out) : dev'.out[i] = dev.out[i]
        /\ dev'.out[Len(dev.out) + 1] = Byte(n)
    <2>1. n \in PUTS \ {144}
      BY DEF SAYS, PUTS
    <2>2. Byte(n) \in Int /\ dev.out \in Seq(Int)
      BY <2>1, ByteSmall DEF Device
    <2> QED
      BY <2>2
  <1>2. Printed(n)
    BY DEF There
  <1>3. CASE n \in {19, 23, 27, 31, 35, 39, 43}
    <2>1. Len(dev.out) <= 6
      BY <1>2, <1>3 DEF Printed, Passed
    <2> QED
      BY <1>1, <1>3, <2>1 DEF TimedOut
  <1>4. CASE n = 50
    <2>1. Len(dev.out) = 7
      BY <1>2, <1>4 DEF Printed, Passed
    <2>2. Byte(n) = TIMEOUT
      BY <1>4, Bytes
    <2> QED
      BY <1>1, <1>4, <2>1, <2>2 DEF TimedOut
  <1>5. CASE n \in {54, 58}
    <2>1. TimedOut
      BY <1>2, <1>5 DEF Printed
    <2> QED
      BY <1>1, <2>1 DEF TimedOut
  <1>6. CASE n = 67
    <2>1. TimedOut \/ Len(dev.out) = 7
      BY <1>2, <1>6 DEF Printed
    <2>2. Byte(n) = PPI_ON
      BY <1>6, Bytes
    <2>3. CASE TimedOut
      BY <1>1, <2>3 DEF TimedOut
    <2>4. CASE Len(dev.out) = 7
      BY <1>1, <1>6, <2>2, <2>4 DEF TimedOut, PPI_ON, TIMEOUT
    <2> QED
      BY <2>1, <2>3, <2>4
  <1>7. CASE n > 67
    <2>1. Len(dev.out) >= 8
      BY <1>2, <1>7 DEF Printed, SAYS
    <2> QED
      BY <1>1, <1>7, <2>1 DEF TimedOut
  <1> QED
    BY <1>3, <1>4, <1>5, <1>6, <1>7 DEF SAYS

\* The two texts.
LEMMA TextIs ==
  /\ TimedOut => Expected(TimedOut) = Expected(TRUE) /\ Prints(TimedOut) = Prints(TRUE)
  /\ ~TimedOut => Expected(TimedOut) = Expected(FALSE) /\ Prints(TimedOut) = Prints(FALSE)
  <1>1. TimedOut => Prints(TimedOut) = Prints(TRUE)
    BY DEF Prints
  <1>2. ~TimedOut => Prints(TimedOut) = Prints(FALSE)
    BY DEF Prints
  <1>3. TimedOut => Expected(TimedOut) = Expected(TRUE)
    BY DEF Expected
  <1>4. ~TimedOut => Expected(TimedOut) = Expected(FALSE)
    BY DEF Expected
  <1> QED
    BY <1>1, <1>2, <1>3, <1>4

\* The same after a step.
LEMMA TextWillBe ==
  /\ TimedOut' => Expected(TimedOut') = Expected(TRUE) /\ Prints(TimedOut') = Prints(TRUE)
  /\ ~TimedOut' => Expected(TimedOut') = Expected(FALSE) /\ Prints(TimedOut') = Prints(FALSE)
  <1>1. TimedOut' => Prints(TimedOut') = Prints(TRUE)
    BY DEF Prints
  <1>2. ~TimedOut' => Prints(TimedOut') = Prints(FALSE)
    BY DEF Prints
  <1>3. TimedOut' => Expected(TimedOut') = Expected(TRUE)
    BY DEF Expected
  <1>4. ~TimedOut' => Expected(TimedOut') = Expected(FALSE)
    BY DEF Expected
  <1> QED
    BY <1>1, <1>2, <1>3, <1>4

\* What the console is told in a step that it cannot tell from none.
LEMMA SameText ==
  ASSUME TimedOut' <=> TimedOut
  PROVE  Expected(TimedOut') = Expected(TimedOut) /\ Prints(TimedOut') = Prints(TimedOut)
  <1>1. CASE TimedOut
    BY <1>1, TextIs, TextWillBe
  <1>2. CASE ~TimedOut
    BY <1>2, TextIs, TextWillBe
  <1> QED
    BY <1>1, <1>2

\* A step that passes no printing word says nothing.
LEMMA SameSaid ==
  ASSUME NEW n \in 1..123, NEW m, m \in 1..123, Said(m)' = Said(n), TimedOut' <=> TimedOut
  PROVE  TextSaid(Prints(TimedOut), m) = TextSaid(Prints(TimedOut), n)
  <1> DEFINE at == Prints(TimedOut)
  <1>1. at \in Seq(Int) /\ \A i \in 1..Len(at) : at[i] \in SAYS /\ (TimedOut \/ at[i] \notin {50, 54, 58})
    <2>1. CASE TimedOut
      <3>1. at = Prints(TRUE)
        BY <2>1, TextIs
      <3> HIDE DEF at
      <3> QED
        BY <2>1, <3>1, TimeoutPrints
    <2>2. CASE ~TimedOut
      <3>1. at = Prints(FALSE)
        BY <2>2, TextIs
      <3> HIDE DEF at
      <3> QED
        BY <2>2, <3>1, PlainPrints
    <2> QED
      BY <2>1, <2>2
  <1> HIDE DEF at
  <1>2. ASSUME NEW i \in 1..Len(at) PROVE at[i] < n <=> at[i] < m
    <2>1. at[i] < n <=> at[i] \in Said(n)
      BY <1>1 DEF Said
    <2>2. at[i] < m <=> at[i] \in Said(m)'
      BY <1>1 DEF Said
    <2> QED
      BY <2>1, <2>2
  <1>3. TextSaid(at, m) = TextSaid(at, n)
    BY <1>1, <1>2, SaidSame
  <1> QED
    BY <1>3 DEF at

\* A step that leaves a notice where it is.
LEMMA SameRest ==
  ASSUME NEW k \in 0..31, NEW j, j \in 0..31, Missing(j) = Missing(k), Intid(j)' = Intid(k)
  PROVE  NoticeRest(j, x'[19]) = NoticeRest(k, x[19])
  <1>1. /\ j \in 15..18 <=> k \in 15..18
        /\ j \in 19..22 <=> k \in 19..22
        /\ j \in 23..26 <=> k \in 23..26
    BY DEF Missing
  <1>2. k \in 15..18 => x'[19] = x[19]
    BY <1>1 DEF Intid
  <1> QED
    BY <1>1, <1>2 DEF NoticeRest

\* The notices due are those of the invariant.
LEMMA DueIs ==
  ASSUME NEW k
  PROVE  NoticesDue(k) = Due(k) /\ NoticesDue(k)' = Due(k)'
  BY DEF NoticesDue, Due, HOLDS

\* Before the vCPU starts nothing is said.
LEMMA NothingSaid ==
  ASSUME NEW n \in Int, n <= 1
  PROVE  TextSaid(Prints(FALSE), n) = 0
  <1> DEFINE at == Prints(FALSE)
  <1>1. /\ at \in Seq(Int) /\ Len(at) = 21
        /\ \A i, j \in 1..Len(at) : i < j => at[i] < at[j]
    BY PlainPrints, Zenon
  <1>2. at[1] = 19
    BY DEF Prints
  <1> HIDE DEF at
  <1>3. PICK i : i = 0
    OBVIOUS
  <1>4. i \in 0..Len(at) /\ ~(i > 0) /\ at[i + 1] >= n
    BY <1>1, <1>2, <1>3
  <1>5. TextSaid(at, n) = i
    BY <1>1, <1>4, SaidIs
  <1> QED
    BY <1>3, <1>5 DEF at

\* While the launcher loads the image no word has run.
LEMMA BootPlace ==
  ASSUME Booting
  PROVE  Handler = 0 /\ Program \in Int /\ Program <= 1 /\ ~TimedOut
  <1>1. RAM_BASE \in Int /\ RAM_BASE > 0 /\ VECTOR_EL2 = RAM_BASE + 4 * 126
    BY ImageLayout, LayoutAssumption, Stage4Assumption
  <1>2. Handler = 0
    BY <1>1 DEF Booting, Handler
  <1>3. Program = (0 - RAM_BASE) \div 4 + 1
    BY <1>2 DEF Booting, Program, Index
  <1> QED
    BY <1>1, <1>2, <1>3 DEF Booting, TimedOut

\* The same after a step.
LEMMA BootPlaceNext ==
  ASSUME Booting'
  PROVE  Handler' = 0 /\ Program' \in Int /\ Program' <= 1
  <1>1. RAM_BASE \in Int /\ RAM_BASE > 0 /\ VECTOR_EL2 = RAM_BASE + 4 * 126
    BY ImageLayout, LayoutAssumption, Stage4Assumption
  <1>2. Handler' = 0
    BY <1>1 DEF Booting, Handler
  <1>3. Program' = (0 - RAM_BASE) \div 4 + 1
    BY <1>2 DEF Booting, Program, Index
  <1> QED
    BY <1>1, <1>2, <1>3

\* A quiet step is none to the console.
LEMMA QuietStutters ==
  ASSUME Quiet
  PROVE  UNCHANGED Uart0!vars
  <1>1. dev'.out = dev.out /\ (TimedOut' <=> TimedOut)
    BY DEF Quiet, TimedOut
  <1>2. Expected(TimedOut') = Expected(TimedOut) /\ Prints(TimedOut') = Prints(TimedOut)
    BY <1>1, SameText
  <1> DEFINE said == TextSaid(Prints(TimedOut), Program)
             rest == NoticeRest(Handler, x[19])
             due == NoticesDue(Handler)
  <1>3. said' = said /\ rest' = rest /\ due' = due
    <2>1. CASE \E n \in 1..123, k \in 0..31 : There(n, k) /\ Moved(n, k)
      <3>1. PICK n \in 1..123, k \in 0..31 : There(n, k) /\ Moved(n, k)
        BY <2>1
      <3>2. PICK m, j : m \in 1..123 /\ j \in 0..31 /\ There(m, j)' /\ Seen(m, j)' = Seen(n, k)
        BY <3>1 DEF Moved
      <3>3. Handler = k /\ Program = n /\ Handler' = j /\ Program' = m
        BY <3>1, <3>2, PlaceIs, PlaceWillBe
      <3>4. Said(m)' = Said(n) /\ Missing(j) = Missing(k) /\ Intid(j)' = Intid(k) /\ Due(j)' = Due(k)
        BY <3>2 DEF Seen
      <3>5. said' = said
        BY <1>1, <1>2, <3>2, <3>3, <3>4, SameSaid
      <3>6. rest' = rest
        BY <3>2, <3>3, <3>4, SameRest
      <3>7. due' = due
        BY <3>3, <3>4, DueIs DEF NoticesDue
      <3> QED
        BY <3>5, <3>6, <3>7
    <2>2. CASE Booting /\ (Booting \/ There(1, 0))' /\ sys'.pend = sys.pend
      <3>1. Handler = 0 /\ Program \in Int /\ Program <= 1 /\ ~TimedOut
        BY <2>2, BootPlace
      <3>2. Handler' = 0 /\ Program' \in Int /\ Program' <= 1
        <4>1. CASE Booting'
          BY <4>1, BootPlaceNext
        <4>2. CASE There(1, 0)'
          <5>1. 1 \in 1..123 /\ 0 \in 0..31
            OBVIOUS
          <5> QED
            BY <4>2, <5>1, PlaceWillBe
        <4> QED
          BY <2>2, <4>1, <4>2
      <3>3. said = 0
        <4>1. Prints(TimedOut) = Prints(FALSE)
          BY <3>1, TextIs
        <4>2. TextSaid(Prints(FALSE), Program) = 0
          BY <3>1, NothingSaid
        <4> QED
          BY <4>1, <4>2
      <3>4. said' = 0
        <4>1. Prints(TimedOut') = Prints(FALSE)
          BY <1>1, <3>1, TextWillBe
        <4>2. TextSaid(Prints(FALSE), Program') = 0
          BY <3>2, NothingSaid
        <4> QED
          BY <4>1, <4>2
      <3>5. rest' = rest /\ due' = due
        BY <2>2, <3>1, <3>2 DEF NoticeRest, NoticesDue
      <3> QED
        BY <3>3, <3>4, <3>5
    <2> QED
      BY <2>1, <2>2 DEF Quiet
  <1> HIDE DEF said, rest, due
  <1>4. /\ (dev.out)' = dev.out /\ Expected(TimedOut)' = Expected(TimedOut)
        /\ said' = said /\ rest' = rest /\ due' = due
    BY <1>1, <1>2, <1>3
  <1> QED
    BY <1>4 DEF Uart0!vars, said, rest, due

\* The bytes of the notice.
LEMMA NoticeIs ==
  ASSUME NEW intid \in STRAY
  PROVE  /\ Head(Notice(intid)) = UNEXPECTED /\ Tail(Notice(intid)) = NoticeRest(15, intid)
         /\ Head(NoticeRest(18, intid)) = intid % BYTE /\ Tail(NoticeRest(18, intid)) = NoticeRest(19, intid)
         /\ Head(NoticeRest(22, intid)) = CR /\ Tail(NoticeRest(22, intid)) = NoticeRest(23, intid)
         /\ Head(NoticeRest(26, intid)) = LF /\ Tail(NoticeRest(26, intid)) = NoticeRest(27, intid)
         /\ NoticeRest(18, intid) # <<>> /\ NoticeRest(22, intid) # <<>> /\ NoticeRest(26, intid) # <<>>
         /\ NoticeRest(14, intid) = <<>> /\ NoticeRest(0, intid) = <<>>
  <1>1. NoticeRest(15, intid) = <<intid % BYTE, CR, LF>> /\ NoticeRest(18, intid) = <<intid % BYTE, CR, LF>>
    BY DEF NoticeRest
  <1>2. NoticeRest(19, intid) = <<CR, LF>> /\ NoticeRest(22, intid) = <<CR, LF>>
    BY DEF NoticeRest
  <1>3. NoticeRest(23, intid) = <<LF>> /\ NoticeRest(26, intid) = <<LF>>
    BY DEF NoticeRest
  <1>4. NoticeRest(27, intid) = <<>> /\ NoticeRest(14, intid) = <<>> /\ NoticeRest(0, intid) = <<>>
    BY DEF NoticeRest
  <1>5. Head(Notice(intid)) = UNEXPECTED /\ Tail(Notice(intid)) = <<intid % BYTE, CR, LF>>
    BY DEF Notice
  <1>6. ASSUME NEW a, NEW b, NEW c
        PROVE  /\ Head(<<a, b, c>>) = a /\ Tail(<<a, b, c>>) = <<b, c>> /\ <<a, b, c>> # <<>>
               /\ Head(<<a, b>>) = a /\ Tail(<<a, b>>) = <<b>> /\ <<a, b>> # <<>>
               /\ Head(<<a>>) = a /\ Tail(<<a>>) = <<>> /\ <<a>> # <<>>
    OBVIOUS
  <1>7. /\ Head(NoticeRest(18, intid)) = intid % BYTE /\ Tail(NoticeRest(18, intid)) = NoticeRest(19, intid)
        /\ NoticeRest(18, intid) # <<>> /\ Tail(Notice(intid)) = NoticeRest(15, intid)
    <2>1. /\ Head(<<intid % BYTE, CR, LF>>) = intid % BYTE /\ Tail(<<intid % BYTE, CR, LF>>) = <<CR, LF>>
          /\ <<intid % BYTE, CR, LF>> # <<>>
      BY <1>6
    <2> QED
      BY <1>1, <1>2, <1>5, <2>1, Zenon
  <1>8. /\ Head(NoticeRest(22, intid)) = CR /\ Tail(NoticeRest(22, intid)) = NoticeRest(23, intid)
        /\ NoticeRest(22, intid) # <<>>
    <2>1. Head(<<CR, LF>>) = CR /\ Tail(<<CR, LF>>) = <<LF>> /\ <<CR, LF>> # <<>>
      BY <1>6
    <2> QED
      BY <1>2, <1>3, <2>1, Zenon
  <1>9. /\ Head(NoticeRest(26, intid)) = LF /\ Tail(NoticeRest(26, intid)) = NoticeRest(27, intid)
        /\ NoticeRest(26, intid) # <<>>
    BY <1>3, <1>4, <1>6, Zenon
  <1> QED
    BY <1>4, <1>5, <1>7, <1>8, <1>9

\* The program's bytes.
LEMMA SayRefines ==
  ASSUME NEW n \in SAYS, There(n, 0), There(n + 1, 0)', dev \in Device,
         dev'.out = Append(dev.out, Byte(n)), x' = x, sys' = sys
  PROVE  Uart0!Say
  <1>1. n \in 1..123 /\ n + 1 \in 1..123 /\ 0 \in 0..31
    BY DEF SAYS
  <1>2. Handler = 0 /\ Program = n /\ Handler' = 0 /\ Program' = n + 1
    <2>1. Handler = 0 /\ Program = n
      BY <1>1, PlaceIs
    <2>2. Handler' = 0 /\ Program' = n + 1
      BY <1>1, PlaceWillBe, Zenon
    <2> QED
      BY <2>1, <2>2
  <1> DEFINE said == TextSaid(Prints(TimedOut), Program)
             text == Expected(TimedOut)
  <1>3. /\ said < Len(text') /\ text'[said + 1] = Byte(n)
        /\ \A k \in 1..said : text'[k] = text[k]
        /\ said' = said + 1
    <2>1. CASE n = 50 /\ ~TimedOut /\ TimedOut'
      <3>1. Utters(FALSE, TRUE, n)
        BY <2>1, SpeaksOut
      <3>2. /\ text' = Expected(TRUE) /\ text = Expected(FALSE)
            /\ Prints(TimedOut) = Prints(FALSE) /\ Prints(TimedOut') = Prints(TRUE)
        BY <2>1, TextIs, TextWillBe
      <3> QED
        BY <1>2, <3>1, <3>2, Zenon DEF Utters
    <2>2. CASE TimedOut /\ TimedOut'
      <3>1. Utters(TRUE, TRUE, n)
        BY SpeaksTimeout
      <3>2. /\ text' = Expected(TRUE) /\ text = Expected(TRUE)
            /\ Prints(TimedOut) = Prints(TRUE) /\ Prints(TimedOut') = Prints(TRUE)
        BY <2>2, TextIs, TextWillBe
      <3> QED
        BY <1>2, <3>1, <3>2, Zenon DEF Utters
    <2>3. CASE ~TimedOut /\ ~TimedOut' /\ n \notin {50, 54, 58}
      <3>1. Utters(FALSE, FALSE, n)
        BY <2>3, SpeaksPlain
      <3>2. /\ text' = Expected(FALSE) /\ text = Expected(FALSE)
            /\ Prints(TimedOut) = Prints(FALSE) /\ Prints(TimedOut') = Prints(FALSE)
        BY <2>3, TextIs, TextWillBe
      <3> QED
        BY <1>2, <3>1, <3>2, Zenon DEF Utters
    <2> QED
      BY <2>1, <2>2, <2>3, TimeoutSettled
  <1>4. text' \in {Expected(timeout) : timeout \in BOOLEAN}
    <2>1. text' = Expected(TRUE) \/ text' = Expected(FALSE)
      BY TextWillBe
    <2> QED
      BY <2>1
  <1>5. /\ NoticeRest(Handler, x[19]) = <<>> /\ NoticeRest(Handler', x'[19]) = <<>>
        /\ NoticesDue(Handler)' = NoticesDue(Handler)
    BY <1>2 DEF NoticeRest, NoticesDue
  <1> HIDE DEF said, text
  <1>6. dev'.out = Append(dev.out, text'[said + 1])
    BY <1>3
  <1> QED
    BY <1>3, <1>4, <1>5, <1>6 DEF Uart0!Say, said, text

\* The handler's bytes leave the program's text as it is.
LEMMA NoticeAside ==
  ASSUME NEW n \in 1..123, NEW k \in {14, 18, 22, 26}, There(n, k), There(n, k + 1)', dev \in Device,
         NEW v, dev'.out = Append(dev.out, v)
  PROVE  /\ Handler = k /\ Handler' = k + 1
         /\ Expected(TimedOut') = Expected(TimedOut)
         /\ TextSaid(Prints(TimedOut'), Program') = TextSaid(Prints(TimedOut), Program)
  <1>1. Handler = k /\ Program = n /\ Handler' = k + 1 /\ Program' = n
    <2>1. k \in 0..31 /\ k + 1 \in 0..31
      OBVIOUS
    <2> QED
      BY <2>1, PlaceIs, PlaceWillBe
  <1>2. TimedOut' <=> TimedOut
    <2>1. n >= 94 /\ Printed(n)
      BY DEF There, Stands
    <2>2. Len(dev.out) >= 8 /\ dev.out \in Seq(Int)
      BY <2>1 DEF Printed, Device
    <2>3. Len(dev'.out) = Len(dev.out) + 1 /\ dev'.out[8] = dev.out[8]
      BY <2>2
    <2> QED
      BY <2>2, <2>3 DEF TimedOut
  <1> QED
    BY <1>1, <1>2, SameText

\* The first byte of a notice.
LEMMA BeginRefines ==
  ASSUME NEW n \in 1..123, There(n, 14), There(n, 15)', dev \in Device,
         dev'.out = Append(dev.out, UNEXPECTED), x' = x, sys' = sys
  PROVE  Uart0!Begin
  <1>1. /\ Handler = 14 /\ Handler' = 15
        /\ Expected(TimedOut') = Expected(TimedOut)
        /\ TextSaid(Prints(TimedOut'), Program') = TextSaid(Prints(TimedOut), Program)
    <2>1. 14 + 1 = 15 /\ 14 \in {14, 18, 22, 26}
      OBVIOUS
    <2> QED
      BY <2>1, NoticeAside
  <1>2. x[19] \in STRAY /\ x[19] \notin sys.pend
    BY DEF There, HandlerOk
  <1> DEFINE notices == [intid \in STRAY |-> Notice(intid)]
             due == NoticesDue(Handler)
             rest == NoticeRest(Handler, x[19])
  <1>3. Head(notices[x[19]]) = UNEXPECTED /\ Tail(notices[x[19]]) = rest' /\ rest = <<>>
    <2>1. notices[x[19]] = Notice(x[19])
      BY <1>2
    <2> QED
      BY <1>1, <1>2, <2>1, NoticeIs
  <1>4. due = sys.pend \cup {x[19]} /\ due' = sys.pend
    BY <1>1, <1>2 DEF NoticesDue
  <1>5. x[19] \in due /\ due' = due \ {x[19]}
    BY <1>2, <1>4
  <1> HIDE DEF notices, due, rest
  <1> QED
    BY <1>1, <1>3, <1>5 DEF Uart0!Begin, notices, due, rest

\* The others.
LEMMA ContinueRefines ==
  ASSUME NEW n \in 1..123, NEW k \in {18, 22, 26}, There(n, k), There(n, k + 1)', dev \in Device,
         NEW v, dev'.out = Append(dev.out, v), x' = x, sys' = sys,
         v = IF k = 18 THEN x[19] % BYTE ELSE Byte(126 + k)
  PROVE  Uart0!Continue
  <1>1. /\ Handler = k /\ Handler' = k + 1
        /\ Expected(TimedOut') = Expected(TimedOut)
        /\ TextSaid(Prints(TimedOut'), Program') = TextSaid(Prints(TimedOut), Program)
    BY NoticeAside
  <1>2. x[19] \in STRAY
    BY DEF There, HandlerOk
  <1> DEFINE due == NoticesDue(Handler)
             rest == NoticeRest(Handler, x[19])
  <1>3. due' = due
    BY <1>1 DEF NoticesDue
  <1>4. Head(rest) = v /\ Tail(rest) = rest' /\ rest # <<>>
    <2>1. CASE k = 18
      <3>1. Handler = 18 /\ Handler' = 19 /\ v = x[19] % BYTE
        BY <1>1, <2>1
      <3> QED
        BY <1>2, <3>1, NoticeIs
    <2>2. CASE k = 22
      <3>1. Handler = 22 /\ Handler' = 23 /\ v = CR
        BY <1>1, <2>2, Bytes
      <3> QED
        BY <1>2, <3>1, NoticeIs
    <2>3. CASE k = 26
      <3>1. Handler = 26 /\ Handler' = 27 /\ v = LF
        BY <1>1, <2>3, Bytes
      <3> QED
        BY <1>2, <3>1, NoticeIs
    <2> QED
      BY <2>1, <2>2, <2>3
  <1> HIDE DEF due, rest
  <1> QED
    BY <1>1, <1>3, <1>4 DEF Uart0!Continue, due, rest

-----------------------------------------------------------------------------
(* The text with a notice in it.                                           *)

\* out is the first said bytes of t, with the first j bytes of v put in behind
\* the first p.
Mixed(out, t, said, v, p, j) ==
  /\ out \in Seq(Int) /\ said \in 0..Len(t) /\ p \in 0..said /\ Len(out) = said + j
  /\ \A i \in 1..p : out[i] = t[i]
  /\ \A i \in 1..j : out[p + i] = v[i]
  /\ \A i \in (p + 1)..said : out[j + i] = t[i]

\* The next byte of a text that agrees so far.
LEMMA MixedSay ==
  ASSUME NEW out, NEW t, NEW said, NEW v, NEW p, NEW j \in Nat, Mixed(out, t, said, v, p, j),
         NEW u, Len(t) \in Nat, Len(u) \in Nat, said < Len(u), \A k \in 1..said : u[k] = t[k],
         u[said + 1] \in Int, NEW new, new = Append(out, u[said + 1])
  PROVE  Mixed(new, u, said + 1, v, p, j)
  <1>1. /\ new \in Seq(Int) /\ Len(new) = said + j + 1 /\ new[said + j + 1] = u[said + 1]
        /\ \A i \in 1..said + j : new[i] = out[i]
    BY DEF Mixed
  <1>2. said + 1 \in 0..Len(u) /\ p \in 0..said + 1 /\ Len(new) = said + 1 + j
    BY <1>1 DEF Mixed
  <1>3. \A i \in 1..p : new[i] = u[i]
    BY <1>1 DEF Mixed
  <1>4. \A i \in 1..j : new[p + i] = v[i]
    <2> SUFFICES ASSUME NEW i \in 1..j PROVE new[p + i] = v[i]
      OBVIOUS
    <2>1. p + i \in 1..said + j
      BY DEF Mixed
    <2> QED
      BY <1>1, <2>1 DEF Mixed
  <1>5. \A i \in (p + 1)..said + 1 : new[j + i] = u[i]
    <2> SUFFICES ASSUME NEW i \in (p + 1)..said + 1 PROVE new[j + i] = u[i]
      OBVIOUS
    <2>1. CASE i = said + 1
      BY <1>1, <2>1 DEF Mixed
    <2>2. CASE i \in (p + 1)..said
      <3>1. j + i \in 1..said + j /\ i \in 1..said
        BY <2>2 DEF Mixed
      <3> QED
        BY <1>1, <2>2, <3>1 DEF Mixed
    <2>3. said \in Nat /\ p \in Nat
      BY DEF Mixed
    <2>4. i = said + 1 \/ i \in (p + 1)..said
      BY <2>3
    <2> QED
      BY <2>1, <2>2, <2>4
  <1> QED
    BY <1>1, <1>2, <1>3, <1>4, <1>5 DEF Mixed

\* The next byte of a notice.
LEMMA MixedOn ==
  ASSUME NEW out, NEW t, NEW said, NEW v, NEW j \in Nat, Mixed(out, t, said, v, said, j),
         Len(t) \in Nat, v[j + 1] \in Int, NEW new, new = Append(out, v[j + 1])
  PROVE  Mixed(new, t, said, v, said, j + 1)
  <1>1. /\ new \in Seq(Int) /\ Len(new) = said + j + 1 /\ new[said + j + 1] = v[j + 1]
        /\ \A i \in 1..said + j : new[i] = out[i]
    BY DEF Mixed
  <1>2. \A i \in 1..said : new[i] = t[i]
    BY <1>1 DEF Mixed
  <1>3. \A i \in 1..j + 1 : new[said + i] = v[i]
    <2> SUFFICES ASSUME NEW i \in 1..j + 1 PROVE new[said + i] = v[i]
      OBVIOUS
    <2>1. CASE i = j + 1
      BY <1>1, <2>1 DEF Mixed
    <2>2. CASE i \in 1..j
      BY <1>1, <2>2 DEF Mixed
    <2>3. i = j + 1 \/ i \in 1..j
      OBVIOUS
    <2> QED
      BY <2>1, <2>2, <2>3
  <1>4. said \in Nat /\ Len(new) = said + (j + 1) /\ said \in 0..said
    BY <1>1 DEF Mixed
  <1>5. \A i \in (said + 1)..said : new[(j + 1) + i] = t[i]
    BY <1>4
  <1> QED
    BY <1>1, <1>2, <1>3, <1>4, <1>5 DEF Mixed

\* Where no notice has begun one may.
LEMMA MixedNone ==
  ASSUME NEW out, NEW t, NEW said, NEW v, NEW p, Len(t) \in Nat, Mixed(out, t, said, v, p, 0), NEW w
  PROVE  Mixed(out, t, said, w, said, 0) /\ \A i \in 1..said : out[i] = t[i]
  <1>1. \A i \in 1..said : out[i] = t[i]
    BY DEF Mixed
  <1> QED
    BY <1>1 DEF Mixed

\* The texts and the notices are sequences of bytes.
LEMMA TextBytes ==
  /\ \A t \in {Expected(timeout) : timeout \in BOOLEAN} : t \in Seq(Int) /\ Len(t) \in Nat
  /\ \A i \in STRAY : Notice(i) \in Seq(Int) /\ Len(Notice(i)) = 4
  <1>1. \A p \in Int : Line(<<p>>) \in Seq(Int)
    BY DEF Line, CR, LF
  <1>2. Line(<<HELLO, 50>>) \in Seq(Int)
    BY DEF Line, CR, LF, HELLO
  <1>3. <<BANNER, LF, GOT_IRQ, 50, 97, LF, DONE, LF>> \in Seq(Int)
    BY DEF BANNER, LF, GOT_IRQ, DONE
  <1>4. ASSUME NEW timeout \in BOOLEAN
        PROVE  Expected(timeout) \in Seq(Int)
    <2>1. (IF timeout THEN Line(<<TIMEOUT>>) ELSE <<>>) \in Seq(Int)
      BY <1>1 DEF TIMEOUT
    <2>2. Line(<<GIC_INIT>>) \in Seq(Int) /\ Line(<<PPI_ON>>) \in Seq(Int) /\ Line(<<LR0_LOADED>>) \in Seq(Int)
      BY <1>1 DEF GIC_INIT, PPI_ON, LR0_LOADED
    <2> QED
      BY <1>2, <1>3, <2>1, <2>2 DEF Expected
  <1>5. ASSUME NEW i \in STRAY
        PROVE  Notice(i) \in Seq(Int) /\ Len(Notice(i)) = 4
    <2>1. i % BYTE \in Int
      BY Stage4Assumption, ByteAssumption
    <2> QED
      BY <2>1 DEF Notice, UNEXPECTED, CR, LF
  <1> QED
    BY <1>4, <1>5

\* What is on the console if one interrupt at most gets a notice: said bytes of
\* t, and the notice, as far as it is out, behind the first p of them.
WithNotice(out, t, said, rest, i, p, j) ==
  /\ Mixed(out, t, said, Notice(i), p, j) /\ (j < 4 => p = said)
  /\ rest \in Seq(Int) /\ Len(rest) = 4 - j /\ \A m \in 1..4 - j : rest[m] = Notice(i)[j + m]
Shown(out, t, said, rest, due) ==
  /\ t \in {Expected(timeout) : timeout \in BOOLEAN}
  /\ \/ rest = <<>> /\ due \subseteq STRAY /\ Mixed(out, t, said, <<>>, said, 0)
     \/ due = {} /\ \E i, p, j : i \in STRAY /\ j \in 1..4 /\ WithNotice(out, t, said, rest, i, p, j)

\* Console's Say.
LEMMA ShownSay ==
  ASSUME NEW out, NEW t, NEW said, NEW due, Shown(out, t, said, <<>>, due),
         NEW u \in {Expected(timeout) : timeout \in BOOLEAN},
         said < Len(u), \A k \in 1..said : u[k] = t[k],
         NEW new, new = Append(out, u[said + 1])
  PROVE  Shown(new, u, said + 1, <<>>, due)
  <1>1. t \in Seq(Int) /\ Len(t) \in Nat /\ u \in Seq(Int) /\ Len(u) \in Nat
    BY TextBytes DEF Shown
  <1>2. CASE due \subseteq STRAY /\ Mixed(out, t, said, <<>>, said, 0)
    <2>1. u[said + 1] \in Int
      BY <1>1, <1>2 DEF Mixed
    <2>2. Mixed(new, u, said + 1, <<>>, said, 0)
      BY <1>1, <1>2, <2>1, MixedSay
    <2>3. Mixed(new, u, said + 1, <<>>, said + 1, 0)
      BY <1>1, <2>2, MixedNone
    <2> QED
      BY <1>2, <2>3 DEF Shown
  <1>3. ASSUME due = {}, NEW i, NEW p, NEW j, i \in STRAY, j \in 1..4, WithNotice(out, t, said, <<>>, i, p, j)
        PROVE  Shown(new, u, said + 1, <<>>, due)
    <2>1. j = 4
      BY <1>3 DEF WithNotice
    <2>2. u[said + 1] \in Int /\ j \in Nat
      BY <1>1, <1>3 DEF WithNotice, Mixed
    <2>3. Mixed(new, u, said + 1, Notice(i), p, j)
      BY <1>1, <1>3, <2>2, MixedSay DEF WithNotice
    <2>4. WithNotice(new, u, said + 1, <<>>, i, p, j)
      BY <1>3, <2>1, <2>3 DEF WithNotice
    <2> QED
      BY <1>3, <2>4 DEF Shown
  <1> QED
    BY <1>2, <1>3 DEF Shown

\* What is left of a notice when its first byte is out.
LEMMA TailIs ==
  ASSUME NEW s \in Seq(Int), s # <<>>, NEW r, r = Tail(s)
  PROVE  r \in Seq(Int) /\ Len(r) = Len(s) - 1 /\ \A m \in 1..Len(s) - 1 : r[m] = s[m + 1]
  OBVIOUS

\* Console's Begin.
LEMMA ShownBegin ==
  ASSUME \A i, j \in STRAY : i = j,
         NEW out, NEW t, NEW said, NEW due, Shown(out, t, said, <<>>, due), NEW i \in due,
         NEW new, new = Append(out, Head(Notice(i))), NEW rest, rest = Tail(Notice(i)),
         NEW left, left = due \ {i}
  PROVE  Shown(new, t, said, rest, left)
  <1>1. t \in Seq(Int) /\ Len(t) \in Nat /\ due \subseteq STRAY /\ Mixed(out, t, said, <<>>, said, 0)
    BY TextBytes DEF Shown
  <1>2. i \in STRAY /\ left = {}
    BY <1>1
  <1> DEFINE v == Notice(i)
  <1>3. v \in Seq(Int) /\ Len(v) = 4 /\ v # <<>>
    BY <1>2, TextBytes
  <1> HIDE DEF v
  <1>4. PICK j : j = 0
    OBVIOUS
  <1>5. j \in Nat /\ v[j + 1] \in Int /\ Mixed(out, t, said, v, said, j) /\ new = Append(out, v[j + 1])
    <2>1. Mixed(out, t, said, v, said, 0)
      BY <1>1, MixedNone
    <2>2. Head(v) = v[1] /\ v[1] \in Int
      BY <1>3
    <2> QED
      BY <1>4, <2>1, <2>2 DEF v
  <1>6. Mixed(new, t, said, v, said, j + 1)
    BY <1>1, <1>5, MixedOn
  <1>7. rest \in Seq(Int) /\ Len(rest) = 4 - (j + 1) /\ \A m \in 1..4 - (j + 1) : rest[m] = v[(j + 1) + m]
    <2>1. rest = Tail(v) /\ Len(v) = 4 - j
      BY <1>3, <1>4 DEF v
    <2>2. rest \in Seq(Int) /\ Len(rest) = Len(v) - 1 /\ \A m \in 1..Len(v) - 1 : rest[m] = v[m + 1]
      BY <1>3, <2>1, TailIs
    <2>3. Len(v) - 1 = 4 - (j + 1) /\ \A m \in Int : m + 1 = (j + 1) + m
      BY <1>4, <2>1
    <2> QED
      BY <1>5, <2>2, <2>3
  <1>8. j + 1 \in 1..4
    BY <1>4
  <1>9. WithNotice(new, t, said, rest, i, said, j + 1)
    BY <1>6, <1>7 DEF WithNotice, v
  <1> QED
    BY <1>2, <1>8, <1>9 DEF Shown

\* Console's Continue.
LEMMA ShownContinue ==
  ASSUME NEW out, NEW t, NEW said, NEW rest, NEW due, Shown(out, t, said, rest, due), rest # <<>>,
         NEW new, new = Append(out, Head(rest)), NEW less, less = Tail(rest)
  PROVE  Shown(new, t, said, less, due)
  <1>1. t \in Seq(Int) /\ Len(t) \in Nat /\ due = {}
    BY TextBytes DEF Shown
  <1>2. PICK i, p, j : i \in STRAY /\ j \in 1..4 /\ WithNotice(out, t, said, rest, i, p, j)
    BY DEF Shown
  <1> DEFINE v == Notice(i)
  <1>3. v \in Seq(Int) /\ Len(v) = 4
    BY <1>2, TextBytes
  <1>4. /\ Mixed(out, t, said, v, p, j) /\ (j < 4 => p = said)
        /\ rest \in Seq(Int) /\ Len(rest) = 4 - j /\ \A m \in 1..4 - j : rest[m] = v[j + m]
    BY <1>2 DEF WithNotice
  <1> HIDE DEF v
  <1>5. j \in 1..3 /\ p = said
    BY <1>2, <1>4
  <1>6. Head(rest) = v[j + 1] /\ v[j + 1] \in Int /\ j \in Nat
    BY <1>3, <1>4, <1>5
  <1>7. Mixed(new, t, said, v, said, j + 1)
    BY <1>1, <1>4, <1>5, <1>6, MixedOn
  <1>8. less \in Seq(Int) /\ Len(less) = 4 - (j + 1) /\ \A m \in 1..4 - (j + 1) : less[m] = v[(j + 1) + m]
    BY <1>4, <1>5
  <1>9. WithNotice(new, t, said, less, i, said, j + 1) /\ j + 1 \in 1..4
    BY <1>5, <1>7, <1>8 DEF WithNotice, v
  <1> QED
    BY <1>1, <1>2, <1>9 DEF Shown

\* A sequence that agrees with another as far as it goes is a part of it.
LEMMA PartIs ==
  ASSUME NEW s \in Seq(Int), NEW u \in Seq(Int), NEW n, n = Len(s), n <= Len(u), \A i \in 1..n : s[i] = u[i]
  PROVE  s = SubSeq(u, 1, n)
  <1>1. Len(u) \in Nat /\ n \in Nat
    OBVIOUS
  <1> DEFINE r == SubSeq(u, 1, n)
  <1>2. r \in Seq(Int) /\ Len(r) = n /\ \A i \in 1..n : r[i] = u[i]
    BY <1>1
  <1> HIDE DEF r
  <1>3. s = [i \in 1..n |-> u[i]] /\ r = [i \in 1..n |-> u[i]]
    <2>1. s = [i \in 1..Len(s) |-> s[i]] /\ r = [i \in 1..Len(r) |-> r[i]]
      BY <1>2
    <2> QED
      BY <1>2, <2>1
  <1> QED
    BY <1>1, <1>3 DEF r

\* The bytes of two texts, one after the other.
After(c, a, j, b, k) ==
  /\ c \in Seq(Int) /\ Len(c) = j + k
  /\ \A i \in 1..j : c[i] = a[i]
  /\ \A i \in 1..k : c[j + i] = b[i]

\* They are what putting the texts together makes.
LEMMA AfterIs ==
  ASSUME NEW a \in Seq(Int), NEW b \in Seq(Int), NEW c, c = a \o b
  PROVE  After(c, a, Len(a), b, Len(b))
  BY DEF After

\* A notice in the middle of a text, byte by byte.
Around(u, t, l, v, p) ==
  /\ Len(u) = l + 4
  /\ \A i \in 1..p : u[i] = t[i]
  /\ \A i \in 1..4 : u[p + i] = v[i]
  /\ \A i \in (p + 1)..l : u[4 + i] = t[i]

\* a is k bytes of t from the one behind the p-th on.
Piecewise(a, t, p, k) == \A i \in 1..k : a[i] = t[p + i]

\* It is what putting the three parts together makes.
LEMMA Between ==
  ASSUME NEW t, NEW v, NEW a, NEW b, NEW c, NEW u, NEW l \in Nat, NEW p \in 0..l,
         Piecewise(a, t, 0, p), Piecewise(c, t, p, l - p),
         After(b, a, p, v, 4), After(u, b, p + 4, c, l - p)
  PROVE  Around(u, t, l, v, p)
  <1>1. /\ \A i \in 1..p : b[i] = a[i]
        /\ \A i \in 1..4 : b[p + i] = v[i]
    BY DEF After
  <1>2. /\ Len(u) = (p + 4) + (l - p)
        /\ \A i \in 1..p + 4 : u[i] = b[i]
        /\ \A i \in 1..l - p : u[(p + 4) + i] = c[i]
    BY DEF After
  <1>3. ASSUME NEW i \in (p + 1)..l
        PROVE  u[4 + i] = t[i]
    <2>1. PICK k : k = i - p
      OBVIOUS
    <2>2. k \in 1..l - p /\ (p + 4) + k = 4 + i /\ p + k = i
      BY <2>1
    <2> QED
      BY <1>2, <2>2 DEF Piecewise
  <1>4. \A i \in 1..p : u[i] = t[i]
    BY <1>1, <1>2 DEF Piecewise
  <1>5. ASSUME NEW i \in 1..4
        PROVE  u[p + i] = v[i]
    <2>1. p + i \in 1..p + 4
      OBVIOUS
    <2> QED
      BY <1>1, <1>2, <2>1
  <1>6. Len(u) = l + 4
    BY <1>2
  <1> QED
    BY <1>3, <1>4, <1>5, <1>6 DEF Around

\* A text with a notice put in.
LEMMA AroundIs ==
  ASSUME NEW t \in Seq(Int), NEW v \in Seq(Int), Len(v) = 4, NEW p \in 0..Len(t),
         NEW u, u = SubSeq(t, 1, p) \o v \o SubSeq(t, p + 1, Len(t))
  PROVE  u \in Seq(Int) /\ Around(u, t, Len(t), v, p)
  <1> DEFINE a == SubSeq(t, 1, p)
             c == SubSeq(t, p + 1, Len(t))
             b == a \o v
  <1>1. Len(t) \in Nat /\ p \in Nat /\ p <= Len(t)
    OBVIOUS
  <1>2. a \in Seq(Int) /\ Len(a) = p /\ \A i \in 1..p : a[i] = t[i]
    BY <1>1
  <1>3. c \in Seq(Int) /\ Len(c) = Len(t) - p /\ \A i \in 1..Len(t) - p : c[i] = t[p + i]
    BY <1>1
  <1>4. u = b \o c /\ b = a \o v
    OBVIOUS
  <1> HIDE DEF a, b, c
  <1>5. After(b, a, p, v, 4)
    BY <1>2, <1>4, AfterIs
  <1>6. b \in Seq(Int) /\ Len(b) = p + 4
    BY <1>5 DEF After
  <1>7. After(u, b, p + 4, c, Len(t) - p)
    BY <1>3, <1>4, <1>6, AfterIs
  <1>8. Around(u, t, Len(t), v, p)
    <2>1. Piecewise(a, t, 0, p) /\ Piecewise(c, t, p, Len(t) - p)
      BY <1>1, <1>2, <1>3 DEF Piecewise
    <2> QED
      BY <1>1, <1>5, <1>7, <2>1, Between
  <1> QED
    BY <1>7, <1>8 DEF After

\* It is one of the texts that Transcripts has for it.
LEMMA NoticedIs ==
  ASSUME NEW t, NEW n \in 0..Len(t), NEW k \in STRAY
  PROVE  SubSeq(t, 1, n) \o Notice(k) \o SubSeq(t, n + 1, Len(t)) \in Noticed(t)
  <1> DEFINE F(a, b) == SubSeq(t, 1, a) \o Notice(b) \o SubSeq(t, a + 1, Len(t))
  <1>1. Noticed(t) = {F(a, b) : a \in 0..Len(t), b \in STRAY}
    BY DEF Noticed
  <1> HIDE DEF F
  <1>2. F(n, k) \in Noticed(t)
    BY <1>1
  <1> QED
    BY <1>2 DEF F

\* What is shown is the beginning of a transcript.
LEMMA ShownIs ==
  ASSUME NEW out, NEW t, NEW said, NEW rest, NEW due, Shown(out, t, said, rest, due)
  PROVE  \E u \in Transcripts : Len(out) <= Len(u) /\ out = SubSeq(u, 1, Len(out))
  <1>1. t \in Seq(Int) /\ Len(t) \in Nat /\ t \in {Expected(timeout) : timeout \in BOOLEAN}
    BY TextBytes DEF Shown
  <1>2. CASE Mixed(out, t, said, <<>>, said, 0)
    <2>1. out \in Seq(Int) /\ Len(out) <= Len(t) /\ \A i \in 1..Len(out) : out[i] = t[i]
      BY <1>1, <1>2 DEF Mixed
    <2>2. t \in Transcripts
      BY <1>1, Zenon DEF Transcripts
    <2> QED
      BY <1>1, <2>1, <2>2, PartIs
  <1>3. ASSUME NEW i, NEW p, NEW j, i \in STRAY, j \in 1..4, WithNotice(out, t, said, rest, i, p, j)
        PROVE  \E u \in Transcripts : Len(out) <= Len(u) /\ out = SubSeq(u, 1, Len(out))
    <2> DEFINE v == Notice(i)
               u == SubSeq(t, 1, p) \o v \o SubSeq(t, p + 1, Len(t))
    <2>1. v \in Seq(Int) /\ Len(v) = 4
      BY <1>3, TextBytes
    <2>2. Mixed(out, t, said, v, p, j) /\ (j < 4 => p = said)
      BY <1>3 DEF WithNotice
    <2>3. u \in Transcripts
      <3>1. p \in 0..Len(t)
        BY <1>1, <2>2 DEF Mixed
      <3> QED
        <4>1. u \in Noticed(t)
          BY <1>3, <3>1, NoticedIs
        <4> HIDE DEF u
        <4> QED
          BY <1>1, <4>1, Zenon DEF Transcripts
    <2> HIDE DEF v
    <2>4. p \in 0..Len(t) /\ said \in Nat /\ said <= Len(t) /\ p <= said
      BY <1>1, <2>2 DEF Mixed
    <2>5. u \in Seq(Int) /\ Around(u, t, Len(t), v, p)
      BY <1>1, <2>1, <2>4, AroundIs, Zenon
    <2> HIDE DEF u
    <2>6. out \in Seq(Int) /\ Len(out) = said + j /\ Len(out) <= Len(u)
      <3>1. out \in Seq(Int) /\ Len(out) = said + j
        BY <2>2 DEF Mixed
      <3>2. Len(u) = Len(t) + 4
        BY <2>5 DEF Around
      <3> QED
        BY <1>1, <1>3, <2>4, <3>1, <3>2
    <2>7. ASSUME NEW m \in 1..Len(out)
          PROVE  out[m] = u[m]
      <3>1. CASE m <= p
        <4>1. m \in 1..p
          BY <2>4, <2>6, <3>1
        <4>2. out[m] = t[m]
          BY <2>2, <4>1 DEF Mixed
        <4>3. u[m] = t[m]
          BY <2>5, <4>1 DEF Around
        <4> QED
          BY <4>2, <4>3
      <3>2. CASE m > p /\ m <= p + j
        <4>1. PICK k : k = m - p
          OBVIOUS
        <4>2. k \in 1..j /\ k \in 1..4 /\ p + k = m
          BY <1>3, <2>4, <3>2, <4>1
        <4> QED
          BY <2>2, <2>5, <4>2 DEF Mixed, Around
      <3>3. CASE m > p + j
        <4>1. PICK k : k = m - j
          OBVIOUS
        <4>2. k \in (p + 1)..said /\ j + k = m
          BY <1>3, <2>4, <2>6, <3>3, <4>1
        <4>3. j = 4 /\ k \in (p + 1)..Len(t)
          BY <1>1, <1>3, <2>2, <2>4, <4>2
        <4> QED
          BY <2>2, <2>5, <4>2, <4>3 DEF Mixed, Around
      <3> QED
        BY <1>3, <2>4, <3>1, <3>2, <3>3
    <2>8. out = SubSeq(u, 1, Len(out))
      BY <2>5, <2>6, <2>7, PartIs
    <2> QED
      BY <2>3, <2>6, <2>8
  <1> QED
    BY <1>2, <1>3 DEF Shown

\* What is on the console, if one interrupt at most gets a notice.
ConsoleShows ==
  Shown(dev.out, Expected(TimedOut), TextSaid(Prints(TimedOut), Program), NoticeRest(Handler, x[19]),
        NoticesDue(Handler))

\* Every step of Console keeps it.
LEMMA ConsoleShowsNext ==
  ASSUME \A i, j \in STRAY : i = j, ConsoleShows, [Uart0!Next]_(Uart0!vars)
  PROVE  ConsoleShows'
  <1> DEFINE out == dev.out
             text == Expected(TimedOut)
             said == TextSaid(Prints(TimedOut), Program)
             rest == NoticeRest(Handler, x[19])
             due == NoticesDue(Handler)
  <1>1. Shown(out, text, said, rest, due)
    BY DEF ConsoleShows
  <1>2. CASE Uart0!Say
    <2>1. PICK t \in {Expected(timeout) : timeout \in BOOLEAN} :
            /\ said < Len(t) /\ \A k \in 1..said : t[k] = text[k]
            /\ text' = t /\ said' = said + 1
            /\ out' = Append(out, t[said + 1])
      BY <1>2, Zenon DEF Uart0!Say
    <2>2. rest = <<>> /\ rest' = rest /\ due' = due
      BY <1>2, Zenon DEF Uart0!Say
    <2> HIDE DEF out, text, said, rest, due
    <2>3. Shown(out, text, said, <<>>, due)
      BY <1>1, <2>2
    <2>4. Shown(out', t, said + 1, <<>>, due)
      BY <2>1, <2>3, ShownSay, Zenon
    <2>5. Shown(out', text', said', rest', due')
      BY <2>1, <2>2, <2>4, Zenon
    <2> QED
      BY <2>5, Zenon DEF ConsoleShows, out, text, said, rest, due
  <1>3. CASE Uart0!Begin
    <2>1. PICK i \in due :
            /\ out' = Append(out, Head([intid \in STRAY |-> Notice(intid)][i]))
            /\ rest' = Tail([intid \in STRAY |-> Notice(intid)][i])
            /\ due' = due \ {i}
      BY <1>3, Zenon DEF Uart0!Begin
    <2>2. rest = <<>> /\ text' = text /\ said' = said
      BY <1>3, Zenon DEF Uart0!Begin
    <2> HIDE DEF out, text, said, rest, due
    <2>3. Shown(out, text, said, <<>>, due)
      BY <1>1, <2>2
    <2>4. i \in STRAY
      BY <2>1, <2>3 DEF Shown
    <2>5. out' = Append(out, Head(Notice(i))) /\ rest' = Tail(Notice(i))
      BY <2>1, <2>4, Zenon
    <2>6. Shown(out', text, said, rest', due')
      BY <2>1, <2>3, <2>5, ShownBegin, Zenon
    <2>7. Shown(out', text', said', rest', due')
      BY <2>2, <2>6, Zenon
    <2> QED
      BY <2>7, Zenon DEF ConsoleShows, out, text, said, rest, due
  <1>4. CASE Uart0!Continue
    <2>1. /\ rest # <<>> /\ out' = Append(out, Head(rest)) /\ rest' = Tail(rest)
          /\ text' = text /\ said' = said /\ due' = due
      BY <1>4, Zenon DEF Uart0!Continue
    <2> HIDE DEF out, text, said, rest, due
    <2>2. Shown(out', text, said, rest', due)
      BY <1>1, <2>1, ShownContinue, Zenon
    <2>3. Shown(out', text', said', rest', due')
      BY <2>1, <2>2, Zenon
    <2> QED
      BY <2>3, Zenon DEF ConsoleShows, out, text, said, rest, due
  <1>5. CASE UNCHANGED Uart0!vars
    <2>1. out' = out /\ text' = text /\ said' = said /\ rest' = rest /\ due' = due
      BY <1>5, Zenon DEF Uart0!vars
    <2> HIDE DEF out, text, said, rest, due
    <2>2. Shown(out', text', said', rest', due')
      BY <1>1, <2>1, Zenon
    <2> QED
      BY <2>2, Zenon DEF ConsoleShows, out, text, said, rest, due
  <1> QED
    BY <1>2, <1>3, <1>4, <1>5 DEF Uart0!Next

=============================================================================
