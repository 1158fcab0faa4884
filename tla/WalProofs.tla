------------------------------- MODULE WalProofs -------------------------------
(****************************************************************************)
(* Theorems about the write-ahead log file, for every record length, every  *)
(* buffer size and any number of records, crashes and failed writes.        *)
(****************************************************************************)
EXTENDS Wal, DataLemmas

(* The cells of a record, when sz has the payload lengths.                  *)
Span(sz, n) == HeaderSize + sz[n] + TrailerSize

(* The records rs stand in f one behind the other, the k-th at offset o[k], *)
(* and the last one ends at e.                                              *)
Laid(sz, f, rs, o, e) ==
  /\ e \in 0 .. Len(f) /\ o \in [1 .. Len(rs) + 1 -> 0 .. e] /\ o[Len(rs) + 1] = e
  /\ \A k \in 1 .. Len(rs) :
       /\ rs[k] \in 1 .. Len(sz)
       /\ o[k + 1] = o[k] + Span(sz, rs[k])
       /\ \A i \in 1 .. Span(sz, rs[k]) : f[o[k] + i] = <<rs[k], i>>

(* The first of the records stands at offset p.                             *)
StartsAt(o, p) == o[1] = p

(* A write leaves what stands before it, and what it wrote stands there.    *)
LEMMA WriteShape ==
  ASSUME NEW C, NEW f \in Seq(C), NEW d \in Seq(C), NEW c \in 0 .. Len(f)
  PROVE  /\ Write(f, c, d) \in Seq(C)
         /\ Len(Write(f, c, d)) = IF c + Len(d) > Len(f) THEN c + Len(d) ELSE Len(f)
         /\ \A i \in 1 .. c : Write(f, c, d)[i] = f[i]
         /\ \A i \in 1 .. Len(d) : Write(f, c, d)[c + i] = d[i]
         /\ \A i \in c + Len(d) + 1 .. Len(f) : Write(f, c, d)[i] = f[i]
<1> DEFINE n == IF c + Len(d) > Len(f) THEN c + Len(d) ELSE Len(f)
           w(i) == IF c < i /\ i <= c + Len(d) THEN d[i - c] ELSE f[i]
<1>1. n \in Nat /\ Len(f) \in Nat /\ Len(d) \in Nat /\ c \in Nat
  OBVIOUS
<1>2. ASSUME NEW i \in 1 .. n PROVE w(i) \in C
  <2>1. CASE c < i /\ i <= c + Len(d)
    <3>1. i - c \in 1 .. Len(d)
      BY <1>1, <2>1
    <3> QED BY <2>1, <3>1
  <2>2. CASE ~(c < i /\ i <= c + Len(d))
    <3>1. i \in 1 .. Len(f)
      BY <1>1, <2>2
    <3> QED BY <2>2, <3>1
  <2> QED BY <2>1, <2>2
<1>3. Write(f, c, d) = [i \in 1 .. n |-> w(i)]
  BY DEF Write
<1>4. Write(f, c, d) \in Seq(C) /\ Len(Write(f, c, d)) = n
  <2> HIDE DEF w, n
  <2> QED BY <1>1, <1>2, <1>3
<1>5. \A i \in 1 .. n : Write(f, c, d)[i] = w(i)
  BY <1>3
<1>6. ASSUME NEW i \in 1 .. Len(d) PROVE Write(f, c, d)[c + i] = d[i]
  <2>1. c + i \in 1 .. n /\ c < c + i /\ c + i <= c + Len(d) /\ (c + i) - c = i
    BY <1>1
  <2> QED BY <1>5, <2>1
<1>7. \A i \in (1 .. c) \cup (c + Len(d) + 1 .. Len(f)) :
         i \in 1 .. n /\ ~(c < i /\ i <= c + Len(d))
  BY <1>1
<1>8. \A i \in (1 .. c) \cup (c + Len(d) + 1 .. Len(f)) : Write(f, c, d)[i] = f[i]
  BY <1>5, <1>7
<1> QED BY <1>4, <1>6, <1>8

LEMMA WriteNothing ==
  ASSUME NEW C, NEW f \in Seq(C), NEW c \in 0 .. Len(f)
  PROVE  Write(f, c, <<>>) = f
<1>1. <<>> \in Seq(C) /\ Len(<<>>) = 0
  OBVIOUS
<1>2. ASSUME NEW d \in Seq(C), d = <<>> PROVE Write(f, c, d) = f
  <2>1. /\ Write(f, c, d) \in Seq(C)
        /\ Len(Write(f, c, d)) = IF c + Len(d) > Len(f) THEN c + Len(d) ELSE Len(f)
        /\ \A i \in 1 .. c : Write(f, c, d)[i] = f[i]
        /\ \A i \in c + Len(d) + 1 .. Len(f) : Write(f, c, d)[i] = f[i]
    BY WriteShape
  <2>2. Len(d) = 0
    BY <1>2
  <2>3. Len(Write(f, c, d)) = Len(f) /\ \A i \in 1 .. Len(f) : Write(f, c, d)[i] = f[i]
    BY <2>1, <2>2
  <2> QED BY <2>1, <2>3
<1> QED BY <1>1, <1>2

(* Writing on where a write ended is one write of both.                     *)
LEMMA WriteTwice ==
  ASSUME NEW C, NEW f \in Seq(C), NEW a \in Seq(C), NEW b \in Seq(C), NEW c \in 0 .. Len(f)
  PROVE  Write(Write(f, c, a), c + Len(a), b) = Write(f, c, a \o b)
<1> DEFINE ab == a \o b
           g == Write(f, c, a)
           h == Write(g, c + Len(a), b)
           w == Write(f, c, ab)
<1>0. Len(f) \in Nat /\ Len(a) \in Nat /\ Len(b) \in Nat /\ c \in Nat
  OBVIOUS
<1>1. /\ g \in Seq(C)
      /\ Len(g) = IF c + Len(a) > Len(f) THEN c + Len(a) ELSE Len(f)
      /\ \A i \in 1 .. c : g[i] = f[i]
      /\ \A i \in 1 .. Len(a) : g[c + i] = a[i]
      /\ \A i \in c + Len(a) + 1 .. Len(f) : g[i] = f[i]
  BY WriteShape
<1>2. a \o b \in Seq(C) /\ Len(a \o b) = Len(a) + Len(b)
      /\ (\A i \in 1 .. Len(a) : (a \o b)[i] = a[i])
      /\ (\A i \in 1 .. Len(b) : (a \o b)[Len(a) + i] = b[i])
  OBVIOUS
<1>3. /\ w \in Seq(C)
      /\ Len(w) = IF c + Len(ab) > Len(f) THEN c + Len(ab) ELSE Len(f)
      /\ \A i \in 1 .. c : w[i] = f[i]
      /\ \A i \in 1 .. Len(ab) : w[c + i] = ab[i]
      /\ \A i \in c + Len(ab) + 1 .. Len(f) : w[i] = f[i]
  <2>1. ab \in Seq(C)
    BY <1>2
  <2> HIDE DEF ab
  <2> QED BY <2>1, WriteShape
<1> HIDE DEF g, w
<1>4. c + Len(a) \in 0 .. Len(g)
  BY <1>0, <1>1
<1>5. /\ h \in Seq(C)
      /\ Len(h) = IF c + Len(a) + Len(b) > Len(g) THEN c + Len(a) + Len(b) ELSE Len(g)
      /\ \A i \in 1 .. c + Len(a) : h[i] = g[i]
      /\ \A i \in 1 .. Len(b) : h[c + Len(a) + i] = b[i]
      /\ \A i \in c + Len(a) + Len(b) + 1 .. Len(g) : h[i] = g[i]
  BY <1>1, <1>4, WriteShape
<1> HIDE DEF h, ab
<1>6. Len(h) = Len(w)
  BY <1>0, <1>1, <1>2, <1>3, <1>5 DEF ab
<1>7. ASSUME NEW i \in 1 .. Len(h) PROVE h[i] = w[i]
  <2>1. CASE i <= c
    BY <1>0, <1>1, <1>3, <1>5, <2>1
  <2>2. CASE c < i /\ i <= c + Len(a)
    <3> DEFINE j == i - c
    <3>1. j \in 1 .. Len(a) /\ i = c + j /\ j \in 1 .. Len(ab)
      BY <1>0, <1>2, <2>2 DEF ab
    <3> HIDE DEF j
    <3>2. w[i] = ab[j] /\ g[i] = a[j] /\ ab[j] = a[j]
      BY <1>1, <1>2, <1>3, <3>1 DEF ab
    <3> QED BY <1>0, <1>5, <2>2, <3>2
  <2>3. CASE c + Len(a) < i /\ i <= c + Len(a) + Len(b)
    <3> DEFINE j == i - c - Len(a)
    <3>1. j \in 1 .. Len(b) /\ i = c + Len(a) + j /\ i = c + (Len(a) + j)
          /\ Len(a) + j \in 1 .. Len(ab)
      BY <1>0, <1>2, <2>3 DEF ab
    <3> HIDE DEF j
    <3>2. w[i] = ab[Len(a) + j] /\ h[i] = b[j] /\ ab[Len(a) + j] = b[j]
      BY <1>2, <1>3, <1>5, <3>1 DEF ab
    <3> QED BY <3>2
  <2>4. CASE c + Len(a) + Len(b) < i
    BY <1>0, <1>1, <1>2, <1>3, <1>5, <2>4 DEF ab
  <2> QED BY <1>0, <1>5, <2>1, <2>2, <2>3, <2>4
<1>8. h = w
  BY <1>3, <1>5, <1>6, <1>7
<1> QED BY <1>8 DEF h, g, w, ab
-------------------------------------------------------------------------------
(* What is laid out in a file, through a write behind it, a write of the    *)
(* next record, and as seen from one of its prefixes.                       *)
LEMMA LaidOffsets ==
  ASSUME NEW sz, NEW f, NEW rs, NEW o, NEW e, Laid(sz, f, rs, o, e),
         Len(rs) \in Nat, Len(f) \in Nat
  PROVE  /\ e \in Nat /\ e <= Len(f) /\ o[Len(rs) + 1] = e /\ o[1] \in Nat
         /\ \A k \in 1 .. Len(rs) + 1 : o[k] \in Nat /\ o[k] <= e
<1>1. /\ e \in 0 .. Len(f) /\ o[Len(rs) + 1] = e
      /\ o \in [1 .. Len(rs) + 1 -> 0 .. e]
  BY DEF Laid
<1>2. \A k \in 1 .. Len(rs) + 1 : o[k] \in 0 .. e
  BY <1>1
<1>3. 1 \in 1 .. Len(rs) + 1
  OBVIOUS
<1> QED BY <1>1, <1>2, <1>3

LEMMA LaidAt ==
  ASSUME NEW sz, NEW f, NEW rs, NEW o, NEW e, Laid(sz, f, rs, o, e),
         Len(rs) \in Nat, Len(f) \in Nat, NEW k \in 1 .. Len(rs)
  PROVE  /\ o[k] \in Nat /\ o[k + 1] \in Nat /\ o[k] <= e /\ o[k + 1] <= e
         /\ rs[k] \in 1 .. Len(sz) /\ o[k + 1] = o[k] + Span(sz, rs[k])
         /\ \A i \in 1 .. Span(sz, rs[k]) : f[o[k] + i] = <<rs[k], i>>
<1>1. k \in 1 .. Len(rs) + 1 /\ k + 1 \in 1 .. Len(rs) + 1
  OBVIOUS
<1>2. o[k] \in Nat /\ o[k + 1] \in Nat /\ o[k] <= e /\ o[k + 1] <= e
  BY <1>1, LaidOffsets
<1> QED BY <1>2 DEF Laid

LEMMA LaidAlike ==
  ASSUME NEW sz, NEW f, NEW g, NEW rs, NEW o, NEW e, Laid(sz, f, rs, o, e),
         Len(rs) \in Nat, Len(f) \in Nat, Len(g) \in Nat, e <= Len(g),
         \A n \in 1 .. Len(sz) : Span(sz, n) \in Nat,
         \A i \in 1 .. e : g[i] = f[i]
  PROVE  Laid(sz, g, rs, o, e)
<1>1. ASSUME NEW k \in 1 .. Len(rs), NEW i \in 1 .. Span(sz, rs[k])
      PROVE  g[o[k] + i] = <<rs[k], i>>
  <2>0. rs[k] \in 1 .. Len(sz) /\ o[k] \in Nat /\ o[k + 1] <= e
        /\ o[k + 1] = o[k] + Span(sz, rs[k]) /\ f[o[k] + i] = <<rs[k], i>>
    BY <1>1, LaidAt
  <2>1. Span(sz, rs[k]) \in Nat /\ e \in Nat
    BY <2>0, LaidOffsets
  <2>2. o[k] + i \in 1 .. e
    <3>1. i \in Int /\ 1 <= i /\ i <= Span(sz, rs[k])
      BY <2>1
    <3>2. o[k] + Span(sz, rs[k]) <= e
      BY <2>0
    <3>3. o[k] \in Nat /\ e \in Nat /\ Span(sz, rs[k]) \in Nat
      BY <2>0, <2>1
    <3> QED BY <3>1, <3>2, <3>3
  <2> QED BY <2>0, <2>2
<1>2. e \in 0 .. Len(g)
  BY LaidOffsets
<1> QED BY <1>1, <1>2 DEF Laid

LEMMA LaidWrite ==
  ASSUME NEW sz \in Seq(Nat), NEW C, NEW f \in Seq(C), NEW rs, NEW o, NEW e,
         Laid(sz, f, rs, o, e), Len(rs) \in Nat,
         NEW d \in Seq(C), NEW c \in 0 .. Len(f), e <= c
  PROVE  Laid(sz, Write(f, c, d), rs, o, e)
<1> DEFINE g == Write(f, c, d)
<1>1. /\ g \in Seq(C)
      /\ Len(g) = IF c + Len(d) > Len(f) THEN c + Len(d) ELSE Len(f)
      /\ \A i \in 1 .. c : g[i] = f[i]
  BY WriteShape
<1> HIDE DEF g
<1>2. e \in Nat /\ Len(f) \in Nat /\ Len(g) \in Nat /\ e <= Len(g)
      /\ \A i \in 1 .. e : g[i] = f[i]
  BY <1>1 DEF Laid
<1>3. \A n \in 1 .. Len(sz) : Span(sz, n) \in Nat
  BY DEF Span, HeaderSize, TrailerSize
<1>4. Laid(sz, g, rs, o, e)
  BY <1>2, <1>3, LaidAlike
<1> QED BY <1>4 DEF g

(* Records that are appended later change nothing.                          *)
LEMMA LaidLater ==
  ASSUME NEW sz \in Seq(Nat), NEW p \in Nat, NEW f, NEW rs, NEW o, NEW e,
         Laid(sz, f, rs, o, e)
  PROVE  Laid(Append(sz, p), f, rs, o, e)
<1>1. Len(Append(sz, p)) = Len(sz) + 1 /\ Len(sz) \in Nat
      /\ \A n \in 1 .. Len(sz) : Span(Append(sz, p), n) = Span(sz, n)
  BY DEF Span
<1>2. \A k \in 1 .. Len(rs) : rs[k] \in 1 .. Len(Append(sz, p))
                              /\ Span(Append(sz, p), rs[k]) = Span(sz, rs[k])
  BY <1>1 DEF Laid
<1> QED BY <1>2 DEF Laid

LEMMA CellsShape ==
  ASSUME NEW n \in Nat, NEW p \in Nat
  PROVE  /\ Cells(n, p) \in Seq({n} \X (Nat \ {0}))
         /\ Len(Cells(n, p)) = HeaderSize + p + TrailerSize
         /\ HeaderSize + p + TrailerSize \in Nat
         /\ \A i \in 1 .. HeaderSize + p + TrailerSize : Cells(n, p)[i] = <<n, i>>
<1> DEFINE m == HeaderSize + p + TrailerSize
<1>1. m \in Nat
  BY DEF HeaderSize, TrailerSize
<1>2. Cells(n, p) = [i \in 1 .. m |-> <<n, i>>]
  BY DEF Cells
<1> HIDE DEF m
<1> QED BY <1>1, <1>2 DEF m

LEMMA LaidAppend ==
  ASSUME NEW sz \in Seq(Nat), NEW p \in Nat, NEW C, NEW f \in Seq(C),
         NEW R, NEW rs \in Seq(R), NEW o, NEW e, Laid(sz, f, rs, o, e),
         Cells(Len(sz) + 1, p) \in Seq(C)
  PROVE  \E q, d : /\ Laid(Append(sz, p), Write(f, e, Cells(Len(sz) + 1, p)),
                           Append(rs, Len(sz) + 1), q, d)
                   /\ d = e + Len(Cells(Len(sz) + 1, p)) /\ StartsAt(q, o[1])
<1> DEFINE n == Len(sz) + 1
           cells == Cells(n, p)
           m == Len(cells)
           g == Write(f, e, cells)
           ts == Append(rs, n)
           tz == Append(sz, p)
           q == [k \in 1 .. Len(rs) + 2 |-> IF k = Len(rs) + 2 THEN e + m ELSE o[k]]
<1>0. Len(sz) \in Nat /\ Len(rs) \in Nat /\ Len(f) \in Nat /\ e \in 0 .. Len(f) /\ n \in Nat
  BY DEF Laid
<1>1. m = HeaderSize + p + TrailerSize /\ m \in Nat
      /\ \A i \in 1 .. m : cells[i] = <<n, i>>
  BY <1>0, CellsShape
<1>2. /\ g \in Seq(C) /\ Len(g) = (IF e + m > Len(f) THEN e + m ELSE Len(f))
      /\ \A i \in 1 .. m : g[e + i] = cells[i]
  <2> HIDE DEF cells, n
  <2> QED BY <1>0, WriteShape DEF cells, n
<1>3. Laid(tz, g, rs, o, e)
  <2>1. Laid(sz, g, rs, o, e)
    <3> HIDE DEF cells
    <3> QED BY <1>0, LaidWrite DEF cells
  <2> HIDE DEF g
  <2> QED BY <2>1, LaidLater
<1>4. Span(tz, n) = m /\ Len(tz) = n
  BY <1>0, <1>1 DEF Span
<1>5. ts \in Seq(R \cup {n}) /\ Len(ts) = Len(rs) + 1 /\ ts[Len(rs) + 1] = n
      /\ \A k \in 1 .. Len(rs) : ts[k] = rs[k]
  BY <1>0
<1> HIDE DEF cells, g, ts, tz, m, n
<1>6. e + m \in 0 .. Len(g)
  BY <1>0, <1>1, <1>2
<1>7. /\ o \in [1 .. Len(rs) + 1 -> 0 .. e] /\ o[Len(rs) + 1] = e
      /\ \A k \in 1 .. Len(rs) :
           /\ rs[k] \in 1 .. Len(tz) /\ o[k + 1] = o[k] + Span(tz, rs[k])
           /\ \A i \in 1 .. Span(tz, rs[k]) : g[o[k] + i] = <<rs[k], i>>
  BY <1>3 DEF Laid
<1>8. q \in [1 .. Len(ts) + 1 -> 0 .. e + m] /\ q[Len(ts) + 1] = e + m /\ q[1] = o[1]
  <2>1. Len(ts) + 1 = Len(rs) + 2
    BY <1>0, <1>5
  <2>2. \A k \in 1 .. Len(rs) + 2 : k # Len(rs) + 2 => o[k] \in 0 .. e + m
    <3>1. ASSUME NEW k \in 1 .. Len(rs) + 1 PROVE o[k] \in 0 .. e + m
      <4>1. o[k] \in 0 .. e
        BY <1>7
      <4> QED BY <1>0, <1>1, <4>1
    <3>2. \A k \in 1 .. Len(rs) + 2 : k # Len(rs) + 2 => k \in 1 .. Len(rs) + 1
      BY <1>0
    <3> QED BY <3>1, <3>2
  <2>3. e + m \in 0 .. e + m /\ 1 # Len(rs) + 2 /\ 1 \in 1 .. Len(rs) + 2
        /\ Len(rs) + 2 \in 1 .. Len(rs) + 2
    BY <1>0, <1>1
  <2> QED BY <2>1, <2>2, <2>3
<1>9. ASSUME NEW k \in 1 .. Len(ts)
      PROVE  /\ ts[k] \in 1 .. Len(tz) /\ q[k + 1] = q[k] + Span(tz, ts[k])
             /\ \A i \in 1 .. Span(tz, ts[k]) : g[q[k] + i] = <<ts[k], i>>
  <2>1. CASE k = Len(rs) + 1
    <3>1. q[k] = e /\ q[k + 1] = e + m
      BY <1>0, <1>7, <2>1
    <3>2. ts[k] = n /\ Span(tz, n) = m /\ n \in 1 .. Len(tz)
      BY <1>0, <1>4, <1>5, <2>1 DEF n
    <3> QED BY <1>1, <1>2, <3>1, <3>2
  <2>2. CASE k # Len(rs) + 1
    <3>1. k \in 1 .. Len(rs)
      BY <1>0, <1>5, <2>2
    <3>2. q[k] = o[k] /\ q[k + 1] = o[k + 1] /\ ts[k] = rs[k]
      BY <1>0, <1>5, <3>1
    <3> QED BY <1>7, <3>1, <3>2
  <2> QED BY <2>1, <2>2
<1> HIDE DEF q
<1>10. Laid(tz, g, ts, q, e + m)
  BY <1>6, <1>8, <1>9 DEF Laid
<1>11. StartsAt(q, o[1])
  BY <1>8 DEF StartsAt
<1> QED BY <1>10, <1>11 DEF tz, g, ts, m, cells, n

LEMMA LaidPrefix ==
  ASSUME NEW sz, NEW f, NEW R, NEW rs \in Seq(R), NEW o, NEW e, Laid(sz, f, rs, o, e),
         Len(f) \in Nat, \A n \in 1 .. Len(sz) : Span(sz, n) \in Nat,
         NEW part \in Seq(R), Len(part) <= Len(rs), \A k \in 1 .. Len(part) : part[k] = rs[k]
  PROVE  \E q, d : Laid(sz, f, part, q, d) /\ d <= e /\ StartsAt(q, o[1])
<1> DEFINE n == Len(part)
           q == [k \in 1 .. n + 1 |-> o[k]]
<1>l. Len(part) \in Nat /\ Len(rs) \in Nat
  OBVIOUS
<1>0. n \in Nat /\ n <= Len(rs) /\ e \in Nat /\ e <= Len(f)
      /\ \A k \in 1 .. Len(rs) + 1 : o[k] \in Nat /\ o[k] <= e
  BY <1>l, LaidOffsets
<1>c. ASSUME NEW k \in 1 .. n
      PROVE  /\ part[k] \in 1 .. Len(sz) /\ o[k + 1] = o[k] + Span(sz, part[k])
             /\ \A i \in 1 .. Span(sz, part[k]) : f[o[k] + i] = <<part[k], i>>
  <2>1. k \in 1 .. Len(rs)
    BY <1>0, <1>l
  <2>2. part[k] = rs[k]
    OBVIOUS
  <2>3. /\ rs[k] \in 1 .. Len(sz) /\ o[k + 1] = o[k] + Span(sz, rs[k])
        /\ \A i \in 1 .. Span(sz, rs[k]) : f[o[k] + i] = <<rs[k], i>>
    BY <1>l, <2>1, LaidAt
  <2> QED BY <2>2, <2>3
<1> HIDE DEF n
(* The offsets ascend.                                                      *)
<1>1. \A k \in 1 .. n + 1 : o[k] <= o[n + 1]
  <2> DEFINE M == {j \in Nat : j <= n => o[n + 1 - j] <= o[n + 1]}
  <2>1. 0 \in M
    BY <1>0
  <2>2. ASSUME NEW j \in Nat, j \in M PROVE j + 1 \in M
    <3> SUFFICES ASSUME j + 1 <= n PROVE o[n + 1 - (j + 1)] <= o[n + 1]
      OBVIOUS
    <3> DEFINE k == n - j
    <3>1. k \in 1 .. Len(rs) /\ k + 1 = n + 1 - j /\ k = n + 1 - (j + 1) /\ k + 1 \in 1 .. Len(rs) + 1
      BY <1>0
    <3>2. o[n + 1 - j] <= o[n + 1]
      BY <2>2, <1>0
    <3> HIDE DEF k
    <3>3. o[k + 1] = o[k] + Span(sz, rs[k]) /\ Span(sz, rs[k]) \in Nat /\ o[k] \in Nat
          /\ o[n + 1] \in Nat
      <4>1. rs[k] \in 1 .. Len(sz) /\ o[k + 1] = o[k] + Span(sz, rs[k]) /\ o[k] \in Nat
        BY <1>l, <3>1, LaidAt
      <4>2. n + 1 \in 1 .. Len(rs) + 1
        BY <1>0
      <4> QED BY <1>0, <4>1, <4>2
    <3>4. o[k + 1] <= o[n + 1]
      BY <3>1, <3>2
    <3>5. o[k] <= o[n + 1]
      BY <3>3, <3>4
    <3> QED BY <3>1, <3>5
  <2> HIDE DEF M
  <2>3. Nat \subseteq M
    BY <2>1, <2>2, SetInduction
  <2>4. ASSUME NEW k \in 1 .. n + 1 PROVE o[k] <= o[n + 1]
    <3>1. n + 1 - k \in M /\ n + 1 - k <= n /\ n + 1 - (n + 1 - k) = k
      BY <1>0, <2>3
    <3> QED BY <3>1 DEF M
  <2> QED BY <2>4
<1>a. \A k \in 1 .. n + 1 : o[k] \in Nat /\ o[k] <= e
  BY <1>0
<1>2. o[n + 1] \in 0 .. Len(f) /\ o[n + 1] <= e
  <2>1. n + 1 \in 1 .. n + 1
    BY <1>0
  <2> QED BY <1>0, <1>a, <2>1
<1>3. q \in [1 .. n + 1 -> 0 .. o[n + 1]] /\ q[n + 1] = o[n + 1] /\ q[1] = o[1]
  <2>1. \A k \in 1 .. n + 1 : o[k] \in 0 .. o[n + 1]
    BY <1>1, <1>2, <1>a
  <2> QED BY <1>0, <2>1
<1>4. \A k \in 1 .. n : q[k] = o[k] /\ q[k + 1] = o[k + 1]
  BY <1>0
<1> HIDE DEF q
<1>5. Laid(sz, f, part, q, o[n + 1])
  BY <1>2, <1>3, <1>4, <1>c DEF Laid, n
<1>6. StartsAt(q, o[1])
  BY <1>3 DEF StartsAt
<1> QED BY <1>2, <1>5, <1>6

(* The offsets follow from where the first record stands.                   *)
LEMMA LaidUnique ==
  ASSUME NEW sz, NEW f, NEW g, NEW R, NEW rs \in Seq(R), NEW o, NEW e, NEW q, NEW d,
         Laid(sz, f, rs, o, e), Laid(sz, g, rs, q, d), o[1] = q[1]
  PROVE  o = q /\ e = d
<1> DEFINE N == {n \in Nat : n + 1 <= Len(rs) + 1 => o[n + 1] = q[n + 1]}
<1>0. Len(rs) \in Nat
  OBVIOUS
<1>1. 0 \in N
  BY <1>0
<1>2. ASSUME NEW n \in Nat, n \in N PROVE n + 1 \in N
  <2> SUFFICES ASSUME n + 1 <= Len(rs) PROVE o[n + 2] = q[n + 2]
    BY <1>0
  <2>1. n + 1 \in 1 .. Len(rs) /\ (n + 1) + 1 = n + 2 /\ o[n + 1] = q[n + 1]
    BY <1>0, <1>2
  <2> QED BY <2>1 DEF Laid
<1> HIDE DEF N
<1>3. Nat \subseteq N
  BY <1>1, <1>2, SetInduction
<1>4. ASSUME NEW k \in 1 .. Len(rs) + 1 PROVE o[k] = q[k]
  <2>1. k - 1 \in N /\ (k - 1) + 1 = k
    BY <1>0, <1>3
  <2> QED BY <2>1 DEF N
<1>5. o \in [1 .. Len(rs) + 1 -> 0 .. e] /\ q \in [1 .. Len(rs) + 1 -> 0 .. d]
      /\ o[Len(rs) + 1] = e /\ q[Len(rs) + 1] = d
  BY DEF Laid
<1>6. o = q
  BY <1>4, <1>5
<1> QED BY <1>5, <1>6

(* A record that stands whole in front of what is laid out.                 *)
Stands(sz, f, p, a) ==
  a \in 1 .. Len(sz) /\ Span(sz, a) \in Nat /\ \A i \in 1 .. Span(sz, a) : f[p + i] = <<a, i>>

LEMMA LaidPrepend ==
  ASSUME NEW sz, NEW f, NEW R, NEW rs \in Seq(R), NEW o, NEW e, Laid(sz, f, rs, o, e),
         Len(f) \in Nat, NEW a \in R, NEW p \in Nat, Stands(sz, f, p, a),
         o[1] = p + Span(sz, a), NEW ts, ts = <<a>> \o rs
  PROVE  \E q : Laid(sz, f, ts, q, e) /\ StartsAt(q, p)
<1>s. a \in 1 .. Len(sz) /\ Span(sz, a) \in Nat /\ \A i \in 1 .. Span(sz, a) : f[p + i] = <<a, i>>
  BY DEF Stands
<1> DEFINE n == Len(rs)
           q == [k \in 1 .. n + 2 |-> IF k = 1 THEN p ELSE o[k - 1]]
<1>0. n \in Nat /\ ts \in Seq(R) /\ Len(ts) = n + 1 /\ ts[1] = a
      /\ \A k \in 2 .. n + 1 : ts[k] = rs[k - 1]
  OBVIOUS
<1>1. e \in Nat /\ e <= Len(f) /\ o[n + 1] = e /\ o[1] \in Nat
      /\ \A k \in 1 .. n + 1 : o[k] \in Nat /\ o[k] <= e
  BY <1>0, LaidOffsets
<1>2. q \in [1 .. n + 2 -> 0 .. e]
  <2>1. ASSUME NEW k \in 1 .. n + 2, k # 1 PROVE o[k - 1] \in 0 .. e
    <3>1. k - 1 \in 1 .. n + 1
      BY <1>0, <2>1
    <3> QED BY <1>1, <3>1
  <2>2. p \in 0 .. e
    <3>1. 1 \in 1 .. n + 1
      BY <1>0
    <3>2. o[1] <= e
      BY <1>1, <3>1
    <3> QED BY <1>1, <1>s, <3>2
  <2> QED BY <2>1, <2>2
<1>3. q[n + 2] = e /\ q[1] = p
  BY <1>0, <1>1
<1>4. ASSUME NEW k \in 1 .. n + 1
      PROVE  /\ ts[k] \in 1 .. Len(sz) /\ q[k + 1] = q[k] + Span(sz, ts[k])
             /\ \A i \in 1 .. Span(sz, ts[k]) : f[q[k] + i] = <<ts[k], i>>
  <2>1. CASE k = 1
    <3>1. q[k] = p /\ q[k + 1] = o[1] /\ ts[k] = a
      BY <1>0, <2>1
    <3> QED BY <1>s, <3>1
  <2>2. CASE k # 1
    <3> DEFINE j == k - 1
    <3>1. j \in 1 .. n /\ k = j + 1 /\ k \in 2 .. n + 1
      BY <1>0, <2>2
    <3> HIDE DEF j
    <3>2. q[k] = o[j] /\ q[k + 1] = o[j + 1] /\ ts[k] = rs[j]
      <4>1. k - 1 = j /\ (k + 1) - 1 = j + 1 /\ k + 1 # 1 /\ k + 1 \in 1 .. n + 2 /\ k \in 1 .. n + 2
        BY <1>0, <3>1
      <4> QED BY <1>0, <2>2, <3>1, <4>1
    <3>3. /\ rs[j] \in 1 .. Len(sz) /\ o[j + 1] = o[j] + Span(sz, rs[j])
          /\ \A i \in 1 .. Span(sz, rs[j]) : f[o[j] + i] = <<rs[j], i>>
      BY <1>0, <3>1, LaidAt
    <3> QED BY <3>2, <3>3
  <2> QED BY <2>1, <2>2
<1>5. Len(ts) + 1 = n + 2
  BY <1>0
<1>6. e \in 0 .. Len(f)
  BY <1>1
<1> HIDE DEF q, n
<1>7. Laid(sz, f, ts, q, e)
  BY <1>0, <1>2, <1>3, <1>4, <1>5, <1>6 DEF Laid
<1>8. StartsAt(q, p)
  BY <1>3 DEF StartsAt
<1> QED BY <1>7, <1>8

-------------------------------------------------------------------------------
(* Reading at an offset: where a record is found a record stands whole, and *)
(* where a record stands it is found.                                       *)
LEMMA RecordFound ==
  ASSUME NEW f, NEW p \in Nat, NEW size \in Nat, sizes \in Seq(Nat),
         Found(f, p, size) = "record"
  PROVE  /\ At(f, p) \in 1 .. Len(sizes) /\ Span(sizes, At(f, p)) = Total(At(f, p))
         /\ Total(At(f, p)) \in Nat /\ Total(At(f, p)) > 0 /\ p + Total(At(f, p)) <= size
         /\ \A i \in 1 .. Total(At(f, p)) : f[p + i] = <<At(f, p), i>>
<1> DEFINE n == At(f, p)
<1>1. /\ p + HeaderSize <= size /\ HeaderOk(f, p)
      /\ ~(p + Total(n) > size) /\ PayloadOk(f, p) /\ f[p + Total(n)] = <<n, Total(n)>>
  BY DEF Found, HeaderSize
<1>h. DOMAIN sizes = 1 .. Len(sizes) /\ HeaderSize = 2
  BY DEF HeaderSize
<1>2. PICK m \in 1 .. Len(sizes) : \A i \in 1 .. HeaderSize : f[p + i] = <<m, i>>
  BY <1>1, <1>h DEF HeaderOk
<1>3. f[p + 1] = <<m, 1>>
  BY <1>2 DEF HeaderSize
<1>4. n = m
  BY <1>3 DEF At
<1> HIDE DEF n
<1>5. sizes[n] \in Nat /\ n \in 1 .. Len(sizes)
  BY <1>2, <1>4
<1>6. Total(n) = 3 + sizes[n] /\ Total(n) \in Nat /\ Span(sizes, n) = Total(n)
  BY <1>5 DEF Total, Span, HeaderSize, TrailerSize
<1>7. ASSUME NEW i \in 1 .. Total(n) PROVE f[p + i] = <<n, i>>
  <2>1. CASE i \in 1 .. HeaderSize
    BY <1>2, <1>4, <2>1
  <2>2. CASE i \in HeaderSize + 1 .. HeaderSize + sizes[n]
    BY <1>1, <2>2 DEF PayloadOk, n
  <2>3. CASE i = Total(n)
    BY <1>1, <2>3
  <2>4. i \in Int /\ (i \in 1 .. 2 \/ i \in 3 .. 2 + sizes[n] \/ i = 3 + sizes[n])
    BY <1>5, <1>6
  <2> QED BY <1>6, <1>h, <2>1, <2>2, <2>3, <2>4
<1>8. p + Total(n) <= size
  BY <1>1, <1>6
<1>9. n = At(f, p)
  BY DEF n
<1> QED BY ONLY <1>5, <1>6, <1>7, <1>8, <1>9

LEMMA LaidFound ==
  ASSUME NEW f, NEW rs, NEW o, NEW e, Laid(sizes, f, rs, o, e), sizes \in Seq(Nat),
         Len(rs) \in Nat, Len(f) \in Nat, NEW k \in 1 .. Len(rs), NEW size \in Nat, e <= size
  PROVE  Found(f, o[k], size) = "record" /\ At(f, o[k]) = rs[k] /\ o[k] + Total(rs[k]) = o[k + 1]
<1> DEFINE n == rs[k]
           p == o[k]
<1>a. ASSUME NEW sz, sz = sizes
      PROVE  /\ o[k] \in Nat /\ o[k + 1] \in Nat /\ o[k] <= e /\ o[k + 1] <= e
             /\ rs[k] \in 1 .. Len(sz) /\ o[k + 1] = o[k] + Span(sz, rs[k])
             /\ \A i \in 1 .. Span(sz, rs[k]) : f[o[k] + i] = <<rs[k], i>>
  <2>1. Laid(sz, f, rs, o, e)
    BY <1>a
  <2> QED BY <2>1, LaidAt
<1>1. /\ p \in Nat /\ o[k + 1] <= e /\ n \in 1 .. Len(sizes) /\ o[k + 1] = p + Span(sizes, n)
      /\ \A i \in 1 .. Span(sizes, n) : f[p + i] = <<n, i>>
  BY <1>a
<1>e. e \in Nat
  BY LaidOffsets
<1> HIDE DEF n, p
<1>2. sizes[n] \in Nat
  BY <1>1
<1>3. Total(n) = 3 + sizes[n] /\ Span(sizes, n) = Total(n)
  BY <1>2 DEF Total, Span, HeaderSize, TrailerSize
<1>s. 1 \in 1 .. Span(sizes, n) /\ 2 \in 1 .. Span(sizes, n) /\ Total(n) \in 1 .. Span(sizes, n)
      /\ \A i \in 3 .. 2 + sizes[n] : i \in 1 .. Span(sizes, n)
  <2>1. PICK m \in Nat : m = sizes[n]
    BY <1>2
  <2>2. Span(sizes, n) = 3 + m /\ Total(n) = 3 + m
    BY <1>3, <2>1
  <2>3. /\ 1 \in 1 .. 3 + m /\ 2 \in 1 .. 3 + m /\ 3 + m \in 1 .. 3 + m
        /\ \A i \in 3 .. 2 + m : i \in 1 .. 3 + m
    BY ONLY m \in Nat
  <2> QED BY ONLY <2>1, <2>2, <2>3
<1>4. f[p + 1] = <<n, 1>> /\ f[p + 2] = <<n, 2>> /\ f[p + Total(n)] = <<n, Total(n)>>
      /\ \A i \in 3 .. 2 + sizes[n] : f[p + i] = <<n, i>>
  BY <1>1, <1>s
<1>5. At(f, p) = n
  BY <1>4 DEF At
<1>6. HeaderOk(f, p)
  <2>1. n \in DOMAIN sizes
    BY <1>1
  <2>2. \A i \in 1 .. 2 : f[p + i] = <<n, i>>
    BY ONLY <1>4
  <2>3. HeaderSize = 2
    BY DEF HeaderSize
  <2> QED BY ONLY <2>1, <2>2, <2>3 DEF HeaderOk
<1>7. PayloadOk(f, p)
  BY <1>4, <1>5 DEF PayloadOk, HeaderSize
<1>8. p + HeaderSize <= size /\ p + Total(n) <= size
  BY <1>1, <1>2, <1>3, <1>e DEF HeaderSize
<1>9. ~(p + HeaderSize > size) /\ ~(p + Total(n) > size)
  BY <1>1, <1>2, <1>3, <1>8 DEF HeaderSize
<1>10. Found(f, p, size) = "record"
  BY <1>4, <1>5, <1>6, <1>7, <1>9 DEF Found
<1> QED BY <1>1, <1>3, <1>5, <1>10 DEF n, p

-------------------------------------------------------------------------------
(* The scan.  Its recursive function: what it gives at an offset, from what *)
(* it gives at later ones; that there is such a function; and what it says. *)
ScanStep(g, f, p) ==
  CASE Found(f, p, Len(f)) = "record" ->
         LET rest == g[p + Total(At(f, p))]
         IN  [rest EXCEPT !.recs = <<At(f, p)>> \o @]
    [] OTHER -> [recs |-> <<>>, pos |-> p, ok |-> Found(f, p, Len(f)) = "short"]

Scanned(f) == [recs : Seq(1 .. Len(sizes)), pos : 0 .. Len(f), ok : BOOLEAN]

ScannedBy(g, f) == g = [p \in 0 .. Len(f) |-> ScanStep(g, f, p)]

LEMMA ScanStepType ==
  ASSUME sizes \in Seq(Nat), NEW f, Len(f) \in Nat, NEW p \in 0 .. Len(f),
         NEW g \in [0 .. Len(f) -> Scanned(f)]
  PROVE  ScanStep(g, f, p) \in Scanned(f)
<1>1. CASE Found(f, p, Len(f)) = "record"
  <2> DEFINE n == At(f, p)
             q == p + Total(n)
  <2>1. n \in 1 .. Len(sizes) /\ q \in 0 .. Len(f)
    BY <1>1, RecordFound
  <2>2. ScanStep(g, f, p) = [g[q] EXCEPT !.recs = <<n>> \o @]
    BY <1>1 DEF ScanStep
  <2> HIDE DEF n, q
  <2>3. g[q] \in Scanned(f)
    BY <2>1
  <2>4. <<n>> \o g[q].recs \in Seq(1 .. Len(sizes))
    BY <2>1, <2>3 DEF Scanned
  <2> QED BY <2>2, <2>3, <2>4 DEF Scanned
<1>2. CASE Found(f, p, Len(f)) # "record"
  <2>1. ScanStep(g, f, p) = [recs |-> <<>>, pos |-> p, ok |-> Found(f, p, Len(f)) = "short"]
    BY <1>2 DEF ScanStep
  <2>2. <<>> \in Seq(1 .. Len(sizes)) /\ (Found(f, p, Len(f)) = "short") \in BOOLEAN
    OBVIOUS
  <2> QED BY <2>1, <2>2 DEF Scanned
<1> QED BY <1>1, <1>2

LEMMA ScanStepLater ==
  ASSUME sizes \in Seq(Nat), NEW f, Len(f) \in Nat, NEW p \in 0 .. Len(f), NEW g, NEW h,
         \A q \in p + 1 .. Len(f) : g[q] = h[q]
  PROVE  ScanStep(g, f, p) = ScanStep(h, f, p)
<1>1. CASE Found(f, p, Len(f)) = "record"
  <2>1. p + Total(At(f, p)) \in p + 1 .. Len(f)
    BY <1>1, RecordFound
  <2>2. g[p + Total(At(f, p))] = h[p + Total(At(f, p))]
    BY <2>1
  <2> QED BY <2>2 DEF ScanStep
<1>2. CASE Found(f, p, Len(f)) # "record"
  BY <1>2 DEF ScanStep
<1> QED BY <1>1, <1>2

LEMMA ScanExists ==
  ASSUME sizes \in Seq(Nat), NEW f, Len(f) \in Nat
  PROVE  \E g \in [0 .. Len(f) -> Scanned(f)] : ScannedBy(g, f)
<1> DEFINE L == Len(f)
           Fn(n) == {g \in [0 .. L -> Scanned(f)] :
                       \A p \in 0 .. L : p + n > L => g[p] = ScanStep(g, f, p)}
           N == {n \in Nat : n <= L + 1 => Fn(n) # {}}
<1>0. L \in Nat
  OBVIOUS
<1>1. Fn(0) # {}
  <2> DEFINE none == [recs |-> <<>>, pos |-> 0, ok |-> TRUE]
             g == [p \in 0 .. L |-> none]
  <2>1. none \in Scanned(f)
    <3>1. <<>> \in Seq(1 .. Len(sizes)) /\ 0 \in 0 .. Len(f)
      OBVIOUS
    <3> QED BY <3>1 DEF Scanned
  <2> HIDE DEF none
  <2>2. g \in [0 .. L -> Scanned(f)]
    BY <2>1
  <2>3. \A p \in 0 .. L : ~(p + 0 > L)
    BY <1>0
  <2>4. g \in Fn(0)
    BY <2>2, <2>3
  <2> QED BY <2>4
<1>2. ASSUME NEW n \in Nat, n <= L, Fn(n) # {} PROVE Fn(n + 1) # {}
  <2>1. PICK g : g \in Fn(n)
    BY <1>2
  <2>g. g \in [0 .. L -> Scanned(f)] /\ \A p \in 0 .. L : p + n > L => g[p] = ScanStep(g, f, p)
    BY <2>1
  <2> DEFINE at == L - n
             new == ScanStep(g, f, at)
             h == [p \in 0 .. L |-> IF p = at THEN new ELSE g[p]]
  <2>2. at \in 0 .. L
    BY <1>0, <1>2
  <2>3. new \in Scanned(f)
    <3> HIDE DEF at
    <3> QED BY <2>2, <2>g, ScanStepType
  <2> HIDE DEF new
  <2>4. h \in [0 .. L -> Scanned(f)]
    BY <2>3, <2>g
  <2>5. \A p \in 0 .. L : p > at => h[p] = g[p]
    BY <1>0, <2>2
  <2>6. ASSUME NEW p \in 0 .. L, p >= at PROVE ScanStep(h, f, p) = ScanStep(g, f, p)
    <3>1. \A q \in p + 1 .. L : h[q] = g[q]
      BY <1>0, <2>2, <2>5, <2>6
    <3> HIDE DEF h
    <3> QED BY <3>1, ScanStepLater
  <2>7. ASSUME NEW p \in 0 .. L, p + (n + 1) > L PROVE h[p] = ScanStep(h, f, p)
    <3>1. p >= at
      BY <1>0, <2>7
    <3>2. CASE p = at
      <4>1. h[p] = new
        BY <3>2
      <4>2. new = ScanStep(g, f, p)
        BY <3>2 DEF new
      <4> QED BY <2>6, <3>1, <4>1, <4>2
    <3>3. CASE p # at
      <4>1. p > at /\ p + n > L
        BY <1>0, <3>1, <3>3
      <4>2. h[p] = g[p] /\ g[p] = ScanStep(g, f, p)
        BY <2>5, <2>g, <4>1
      <4> QED BY <2>6, <3>1, <4>2
    <3> QED BY <3>2, <3>3
  <2> HIDE DEF h
  <2>8. h \in Fn(n + 1)
    BY <2>4, <2>7
  <2> QED BY <2>8
<1> HIDE DEF Fn
<1>3. 0 \in N /\ \A n \in Nat : n \in N => n + 1 \in N
  BY <1>0, <1>1, <1>2
<1> HIDE DEF N
<1>4. L + 1 \in N
  BY <1>0, <1>3, SetInduction
<1>5. PICK g : g \in Fn(L + 1)
  BY <1>0, <1>4 DEF N
<1>6. g \in [0 .. L -> Scanned(f)] /\ \A p \in 0 .. L : p + (L + 1) > L => g[p] = ScanStep(g, f, p)
  BY <1>5 DEF Fn
<1>7. \A p \in 0 .. L : p + (L + 1) > L
  BY <1>0
<1>8. ScannedBy(g, f)
  BY <1>6, <1>7 DEF ScannedBy
<1> QED BY <1>6, <1>8

(* Any such function gives at 0 what Scan gives.                            *)
LEMMA ScanIs ==
  ASSUME sizes \in Seq(Nat), NEW f, Len(f) \in Nat
  PROVE  \E g \in [0 .. Len(f) -> Scanned(f)] :
           /\ Scan(f) = g[0]
           /\ \A p \in 0 .. Len(f) : g[p] = ScanStep(g, f, p)
<1> DEFINE g == CHOOSE h : ScannedBy(h, f)
<1>1. ScannedBy(g, f)
  BY ScanExists
<1>2. Scan(f) = g[0]
  BY DEF Scan, ScannedBy, ScanStep
<1> HIDE DEF g
<1>3. PICK h \in [0 .. Len(f) -> Scanned(f)] : ScannedBy(h, f)
  BY ScanExists
<1>a. \A p \in 0 .. Len(f) : g[p] = ScanStep(g, f, p) /\ h[p] = ScanStep(h, f, p)
  BY <1>1, <1>3, Zenon DEF ScannedBy
<1> DEFINE N == {n \in Nat : \A p \in 0 .. Len(f) : p + n > Len(f) => g[p] = h[p]}
<1>4. 0 \in N
  OBVIOUS
<1>5. ASSUME NEW n \in Nat, n \in N PROVE n + 1 \in N
  <2> SUFFICES ASSUME NEW p \in 0 .. Len(f), p + (n + 1) > Len(f) PROVE g[p] = h[p]
    OBVIOUS
  <2>1. \A q \in p + 1 .. Len(f) : g[q] = h[q]
    BY <1>5
  <2>2. ScanStep(g, f, p) = ScanStep(h, f, p)
    BY <2>1, ScanStepLater
  <2> QED BY <1>a, <2>2
<1> HIDE DEF N
<1>6. Len(f) + 1 \in N
  BY <1>4, <1>5, SetInduction
<1>7. \A p \in 0 .. Len(f) : g[p] = h[p]
  BY <1>6 DEF N
<1>8. g \in [0 .. Len(f) -> Scanned(f)]
  <2>1. DOMAIN g = 0 .. Len(f) /\ g = [p \in 0 .. Len(f) |-> g[p]]
    BY <1>1 DEF ScannedBy
  <2> QED BY <1>7, <2>1
<1> QED BY <1>2, <1>8, <1>a

(* The records a scan finds stand in the file from its start to the offset  *)
(* the scan gives.                                                          *)
LEMMA ScanLaid ==
  ASSUME sizes \in Seq(Nat), NEW f, Len(f) \in Nat
  PROVE  /\ Scan(f) \in Scanned(f)
         /\ \E o : Laid(sizes, f, Scan(f).recs, o, Scan(f).pos) /\ StartsAt(o, 0)
<1>1. PICK g \in [0 .. Len(f) -> Scanned(f)] :
        Scan(f) = g[0] /\ \A p \in 0 .. Len(f) : g[p] = ScanStep(g, f, p)
  BY ScanIs
<1> DEFINE Good(p) == \E o : Laid(sizes, f, g[p].recs, o, g[p].pos) /\ StartsAt(o, p)
           N == {n \in Nat : \A p \in 0 .. Len(f) : p + n > Len(f) => Good(p)}
<1>2. ASSUME NEW p \in 0 .. Len(f), \A q \in p + 1 .. Len(f) : Good(q) PROVE Good(p)
  <2>1. CASE Found(f, p, Len(f)) = "record"
    <3> DEFINE n == At(f, p)
               q == p + Total(n)
    <3>1. /\ n \in 1 .. Len(sizes) /\ Span(sizes, n) = Total(n) /\ Total(n) \in Nat /\ Total(n) > 0
          /\ p + Total(n) <= Len(f) /\ \A i \in 1 .. Total(n) : f[p + i] = <<n, i>>
      BY <2>1, RecordFound
    <3>2. g[p] = [g[q] EXCEPT !.recs = <<n>> \o @]
      BY <1>1, <2>1, Zenon DEF ScanStep
    <3>3. q \in p + 1 .. Len(f) /\ q \in 0 .. Len(f) /\ q = p + Span(sizes, n)
      BY <3>1
    <3> HIDE DEF n, q
    <3>4. g[q] \in Scanned(f)
      BY <3>3
    <3>5. g[p].recs = <<n>> \o g[q].recs /\ g[p].pos = g[q].pos /\ g[q].recs \in Seq(1 .. Len(sizes))
      BY <3>2, <3>4 DEF Scanned
    <3>6. PICK o : Laid(sizes, f, g[q].recs, o, g[q].pos) /\ StartsAt(o, q)
      BY <1>2, <3>3
    <3>7. PICK sz, rs, e, ts : /\ sz = sizes /\ rs = g[q].recs /\ e = g[q].pos
                               /\ ts = <<n>> \o g[q].recs
      OBVIOUS
    <3>8. \E u : Laid(sz, f, ts, u, e) /\ StartsAt(u, p)
      <4> DEFINE R == 1 .. Len(sz)
      <4>1. Laid(sz, f, rs, o, e) /\ o[1] = p + Span(sz, n) /\ p \in Nat
        BY <3>1, <3>3, <3>6, <3>7 DEF StartsAt
      <4>2. Stands(sz, f, p, n)
        BY <3>1, <3>7 DEF Stands
      <4>3. rs \in Seq(R) /\ n \in R /\ ts = <<n>> \o rs
        BY <3>1, <3>5, <3>7, <4>1
      <4> HIDE DEF R
      <4> QED BY <4>1, <4>2, <4>3, LaidPrepend
    <3> QED BY <3>5, <3>7, <3>8
  <2>2. CASE Found(f, p, Len(f)) # "record"
    <3> DEFINE o == [k \in 1 .. 1 |-> p]
    <3>1. g[p] = [recs |-> <<>>, pos |-> p, ok |-> Found(f, p, Len(f)) = "short"]
      BY <1>1, <2>2 DEF ScanStep
    <3>2. g[p].recs = <<>> /\ g[p].pos = p /\ Len(<<>>) = 0
      BY <3>1
    <3>3. Laid(sizes, f, <<>>, o, p) /\ StartsAt(o, p)
      BY DEF Laid, StartsAt
    <3> QED BY <3>2, <3>3
  <2> QED BY <2>1, <2>2
<1> HIDE DEF Good
<1>3. 0 \in N
  OBVIOUS
<1>4. ASSUME NEW n \in Nat, n \in N PROVE n + 1 \in N
  <2> SUFFICES ASSUME NEW p \in 0 .. Len(f), p + (n + 1) > Len(f) PROVE Good(p)
    OBVIOUS
  <2>1. \A q \in p + 1 .. Len(f) : Good(q)
    BY <1>4
  <2> QED BY <1>2, <2>1
<1> HIDE DEF N
<1>5. Len(f) + 1 \in N
  BY <1>3, <1>4, SetInduction
<1>6. Good(0)
  BY <1>5 DEF N
<1> QED BY <1>1, <1>6 DEF Good

(* Records that stand at the start of a file are the first a scan finds.    *)
LEMMA LaidScanned ==
  ASSUME sizes \in Seq(Nat), NEW f, Len(f) \in Nat, NEW R, NEW rs \in Seq(R), NEW o, NEW e,
         Laid(sizes, f, rs, o, e), StartsAt(o, 0)
  PROVE  /\ Len(rs) <= Len(Scan(f).recs)
         /\ \A j \in 1 .. Len(rs) : Scan(f).recs[j] = rs[j]
<1>1. PICK g \in [0 .. Len(f) -> Scanned(f)] :
        Scan(f) = g[0] /\ \A p \in 0 .. Len(f) : g[p] = ScanStep(g, f, p)
  BY ScanIs
<1> DEFINE m == Len(rs)
           Ok(k) == /\ m + 1 - k <= Len(g[o[k]].recs)
                    /\ \A j \in k .. m : g[o[k]].recs[j - k + 1] = rs[j]
           N == {n \in Nat : n <= m => Ok(m + 1 - n)}
<1>0. m \in Nat /\ e \in Nat /\ e <= Len(f)
      /\ \A k \in 1 .. m + 1 : o[k] \in Nat /\ o[k] <= e
  <2>1. Len(rs) \in Nat
    OBVIOUS
  <2> QED BY <2>1, LaidOffsets
<1>o. \A k \in 1 .. m + 1 : o[k] \in 0 .. Len(f)
  BY <1>0
<1>t. \A p \in 0 .. Len(f) : g[p].recs \in Seq(1 .. Len(sizes))
  BY DEF Scanned
<1>2. Ok(m + 1)
  <2>1. m + 1 \in 1 .. m + 1
    BY <1>0
  <2>2. g[o[m + 1]].recs \in Seq(1 .. Len(sizes))
    BY <1>o, <1>t, <2>1
  <2>3. Len(g[o[m + 1]].recs) \in Nat
    BY <2>2
  <2> QED BY <1>0, <2>3
<1>3. ASSUME NEW k \in 1 .. m, Ok(k + 1) PROVE Ok(k)
  <2> DEFINE t == g[o[k]].recs
             u == g[o[k + 1]].recs
  <2>1. Found(f, o[k], Len(f)) = "record" /\ At(f, o[k]) = rs[k] /\ o[k] + Total(rs[k]) = o[k + 1]
    BY <1>0, LaidFound
  <2>2. o[k] \in 0 .. Len(f) /\ o[k + 1] \in 0 .. Len(f)
    BY <1>0, <1>o
  <2>3. g[o[k]] = [g[o[k + 1]] EXCEPT !.recs = <<rs[k]>> \o @]
    <3>1. g[o[k]] = ScanStep(g, f, o[k])
      BY <1>1, <2>2
    <3> QED BY <2>1, <3>1 DEF ScanStep
  <2>4. g[o[k + 1]] \in Scanned(f)
    BY <2>2
  <2>5. t = <<rs[k]>> \o u /\ u \in Seq(1 .. Len(sizes))
    BY <2>3, <2>4 DEF Scanned
  <2>6. m + 1 - (k + 1) <= Len(u) /\ \A j \in k + 1 .. m : u[j - (k + 1) + 1] = rs[j]
    BY <1>3
  <2> SUFFICES /\ m + 1 - k <= Len(t)
               /\ \A j \in k .. m : t[j - k + 1] = rs[j]
    OBVIOUS
  <2> HIDE DEF t, u
  <2>7. Len(t) = Len(u) + 1 /\ t[1] = rs[k] /\ Len(u) \in Nat
        /\ \A i \in 1 .. Len(u) : t[i + 1] = u[i]
    BY <2>5
  <2>8. ASSUME NEW j \in k .. m PROVE t[j - k + 1] = rs[j]
    <3>1. CASE j = k
      <4>1. j - k + 1 = 1
        BY <1>0, <3>1
      <4> QED BY <2>7, <3>1, <4>1
    <3>2. CASE j # k
      <4> DEFINE i == j - k
      <4>1. i \in 1 .. Len(u) /\ j - (k + 1) + 1 = i /\ j - k + 1 = i + 1 /\ j \in k + 1 .. m
        BY <1>0, <2>6, <2>7, <3>2
      <4> HIDE DEF i
      <4>2. u[i] = rs[j]
        BY <2>6, <4>1
      <4> QED BY <2>7, <4>1, <4>2
    <3> QED BY <3>1, <3>2
  <2>9. m + 1 - k <= Len(t)
    BY <1>0, <2>6, <2>7
  <2> QED BY <2>8, <2>9
<1> HIDE DEF Ok
<1>4. 0 \in N
  <2>1. m + 1 - 0 = m + 1
    BY <1>0
  <2> QED BY <1>2, <2>1
<1>5. ASSUME NEW n \in Nat, n \in N PROVE n + 1 \in N
  <2> SUFFICES ASSUME n + 1 <= m PROVE Ok(m + 1 - (n + 1))
    OBVIOUS
  <2> DEFINE k == m - n
  <2>1. k \in 1 .. m /\ k + 1 = m + 1 - n /\ k = m + 1 - (n + 1)
    BY <1>0
  <2> HIDE DEF k
  <2>2. Ok(m + 1 - n)
    BY <1>0, <1>5
  <2> QED BY <1>3, <2>1, <2>2
<1> HIDE DEF N
<1>6. m \in N
  BY <1>0, <1>4, <1>5, SetInduction
<1>7. Ok(1)
  <2>1. m + 1 - m = 1
    BY <1>0
  <2> QED BY <1>0, <1>6, <2>1 DEF N
<1>8. m + 1 - 1 <= Len(g[o[1]].recs) /\ \A j \in 1 .. m : g[o[1]].recs[j - 1 + 1] = rs[j]
  BY <1>7 DEF Ok
<1>9. m + 1 - 1 = m /\ \A j \in 1 .. m : j - 1 + 1 = j
  BY <1>0
<1> HIDE DEF m
<1>10. Scan(f).recs = g[o[1]].recs
  BY <1>1 DEF StartsAt
<1>11. m <= Len(g[o[1]].recs)
  BY <1>8, <1>9
<1>12. ASSUME NEW j \in 1 .. m PROVE g[o[1]].recs[j] = rs[j]
  <2>1. g[o[1]].recs[j - 1 + 1] = rs[j] /\ j - 1 + 1 = j
    BY <1>8, <1>9
  <2> QED BY <2>1
<1> QED BY <1>10, <1>11, <1>12 DEF m

-------------------------------------------------------------------------------
(* Types.                                                                   *)
LEMMA SizesAreNat ==
  ASSUME NEW sz \in Seq(Payloads)
  PROVE  sz \in Seq(Nat) /\ \A n \in 1 .. Len(sz) : sz[n] \in Nat /\ Span(sz, n) \in Nat
<1>1. Payloads \subseteq Nat
  BY WalAssumption
<1>0. Len(sz) \in Nat /\ \A n \in 1 .. Len(sz) : sz[n] \in Payloads
  OBVIOUS
<1>2. Len(sz) \in Nat /\ \A n \in 1 .. Len(sz) : sz[n] \in Nat
  BY <1>0, <1>1, Zenon
<1>3. sz = [n \in 1 .. Len(sz) |-> sz[n]]
  OBVIOUS
<1>4. sz \in Seq(Nat)
  BY <1>2, <1>3
<1> QED BY <1>2, <1>4 DEF Span, HeaderSize, TrailerSize

(* The end a power loss leaves, which the action chooses, exists.           *)
LEMMA EndExists ==
  ASSUME NEW a \in Nat, NEW b \in Nat, a <= b, NEW lost
  PROVE  \E n \in a .. b : (\A i \in n + 1 .. b : i \in lost) /\ (n = a \/ n \notin lost)
<1> DEFINE S == {n \in a .. b : \A i \in n + 1 .. b : i \in lost}
<1>1. b \in S /\ S \subseteq Nat
  OBVIOUS
<1>2. PICK n \in S : \A m \in S : n <= m
  <2> HIDE DEF S
  <2> QED BY <1>1, Least
<1>3. n \in a .. b /\ \A i \in n + 1 .. b : i \in lost
  OBVIOUS
<1>4. ASSUME n # a, n \in lost PROVE FALSE
  <2>1. n - 1 \in a .. b /\ \A i \in (n - 1) + 1 .. b : i = n \/ i \in n + 1 .. b
    BY <1>3, <1>4
  <2>2. n - 1 \in S
    BY <1>3, <1>4, <2>1
  <2> QED BY <1>2, <1>3, <2>2
<1> QED BY <1>3, <1>4

(* A file after a power loss holds each cell of the old file or of the disk *)
(* or a hole, and is at least as long as the disk.                          *)
LEMMA PowerLossFile ==
  ASSUME TypeOK, PowerLoss
  PROVE  /\ file' \in Seq(Cell) /\ disk' = file'
         /\ Len(disk) <= Len(file') /\ Len(file') <= Len(file)
         /\ \A i \in 1 .. Len(disk) : file'[i] \in {disk[i], file[i]}
<1> DEFINE old(i) == IF i <= Len(disk) THEN disk[i] ELSE Hole
           end(lost) == CHOOSE n \in Len(disk) .. Len(file) :
                          /\ \A i \in n + 1 .. Len(file) : i \in lost
                          /\ n = Len(disk) \/ n \notin lost
<1>1. PICK lost : file' = [i \in 1 .. end(lost) |-> IF i \in lost THEN old(i) ELSE file[i]]
  BY DEF PowerLoss
<1>2. Len(disk) \in Nat /\ Len(file) \in Nat /\ Len(disk) <= Len(file)
      /\ file \in Seq(Cell) /\ disk \in Seq(Cell)
  BY DEF TypeOK
<1>3. end(lost) \in Len(disk) .. Len(file)
  <2>1. \E n \in Len(disk) .. Len(file) : /\ \A i \in n + 1 .. Len(file) : i \in lost
                                          /\ n = Len(disk) \/ n \notin lost
    BY <1>2, EndExists
  <2> QED BY <2>1
<1> DEFINE m == end(lost)
<1>4. m \in Nat /\ Len(disk) <= m /\ m <= Len(file)
  BY <1>2, <1>3
<1>5. file' = [i \in 1 .. m |-> IF i \in lost THEN old(i) ELSE file[i]]
  BY <1>1
<1> HIDE DEF m, end
<1>6. ASSUME NEW i \in 1 .. m PROVE old(i) \in Cell /\ file[i] \in Cell
  BY <1>2, <1>4 DEF Cell
<1>7. file' \in Seq(Cell) /\ Len(file') = m
  <2> HIDE DEF old
  <2> QED BY <1>4, <1>5, <1>6
<1>8. \A i \in 1 .. Len(disk) : file'[i] \in {disk[i], file[i]}
  BY <1>2, <1>4, <1>5
<1> QED BY <1>4, <1>7, <1>8 DEF PowerLoss

LEMMA WalInitType == Init => TypeOK
<1> SUFFICES ASSUME Init PROVE TypeOK
  OBVIOUS
<1>1. /\ file = <<>> /\ disk = <<>> /\ cursor = 0 /\ tail = 0 /\ buffer = <<>>
      /\ sizes = <<>> /\ got = <<>> /\ log = <<>> /\ acked = <<>>
  BY DEF Init
<1>2. BufCap \in Nat /\ MaxRecs \in Nat /\ MaxTroubles \in Nat
  BY WalAssumption
<1>3. /\ file \in Seq(Cell) /\ disk \in Seq(Cell) /\ buffer \in Seq(Cell)
      /\ Len(file) = 0 /\ Len(disk) = 0 /\ Len(buffer) = 0
  BY <1>1
<1>4. sizes \in Seq(Payloads) /\ Len(sizes) = 0
  BY <1>1
<1>5. got \in Seq(Record) /\ log \in Seq(Record) /\ acked \in Seq(Record)
  BY <1>1
<1>6. cursor \in 0 .. Len(file) /\ tail \in 0 .. Len(file)
  BY <1>1, <1>3
<1>7. iter \in {NoIter} \cup Iterator /\ ~iter.live
  BY DEF Init, NoIter
<1>8. lsn \in Nat /\ filePos \in Nat /\ troubles \in 0 .. MaxTroubles
  BY <1>2 DEF Init
<1>9. st \in {"Open", "Closed", "None"} /\ readable \in BOOLEAN /\ damaged \in BOOLEAN
  BY DEF Init
<1> QED BY <1>2, <1>3, <1>4, <1>5, <1>6, <1>7, <1>8, <1>9 DEF TypeOK

(* What the parts of the actions keep.                                      *)
LEMMA WriteType ==
  ASSUME TypeOK, NEW d \in Seq(Cell)
  PROVE  /\ Write(file, cursor, d) \in Seq(Cell)
         /\ Len(file) <= Len(Write(file, cursor, d)) /\ Len(Write(file, cursor, d)) \in Nat
         /\ cursor + Len(d) \in 0 .. Len(Write(file, cursor, d))
         /\ Len(file) \in Nat /\ Len(disk) \in Nat /\ Len(d) \in Nat
<1>1. file \in Seq(Cell) /\ cursor \in 0 .. Len(file) /\ disk \in Seq(Cell)
  BY DEF TypeOK
<1>2. /\ Write(file, cursor, d) \in Seq(Cell)
      /\ Len(Write(file, cursor, d)) =
           IF cursor + Len(d) > Len(file) THEN cursor + Len(d) ELSE Len(file)
  BY <1>1, WriteShape
<1>3. Len(file) \in Nat /\ Len(d) \in Nat /\ cursor \in Nat /\ Len(disk) \in Nat
  BY <1>1
<1> QED BY <1>2, <1>3

LEMMA RecordType ==
  ASSUME TypeOK, NEW p \in Payloads, NewRecord(p)
  PROVE  /\ sizes' \in Seq(Payloads) /\ Len(sizes') <= MaxRecs /\ Len(sizes') = Len(sizes) + 1
         /\ Len(sizes) + 1 \in Record /\ Cells(Len(sizes) + 1, p) \in Seq(Cell)
         /\ p \in Nat /\ Len(Cells(Len(sizes) + 1, p)) \in Nat
<1>1. sizes \in Seq(Payloads) /\ Len(sizes) < MaxRecs /\ sizes' = Append(sizes, p)
  BY DEF TypeOK, NewRecord
<1>2. MaxRecs \in Nat /\ p \in Nat
  BY WalAssumption
<1>3. Len(sizes) + 1 \in Record /\ Len(sizes) + 1 \in Nat
  BY <1>1, <1>2 DEF Record
<1> DEFINE n == Len(sizes) + 1
<1>4. Cells(n, p) \in Seq({n} \X (Nat \ {0})) /\ Len(Cells(n, p)) \in Nat
  <2> HIDE DEF n
  <2> QED BY <1>2, <1>3, CellsShape DEF n
<1>5. {n} \X (Nat \ {0}) \subseteq Cell
  BY <1>3 DEF Cell
<1>6. Cells(n, p) \in Seq(Cell)
  <2> HIDE DEF n
  <2> QED BY <1>4, <1>5
<1> QED BY <1>1, <1>2, <1>3, <1>4, <1>6

-------------------------------------------------------------------------------
(* TypeOK in the parts that an action leaves alone together.                *)
FileOK == /\ file \in Seq(Cell) /\ disk \in Seq(Cell) /\ Len(disk) <= Len(file)
          /\ cursor \in 0 .. Len(file) /\ tail \in 0 .. Len(file) /\ filePos \in Nat
BufferOK  == buffer \in Seq(Cell) /\ Len(buffer) <= BufCap
HandleOK == /\ lsn \in Nat /\ st \in {"Open", "Closed", "None"} /\ readable \in BOOLEAN
            /\ log \in Seq(Record)
IterOK   == /\ iter \in {NoIter} \cup Iterator /\ got \in Seq(Record)
            /\ iter.live => iter.size <= Len(file)
HistOK   == /\ sizes \in Seq(Payloads) /\ Len(sizes) <= MaxRecs /\ acked \in Seq(Record)
            /\ damaged \in BOOLEAN /\ troubles \in 0 .. MaxTroubles

LEMMA TypeParts == FileOK' /\ BufferOK' /\ HandleOK' /\ IterOK' /\ HistOK' => TypeOK'
BY DEF TypeOK, FileOK, BufferOK, HandleOK, IterOK, HistOK

(* A flush keeps the file's type.                                           *)
LEMMA FlushType ==
  ASSUME TypeOK, NEW more \in Seq(Cell), FlushAnd(more)
  PROVE  /\ file' \in Seq(Cell) /\ Len(file) <= Len(file') /\ Len(disk) <= Len(file')
         /\ cursor' \in 0 .. Len(file') /\ tail' \in 0 .. Len(file') /\ filePos' \in Nat
<1> DEFINE d == buffer \o more
<1>1. buffer \in Seq(Cell) /\ tail \in 0 .. Len(file) /\ filePos \in Nat /\ Len(disk) <= Len(file)
  BY DEF TypeOK
<1>2. d \in Seq(Cell)
  BY <1>1
<1>3. file' = Write(file, cursor, d) /\ cursor' = cursor + Len(d)
      /\ tail' \in {tail, cursor'} /\ filePos' = filePos + Len(d)
  BY DEF FlushAnd
<1> HIDE DEF d
<1>4. /\ file' \in Seq(Cell) /\ Len(file) <= Len(file') /\ Len(file') \in Nat
      /\ cursor' \in 0 .. Len(file')
      /\ Len(file) \in Nat /\ Len(disk) \in Nat /\ Len(d) \in Nat
  BY <1>2, <1>3, WriteType
<1>5. filePos' \in Nat
  BY <1>1, <1>3, <1>4
<1>6. Len(disk) <= Len(file') /\ tail' \in 0 .. Len(file')
  BY <1>1, <1>3, <1>4
<1> QED BY <1>4, <1>5, <1>6

LEMMA LiveIter ==
  ASSUME NEW x \in {NoIter} \cup Iterator, x.live PROVE x \in Iterator
<1>1. NoIter.live = FALSE
  BY DEF NoIter
<1> QED BY <1>1

LEMMA FileFlushed ==
  ASSUME TypeOK, NEW more \in Seq(Cell), FlushAnd(more), disk' = disk \/ disk' = file'
  PROVE  FileOK' /\ (UNCHANGED iterVars => IterOK')
<1>1. /\ file' \in Seq(Cell) /\ Len(file) <= Len(file') /\ Len(disk) <= Len(file')
      /\ cursor' \in 0 .. Len(file') /\ tail' \in 0 .. Len(file') /\ filePos' \in Nat
  BY FlushType
<1>2. file \in Seq(Cell) /\ disk \in Seq(Cell) /\ IterOK
  BY DEF TypeOK, IterOK
<1>3. disk' \in Seq(Cell) /\ Len(disk') <= Len(file')
  <2>1. Len(file') \in Nat
    BY <1>1
  <2> QED BY <1>1, <1>2, <2>1
<1>4. FileOK'
  BY <1>1, <1>3 DEF FileOK
<1>5. ASSUME UNCHANGED iterVars PROVE IterOK'
  <2>1. iter' = iter /\ got' = got
    BY <1>5 DEF iterVars
  <2>2. Len(file) \in Nat /\ Len(file') \in Nat
    BY <1>1, <1>2
  <2>3. ASSUME iter.live PROVE iter.size <= Len(file')
    <3>1. iter \in Iterator
      BY <1>2, <2>3, LiveIter DEF IterOK
    <3>2. iter.size \in Nat /\ iter.size <= Len(file)
      BY <1>2, <2>3, <3>1 DEF IterOK, Iterator
    <3> QED BY <1>1, <2>2, <3>2
  <2> QED BY <1>2, <2>1, <2>3 DEF IterOK
<1> QED BY <1>4, <1>5

LEMMA SameFile ==
  ASSUME TypeOK, UNCHANGED <<fileVars, filePos, tail>>
  PROVE  FileOK' /\ (UNCHANGED iterVars => IterOK')
BY DEF TypeOK, fileVars, iterVars, FileOK, IterOK

LEMMA EmptyBuffer ==
  ASSUME buffer' = <<>> PROVE BufferOK'
<1>1. BufCap \in Nat
  BY WalAssumption
<1> QED BY <1>1 DEF BufferOK

(* The handle has gone.                                                     *)
LEMMA ForgetType ==
  ASSUME TypeOK, Forget, file' \in Seq(Cell), disk' \in Seq(Cell), Len(disk') <= Len(file')
  PROVE  FileOK' /\ BufferOK' /\ HandleOK'
<1>1. BufferOK'
  BY EmptyBuffer DEF Forget
<1>2. cursor' = 0 /\ tail' = 0 /\ filePos' = 0 /\ lsn' = 0 /\ log' = <<>>
      /\ st' = "None" /\ readable' = FALSE
  BY DEF Forget
<1>3. Len(file') \in Nat
  OBVIOUS
<1>4. FileOK'
  BY <1>2, <1>3 DEF FileOK
<1>5. HandleOK'
  <2>1. log' \in Seq(Record) /\ lsn' \in Nat
    BY <1>2
  <2> QED BY <1>2, <2>1 DEF HandleOK
<1> QED BY <1>1, <1>4, <1>5

(* What one record adds: a number, a length, and cells for the buffer or    *)
(* the file.                                                                *)
LEMMA LogType ==
  ASSUME TypeOK, NEW p \in Payloads, NewRecord(p), log' = Append(log, Len(sizes) + 1)
  PROVE  log' \in Seq(Record)
BY RecordType DEF TypeOK

LEMMA AppendBufferedType ==
  ASSUME TypeOK, NEW p \in Payloads, AppendBuffered(p)
  PROVE  TypeOK'
<1> DEFINE cells == Cells(Len(sizes) + 1, p)
<1>1. /\ NewRecord(p) /\ Len(cells) <= BufCap /\ lsn' = lsn + 1
      /\ log' = Append(log, Len(sizes) + 1)
      /\ UNCHANGED <<disk, st, readable, iterVars, acked, damaged, troubles>>
  BY DEF AppendBuffered
<1>2. /\ sizes' \in Seq(Payloads) /\ Len(sizes') <= MaxRecs /\ cells \in Seq(Cell)
      /\ Len(cells) \in Nat
  BY <1>1, RecordType
<1>3. log' \in Seq(Record)
  BY <1>1, LogType
<1>4. HandleOK' /\ HistOK'
  BY <1>1, <1>2, <1>3 DEF TypeOK, HandleOK, HistOK
<1> USE <1>1 DEF AppendBuffered
<1>5. CASE Len(buffer \o cells) > BufCap
  <2>1. FlushAnd(<<>>) /\ buffer' = cells
    BY <1>5
  <2>2. <<>> \in Seq(Cell)
    OBVIOUS
  <2>3. FileOK' /\ IterOK'
    BY <2>1, <2>2, FileFlushed
  <2>4. BufferOK'
    BY <1>2, <2>1 DEF BufferOK
  <2> QED BY <1>4, <2>3, <2>4, TypeParts
<1>6. CASE ~(Len(buffer \o cells) > BufCap)
  <2>1. UNCHANGED <<file, cursor, tail, filePos>> /\ buffer' = buffer \o cells
    BY <1>6
  <2>2. FileOK' /\ IterOK'
    BY <2>1, SameFile DEF fileVars
  <2>3. buffer \in Seq(Cell) /\ BufCap \in Nat
    BY WalAssumption DEF TypeOK
  <2>4. buffer' \in Seq(Cell) /\ Len(buffer \o cells) \in Nat
    BY <1>2, <2>1, <2>3
  <2>5. BufferOK'
    BY <1>6, <2>1, <2>3, <2>4 DEF BufferOK
  <2> QED BY <1>4, <2>2, <2>5, TypeParts
<1> QED BY <1>5, <1>6

LEMMA AppendLargeType ==
  ASSUME TypeOK, NEW p \in Payloads, AppendLarge(p)
  PROVE  TypeOK'
<1> DEFINE cells == Cells(Len(sizes) + 1, p)
<1>1. /\ NewRecord(p) /\ FlushAnd(cells) /\ buffer' = <<>>
      /\ log' = Append(log, Len(sizes) + 1)
      /\ UNCHANGED <<disk, lsn, st, readable, iterVars, acked, damaged, troubles>>
  BY DEF AppendLarge
<1>2. sizes' \in Seq(Payloads) /\ Len(sizes') <= MaxRecs /\ cells \in Seq(Cell)
  BY <1>1, RecordType
<1>3. log' \in Seq(Record)
  BY <1>1, LogType
<1>4. HandleOK' /\ HistOK'
  BY <1>1, <1>2, <1>3 DEF TypeOK, HandleOK, HistOK
<1> HIDE DEF cells
<1>5. FileOK' /\ IterOK'
  BY <1>1, <1>2, FileFlushed
<1> QED BY <1>1, <1>4, <1>5, TypeParts, EmptyBuffer

LEMMA SyncType ==
  ASSUME TypeOK, Sync \/ SyncFails \/ Close
  PROVE  TypeOK'
<1>1. /\ FlushAnd(<<>>) /\ buffer' = <<>> /\ disk' \in {disk, file'}
      /\ UNCHANGED <<lsn, readable, iterVars, sizes, log, damaged>>
      /\ st' \in {st, "Closed"} /\ acked' \in {acked, log}
      /\ (troubles' = troubles \/ (troubles < MaxTroubles /\ troubles' = troubles + 1))
  <2>1. CASE Sync
    BY <2>1 DEF Sync
  <2>2. CASE SyncFails
    BY <2>2 DEF SyncFails
  <2>3. CASE Close
    BY <2>3 DEF Close
  <2> QED BY <2>1, <2>2, <2>3
<1>2. troubles' \in 0 .. MaxTroubles
  BY <1>1, WalAssumption DEF TypeOK
<1>3. HandleOK' /\ HistOK'
  BY <1>1, <1>2 DEF TypeOK, HandleOK, HistOK
<1>4. <<>> \in Seq(Cell)
  OBVIOUS
<1>5. FileOK' /\ IterOK'
  BY <1>1, <1>4, FileFlushed
<1> QED BY <1>1, <1>3, <1>5, TypeParts, EmptyBuffer

(* What WriteFails and Kill write of the buffer and perhaps a large record. *)
CutData(p) == IF p = 0 THEN buffer ELSE buffer \o Cells(Len(sizes) + 1, p)

LEMMA CutType ==
  ASSUME TypeOK, NEW p \in {0} \cup Large, NEW n \in Nat, n = 0 \/ n < Len(CutData(p)),
         IF p = 0 THEN UNCHANGED sizes ELSE NewRecord(p)
  PROVE  /\ CutData(p) \in Seq(Cell) /\ SubSeq(CutData(p), 1, n) \in Seq(Cell)
         /\ Len(SubSeq(CutData(p), 1, n)) = n
         /\ \A i \in 1 .. n : SubSeq(CutData(p), 1, n)[i] = CutData(p)[i]
         /\ sizes' \in Seq(Payloads) /\ Len(sizes') <= MaxRecs
         /\ Len(CutData(p)) \in Nat
<1>1. buffer \in Seq(Cell)
  BY DEF TypeOK
<1>2. CutData(p) \in Seq(Cell) /\ sizes' \in Seq(Payloads) /\ Len(sizes') <= MaxRecs
  <2>1. CASE p = 0
    BY <1>1, <2>1 DEF CutData, TypeOK
  <2>2. CASE p # 0
    <3>1. p \in Payloads /\ NewRecord(p)
      BY <2>2 DEF Large
    <3>2. Cells(Len(sizes) + 1, p) \in Seq(Cell) /\ sizes' \in Seq(Payloads)
          /\ Len(sizes') <= MaxRecs
      BY <3>1, RecordType
    <3> QED BY <1>1, <2>2, <3>2 DEF CutData
  <2> QED BY <2>1, <2>2
<1>3. ASSUME NEW d \in Seq(Cell), n = 0 \/ n < Len(d)
      PROVE  /\ SubSeq(d, 1, n) \in Seq(Cell) /\ Len(SubSeq(d, 1, n)) = n /\ Len(d) \in Nat
             /\ \A i \in 1 .. n : SubSeq(d, 1, n)[i] = d[i]
  BY <1>3
<1> QED BY <1>2, <1>3

LEMMA WriteFailsType ==
  ASSUME TypeOK, NEW p \in {0} \cup Large, NEW n \in Cuts, WriteFails(p, n)
  PROVE  TypeOK'
<1> DEFINE d == SubSeq(CutData(p), 1, n)
<1>0. n \in Nat /\ MaxTroubles \in Nat
  BY WalAssumption
<1>1. /\ n < Len(CutData(p)) /\ IF p = 0 THEN UNCHANGED sizes ELSE NewRecord(p)
      /\ file' = Write(file, cursor, d) /\ cursor' = cursor + n /\ tail' = cursor'
      /\ buffer' \in {buffer, <<>>}
      /\ troubles < MaxTroubles /\ troubles' = troubles + 1
      /\ UNCHANGED <<disk, lsn, st, readable, iterVars, log, acked>>
  BY DEF WriteFails, CutData
<1>1a. filePos' = filePos \/ filePos' = filePos + Len(buffer)
  BY DEF WriteFails, TypeOK
<1>2. /\ d \in Seq(Cell) /\ Len(d) = n /\ sizes' \in Seq(Payloads) /\ Len(sizes') <= MaxRecs
  BY <1>0, <1>1, CutType
<1> HIDE DEF d
<1>3. /\ file' \in Seq(Cell) /\ Len(file) <= Len(file') /\ Len(file') \in Nat
      /\ cursor' \in 0 .. Len(file') /\ Len(file) \in Nat /\ Len(disk) \in Nat
  BY <1>1, <1>2, WriteType
<1>4. filePos' \in Nat
  BY <1>1a DEF TypeOK
<1>5. FileOK'
  BY <1>1, <1>3, <1>4 DEF TypeOK, FileOK
<1>6. BufferOK'
  BY <1>1, EmptyBuffer DEF TypeOK, BufferOK
<1>7. troubles' \in 0 .. MaxTroubles
  BY <1>0, <1>1 DEF TypeOK
<1>8. damaged' \in BOOLEAN
  BY DEF WriteFails
<1>9. HandleOK' /\ HistOK'
  BY <1>1, <1>2, <1>7, <1>8 DEF TypeOK, HandleOK, HistOK
<1>10. IterOK'
  <2>1. iter' = iter /\ got' = got /\ IterOK
    BY <1>1 DEF iterVars, TypeOK, IterOK
  <2>2. ASSUME iter.live PROVE iter.size <= Len(file')
    <3>1. iter \in Iterator
      BY <2>1, <2>2, LiveIter DEF IterOK
    <3>2. iter.size \in Nat /\ iter.size <= Len(file)
      BY <2>1, <2>2, <3>1 DEF IterOK, Iterator
    <3> QED BY <1>3, <3>2
  <2> QED BY <2>1, <2>2 DEF IterOK
<1> QED BY <1>5, <1>6, <1>9, <1>10, TypeParts

LEMMA RecordNumbers ==
  ASSUME TypeOK PROVE 1 .. Len(sizes) \subseteq Record /\ sizes \in Seq(Nat)
<1>1. sizes \in Seq(Payloads) /\ Len(sizes) <= MaxRecs /\ MaxRecs \in Nat
  BY WalAssumption DEF TypeOK
<1>2. Len(sizes) \in Nat
  BY <1>1
<1> QED BY <1>1, <1>2, SizesAreNat DEF Record

LEMMA SmallerSeq ==
  ASSUME NEW A, NEW B, A \subseteq B, NEW s \in Seq(A) PROVE s \in Seq(B)
<1>1. Len(s) \in Nat /\ s = [i \in 1 .. Len(s) |-> s[i]] /\ \A i \in 1 .. Len(s) : s[i] \in A
  OBVIOUS
<1>2. \A i \in 1 .. Len(s) : s[i] \in B
  BY <1>1
<1> QED BY <1>1, <1>2

LEMMA OpenType ==
  ASSUME TypeOK, Open PROVE TypeOK'
<1>1. file \in Seq(Cell) /\ Len(file) \in Nat /\ sizes \in Seq(Nat)
  BY RecordNumbers DEF TypeOK
<1>2. Scan(file) \in Scanned(file)
  BY <1>1, ScanLaid
<1> DEFINE s == Scan(file)
<1>3. /\ lsn' = Len(s.recs) /\ log' = s.recs /\ filePos' = s.pos /\ cursor' = s.pos
      /\ tail' = cursor' /\ buffer' = <<>> /\ st' = "Open" /\ readable' = TRUE
      /\ UNCHANGED <<file, disk, iterVars, sizes, acked, troubles>> /\ damaged' \in BOOLEAN
  BY DEF Open
<1> HIDE DEF s
<1>4. s.recs \in Seq(1 .. Len(sizes)) /\ s.pos \in 0 .. Len(file)
  BY <1>2 DEF s, Scanned
<1>5. log' \in Seq(Record) /\ lsn' \in Nat
  <2>1. s.recs \in Seq(Record)
    BY <1>4, RecordNumbers, SmallerSeq
  <2> QED BY <1>3, <2>1
<1>6. HandleOK' /\ HistOK'
  BY <1>3, <1>5 DEF TypeOK, HandleOK, HistOK
<1>7. FileOK'
  BY <1>1, <1>3, <1>4 DEF TypeOK, FileOK
<1>8. IterOK'
  BY <1>3 DEF TypeOK, IterOK, iterVars
<1> QED BY <1>3, <1>6, <1>7, <1>8, TypeParts, EmptyBuffer

LEMMA NewIterType ==
  ASSUME TypeOK, NEW owner \in BOOLEAN, NewIter(owner), file' \in Seq(Cell)
  PROVE  IterOK'
<1>1. iter' = [live |-> TRUE, owner |-> owner, readable |-> readable, pos |-> 0,
               size |-> Len(file'), done |-> FALSE, promised |-> acked] /\ got' = <<>>
  BY DEF NewIter
<1>2. readable \in BOOLEAN /\ acked \in Seq(Record)
  BY DEF TypeOK
<1>3. Len(file') \in Nat
  OBVIOUS
<1>4. iter' \in Iterator
  BY <1>1, <1>2, <1>3 DEF Iterator
<1>5. iter'.size <= Len(file')
  BY <1>1, <1>3
<1>6. got' \in Seq(Record)
  BY <1>1
<1> QED BY <1>4, <1>5, <1>6 DEF IterOK

LEMMA ReplayType ==
  ASSUME TypeOK, ReplayRef \/ Replay PROVE TypeOK'
<1>1. CASE ReplayRef
  <2>1. /\ UNCHANGED <<file, disk, handleVars, histVars>> /\ NewIter(FALSE) /\ cursor' = 0
    BY <1>1 DEF ReplayRef
  <2>2. file' \in Seq(Cell) /\ Len(file) \in Nat
    BY <2>1 DEF TypeOK
  <2>3. IterOK'
    BY <2>1, <2>2, NewIterType
  <2>4. BufferOK' /\ HandleOK' /\ HistOK'
    BY <2>1 DEF TypeOK, BufferOK, HandleOK, HistOK, handleVars, histVars
  <2>5. FileOK'
    BY <2>1, <2>2 DEF TypeOK, FileOK, handleVars, histVars
  <2> QED BY <2>3, <2>4, <2>5, TypeParts
<1>2. CASE Replay
  <2>1. /\ file' = Write(file, cursor, buffer) /\ NewIter(TRUE) /\ Forget
        /\ UNCHANGED <<disk, sizes, acked, damaged, troubles>>
    BY <1>2 DEF Replay
  <2>2. buffer \in Seq(Cell) /\ Len(disk) <= Len(file) /\ disk \in Seq(Cell)
    BY DEF TypeOK
  <2>3. /\ file' \in Seq(Cell) /\ Len(file) <= Len(file') /\ Len(file') \in Nat
        /\ Len(file) \in Nat /\ Len(disk) \in Nat
    BY <2>1, <2>2, WriteType
  <2>4. disk' \in Seq(Cell) /\ Len(disk') <= Len(file')
    BY <2>1, <2>2, <2>3
  <2>5. FileOK' /\ BufferOK' /\ HandleOK'
    BY <2>1, <2>3, <2>4, ForgetType
  <2>6. IterOK'
    BY <2>1, <2>3, NewIterType
  <2>7. HistOK'
    BY <2>1 DEF TypeOK, HistOK
  <2> QED BY <2>5, <2>6, <2>7, TypeParts
<1> QED BY <1>1, <1>2

(* Where read_next_commit leaves the file lies inside it.                   *)
LEMMA ReadToType ==
  ASSUME sizes \in Seq(Nat), NEW f, NEW p \in Nat, NEW size \in Nat, p <= size,
         NEW len \in Nat, size <= len, cursor \in 0 .. len
  PROVE  ReadTo(f, p, size) \in 0 .. len
<1> DEFINE n == At(f, p)
<1>1. CASE Found(f, p, size) \in {"record", "badTrailer", "badPayload"}
  <2>1. HeaderOk(f, p) /\ ~(p + Total(n) > size)
    BY <1>1 DEF Found
  <2>h. DOMAIN sizes = 1 .. Len(sizes) /\ HeaderSize = 2
    BY DEF HeaderSize
  <2>2. PICK m \in 1 .. Len(sizes) : \A i \in 1 .. HeaderSize : f[p + i] = <<m, i>>
    BY <2>1, <2>h DEF HeaderOk
  <2>3. n = m
    BY <2>2 DEF At, HeaderSize
  <2> HIDE DEF n
  <2>4. sizes[n] \in Nat
    BY <2>2, <2>3
  <2>5. Total(n) = 3 + sizes[n]
    BY <2>4 DEF Total, HeaderSize, TrailerSize
  <2>6. p + Total(n) \in 0 .. len /\ p + 2 + sizes[n] \in 0 .. len
    <3>1. PICK z \in Nat : z = sizes[n]
      BY <2>4
    <3>2. p + (3 + z) <= size
      BY <2>1, <2>5, <3>1
    <3>3. p + (3 + z) \in 0 .. len /\ p + 2 + z \in 0 .. len
      BY <3>2
    <3> QED BY <2>5, <3>1, <3>3
  <2>7. ReadTo(f, p, size) \in {p + Total(n), p + HeaderSize + sizes[n]}
    BY <1>1 DEF ReadTo, n
  <2> QED BY <2>6, <2>7 DEF HeaderSize
<1>2. CASE ~(Found(f, p, size) \in {"record", "badTrailer", "badPayload"})
  <2>1. ReadTo(f, p, size) = IF p + HeaderSize <= size THEN p + HeaderSize ELSE cursor
    BY <1>2 DEF ReadTo
  <2> QED BY <2>1 DEF HeaderSize
<1> QED BY <1>1, <1>2

LEMMA IterNextType ==
  ASSUME TypeOK, IterNext PROVE TypeOK'
<1> DEFINE found == Found(file, iter.pos, iter.size)
<1>1. /\ iter.live /\ iter.pos < iter.size
      /\ UNCHANGED <<file, disk, handleVars, histVars>>
      /\ cursor' \in {cursor, ReadTo(file, iter.pos, iter.size)}
      /\ IF found = "record"
           THEN /\ iter' = [iter EXCEPT !.pos = @ + Total(At(file, iter.pos))]
                /\ got' = Append(got, At(file, iter.pos))
           ELSE iter' = Stopped /\ UNCHANGED got
  BY DEF IterNext, NextBy
<1>2. iter \in Iterator /\ iter.size <= Len(file)
  BY <1>1, LiveIter DEF TypeOK
<1>3. iter.pos \in Nat /\ iter.size \in Nat /\ Len(file) \in Nat /\ sizes \in Seq(Nat)
      /\ cursor \in 0 .. Len(file) /\ got \in Seq(Record) /\ file \in Seq(Cell)
  <2>1. iter.pos \in Nat /\ iter.size \in Nat
    BY <1>2 DEF Iterator
  <2>2. cursor \in 0 .. Len(file) /\ got \in Seq(Record) /\ file \in Seq(Cell)
    BY DEF TypeOK
  <2> QED BY <2>1, <2>2, RecordNumbers
<1>4. cursor' \in 0 .. Len(file)
  <2>1. ReadTo(file, iter.pos, iter.size) \in 0 .. Len(file)
    <3>1. iter.pos <= iter.size
      BY <1>1, <1>3
    <3> QED BY <1>2, <1>3, <3>1, ReadToType
  <2> QED BY <1>1, <1>3, <2>1
<1>5. FileOK'
  BY <1>1, <1>4 DEF TypeOK, FileOK, handleVars, histVars
<1>6. BufferOK' /\ HandleOK' /\ HistOK'
  BY <1>1 DEF TypeOK, BufferOK, HandleOK, HistOK, handleVars, histVars
<1>7. IterOK'
  <2>1. CASE found = "record"
    <3>1. At(file, iter.pos) \in 1 .. Len(sizes) /\ Total(At(file, iter.pos)) \in Nat
      BY <1>3, <2>1, RecordFound
    <3>2. At(file, iter.pos) \in Record
      BY <3>1, RecordNumbers
    <3>3. iter' = [iter EXCEPT !.pos = @ + Total(At(file, iter.pos))]
          /\ got' = Append(got, At(file, iter.pos))
      BY <1>1, <2>1
    <3>4. got' \in Seq(Record)
      BY <1>3, <3>2, <3>3
    <3>5. iter' \in Iterator /\ iter'.size = iter.size
      <4>1. PICK q \in Nat : q = iter.pos + Total(At(file, iter.pos))
        BY <1>3, <3>1
      <4>2. iter' = [iter EXCEPT !.pos = q]
        BY <3>3, <4>1
      <4> QED BY <1>2, <4>1, <4>2 DEF Iterator
    <3> QED BY <1>1, <1>2, <3>4, <3>5 DEF IterOK
  <2>2. CASE found # "record"
    <3>1. iter' = Stopped /\ got' = got
      BY <1>1, <2>2
    <3>2. iter' \in Iterator /\ iter'.size = iter.size
      BY <1>2, <3>1 DEF Iterator, Stopped
    <3> QED BY <1>1, <1>2, <1>3, <3>1, <3>2 DEF IterOK
  <2> QED BY <2>1, <2>2
<1> QED BY <1>5, <1>6, <1>7, TypeParts

LEMMA NoIterType ==
  ASSUME iter' = NoIter, got' = <<>> PROVE IterOK'
<1>1. got' \in Seq(Record)
  OBVIOUS
<1>2. NoIter.live = FALSE
  BY DEF NoIter
<1> QED BY <1>1, <1>2 DEF IterOK

LEMMA IterEndType ==
  ASSUME TypeOK, IterEnd \/ DropIter PROVE TypeOK'
<1>1. UNCHANGED <<fileVars, handleVars, histVars>>
  BY DEF IterEnd, DropIter
<1>2. FileOK' /\ BufferOK' /\ HandleOK' /\ HistOK'
  BY <1>1 DEF TypeOK, FileOK, BufferOK, HandleOK, HistOK, fileVars, handleVars, histVars
<1>3. CASE IterEnd
  <2>1. iter.live /\ iter' = Stopped /\ got' = got
    BY <1>3 DEF IterEnd
  <2>2. iter \in Iterator /\ iter.size <= Len(file) /\ got \in Seq(Record)
    BY <2>1, LiveIter DEF TypeOK
  <2>3. iter' \in Iterator /\ iter'.size = iter.size
    BY <2>1, <2>2 DEF Iterator, Stopped
  <2>4. IterOK'
    BY <1>1, <2>1, <2>2, <2>3 DEF IterOK, fileVars
  <2> QED BY <1>2, <2>4, TypeParts
<1>4. CASE DropIter
  <2>1. IterOK'
    BY <1>4, NoIterType DEF DropIter
  <2> QED BY <1>2, <2>1, TypeParts
<1> QED BY <1>3, <1>4

LEMMA LossType ==
  ASSUME TypeOK, LoseProcess, file' \in Seq(Cell), disk' \in Seq(Cell), Len(disk') <= Len(file'),
         sizes' \in Seq(Payloads), Len(sizes') <= MaxRecs
  PROVE  TypeOK'
<1>1. /\ troubles < MaxTroubles /\ troubles' = troubles + 1 /\ Forget /\ iter' = NoIter
      /\ got' = <<>> /\ UNCHANGED <<acked, damaged>>
  BY DEF LoseProcess
<1>2. troubles' \in 0 .. MaxTroubles
  BY <1>1, WalAssumption DEF TypeOK
<1>3. HistOK'
  BY <1>1, <1>2 DEF TypeOK, HistOK
<1>4. FileOK' /\ BufferOK' /\ HandleOK'
  BY <1>1, ForgetType
<1>5. IterOK'
  BY <1>1, NoIterType
<1> QED BY <1>3, <1>4, <1>5, TypeParts

LEMMA KillType ==
  ASSUME TypeOK, NEW p \in {0} \cup Large, NEW n \in Cuts, Kill(p, n)
  PROVE  TypeOK'
<1> DEFINE d == SubSeq(CutData(p), 1, n)
<1>0. n \in Nat
  BY WalAssumption
<1>1. /\ (n = 0 \/ n < Len(CutData(p))) /\ IF p = 0 THEN UNCHANGED sizes ELSE NewRecord(p)
      /\ file' = Write(file, cursor, d) /\ LoseProcess /\ disk' = disk
  BY DEF Kill, CutData
<1>2. d \in Seq(Cell) /\ sizes' \in Seq(Payloads) /\ Len(sizes') <= MaxRecs
  BY <1>0, <1>1, CutType
<1> HIDE DEF d
<1>3. /\ file' \in Seq(Cell) /\ Len(file) <= Len(file') /\ Len(file') \in Nat
      /\ Len(file) \in Nat /\ Len(disk) \in Nat
  BY <1>1, <1>2, WriteType
<1>4. disk' \in Seq(Cell) /\ Len(disk') <= Len(file')
  BY <1>1, <1>3 DEF TypeOK
<1> QED BY <1>1, <1>2, <1>3, <1>4, LossType

LEMMA WalStepType == TypeOK /\ [Next]_vars => TypeOK'
<1> SUFFICES ASSUME TypeOK, [Next]_vars PROVE TypeOK'
  OBVIOUS
<1>1. CASE \E p \in Payloads : AppendBuffered(p)
  BY <1>1, AppendBufferedType
<1>2. CASE \E p \in Payloads : AppendLarge(p)
  BY <1>2, AppendLargeType
<1>3. CASE Sync \/ SyncFails \/ Close
  BY <1>3, SyncType
<1>4. CASE \E p \in {0} \cup Large, n \in Cuts : WriteFails(p, n)
  BY <1>4, WriteFailsType
<1>5. CASE Drop
  <2>1. Forget /\ UNCHANGED <<file, disk, iterVars, sizes, acked, damaged, troubles>>
    BY <1>5 DEF Drop
  <2>2. file' \in Seq(Cell) /\ disk' \in Seq(Cell) /\ Len(disk') <= Len(file')
    BY <2>1 DEF TypeOK
  <2>3. HistOK' /\ IterOK'
    BY <2>1 DEF TypeOK, HistOK, IterOK, iterVars
  <2> QED BY <2>1, <2>2, <2>3, ForgetType, TypeParts
<1>6. CASE Open
  BY <1>6, OpenType
<1>7. CASE ReplayRef \/ Replay
  BY <1>7, ReplayType
<1>8. CASE IterNext
  BY <1>8, IterNextType
<1>9. CASE IterEnd \/ DropIter
  BY <1>9, IterEndType
<1>10. CASE \E p \in {0} \cup Large, n \in Cuts : Kill(p, n)
  BY <1>10, KillType
<1>11. CASE PowerLoss
  <2>1. file' \in Seq(Cell) /\ disk' = file' /\ LoseProcess /\ sizes' = sizes
    BY <1>11, PowerLossFile DEF PowerLoss
  <2>2. disk' \in Seq(Cell) /\ Len(disk') <= Len(file')
    <3>1. Len(file') \in Nat
      BY <2>1
    <3> QED BY <2>1, <3>1
  <2>3. sizes' \in Seq(Payloads) /\ Len(sizes') <= MaxRecs
    BY <2>1 DEF TypeOK
  <2> QED BY <2>1, <2>2, <2>3, LossType
<1>12. CASE UNCHANGED vars
  BY <1>12 DEF TypeOK, vars, fileVars, handleVars, iterVars, histVars
<1> QED BY <1>1, <1>2, <1>3, <1>4, <1>5, <1>6, <1>7, <1>8, <1>9, <1>10, <1>11, <1>12 DEF Next

(* Every variable of wal.rs's handle, file and iterators keeps its kind:    *)
(* the buffer never overflows, the offset never stands behind the end of    *)
(* the file, and stable storage never holds more than the file.             *)
THEOREM WalType == Spec => []TypeOK
BY WalInitType, WalStepType, PTL DEF Spec

-------------------------------------------------------------------------------
(****************************************************************************)
(* What a sync covered stays readable, as long as no client appends behind  *)
(* a replay_ref that moved the shared offset.  Three facts carry it: acked  *)
(* records stand at the same offsets of the file and of the disk, before    *)
(* the place of the next write; the records of the log stand in the file    *)
(* that the next flush makes, and end where it ends; and an iterator that   *)
(* has not yet yielded what it promised stands before the next record of it.*)
(****************************************************************************)
Quiet ==
  /\ st = "None" => buffer = <<>>
  /\ buffer # <<>> => cursor = tail /\ ~iter.live

AckedAt(o, e) == /\ Laid(sizes, file, acked, o, e) /\ Laid(sizes, disk, acked, o, e)
                 /\ StartsAt(o, 0) /\ (st # "None" => e <= tail)
AckedLaid == \E o, e : AckedAt(o, e)

LogAt(o, e) == /\ Laid(sizes, Image, log, o, e) /\ StartsAt(o, 0)
               /\ e = tail + Len(buffer)
LogLaid == st # "None" /\ ~damaged => \E o, e : LogAt(o, e)

YieldedFirst == \A j \in 1 .. Len(got) : j <= Len(iter.promised) => got[j] = iter.promised[j]
IterAt(o, e) ==
  /\ Laid(sizes, file, iter.promised, o, e) /\ StartsAt(o, 0) /\ e <= iter.size
  /\ Len(got) < Len(iter.promised) => ~iter.done /\ iter.pos = o[Len(got) + 1]
IterLaid == iter.live => YieldedFirst /\ \E o, e : IterAt(o, e)

WalInd == TypeOK /\ Quiet /\ AckedLaid /\ LogLaid /\ IterLaid

(* The parts of the type invariant those proofs use.                        *)
LEMMA Known ==
  ASSUME TypeOK
  PROVE  /\ file \in Seq(Cell) /\ disk \in Seq(Cell) /\ buffer \in Seq(Cell)
         /\ Len(file) \in Nat /\ Len(disk) \in Nat /\ Len(buffer) \in Nat
         /\ Len(disk) <= Len(file) /\ cursor \in 0 .. Len(file) /\ tail \in 0 .. Len(file)
         /\ cursor \in Nat /\ tail \in Nat
         /\ sizes \in Seq(Nat) /\ \A n \in 1 .. Len(sizes) : Span(sizes, n) \in Nat
         /\ acked \in Seq(Record) /\ log \in Seq(Record) /\ got \in Seq(Record)
         /\ Len(acked) \in Nat /\ Len(log) \in Nat /\ Len(got) \in Nat
         /\ st \in {"Open", "Closed", "None"} /\ damaged \in BOOLEAN
<1>1. /\ file \in Seq(Cell) /\ disk \in Seq(Cell) /\ buffer \in Seq(Cell)
      /\ Len(disk) <= Len(file) /\ cursor \in 0 .. Len(file) /\ tail \in 0 .. Len(file)
      /\ acked \in Seq(Record) /\ log \in Seq(Record) /\ got \in Seq(Record)
      /\ sizes \in Seq(Payloads)
      /\ st \in {"Open", "Closed", "None"} /\ damaged \in BOOLEAN
  BY DEF TypeOK
<1>2. /\ Len(file) \in Nat /\ Len(disk) \in Nat /\ Len(buffer) \in Nat
      /\ Len(acked) \in Nat /\ Len(log) \in Nat /\ Len(got) \in Nat
  BY <1>1
<1>3. ASSUME NEW sz \in Seq(Payloads)
      PROVE  sz \in Seq(Nat) /\ \A n \in 1 .. Len(sz) : Span(sz, n) \in Nat
  BY SizesAreNat
<1> QED BY <1>1, <1>2, <1>3

LEMMA ImageIs == ASSUME TypeOK PROVE Image = Write(file, cursor, buffer)
<1>1. Write(file, cursor, <<>>) = file
  BY Known, WriteNothing
<1> QED BY <1>1 DEF Image

LEMMA ImageNext == ASSUME TypeOK' PROVE Image' = Write(file', cursor', buffer')
<1>1. file' \in Seq(Cell) /\ cursor' \in 0 .. Len(file')
  BY DEF TypeOK
<1>2. Write(file', cursor', <<>>) = file'
  BY <1>1, WriteNothing
<1> QED BY <1>2 DEF Image

LEMMA ImageType == ASSUME TypeOK PROVE Image \in Seq(Cell) /\ Len(Image) \in Nat
BY Known, ImageIs, WriteType

(* The records sizes knows of: one more, or the same.                       *)
Grown == sizes' = sizes \/ \E p \in Nat : sizes' = Append(sizes, p)

LEMMA LaidGrown ==
  ASSUME TypeOK, Grown, NEW f, NEW rs, NEW o, NEW e, Laid(sizes, f, rs, o, e)
  PROVE  Laid(sizes', f, rs, o, e)
<1>1. ASSUME NEW sz \in Seq(Nat), NEW p \in Nat, Laid(sz, f, rs, o, e)
      PROVE  Laid(Append(sz, p), f, rs, o, e)
  BY <1>1, LaidLater
<1>2. sizes \in Seq(Nat)
  BY Known
<1> QED BY <1>1, <1>2 DEF Grown

(* A write at the end of what was written leaves what a sync covered.       *)
LEMMA AckedWrite ==
  ASSUME TypeOK, NEW o, NEW e, AckedAt(o, e), st # "None",
         NEW d \in Seq(Cell), d # <<>> => cursor = tail
  PROVE  Laid(sizes, Write(file, cursor, d), acked, o, e)
<1>1. Laid(sizes, file, acked, o, e) /\ e <= tail
  BY DEF AckedAt
<1>2. CASE d = <<>>
  <2>1. Write(file, cursor, d) = file
    BY <1>2, Known, WriteNothing
  <2> QED BY <1>1, <2>1
<1>3. CASE d # <<>>
  <2>1. e <= cursor
    BY <1>1, <1>3
  <2>2. ASSUME NEW sz \in Seq(Nat), sz = sizes
        PROVE  Laid(sz, Write(file, cursor, d), acked, o, e)
    <3>1. Laid(sz, file, acked, o, e)
      BY <1>1, <2>2
    <3> QED BY <2>1, <3>1, Known, LaidWrite
  <2> QED BY <2>2, Known
<1> QED BY <1>2, <1>3

(* A step that writes like that, and perhaps syncs, keeps AckedLaid.        *)
LEMMA AckedStep ==
  ASSUME TypeOK, AckedLaid, st # "None", Grown, acked' = acked,
         NEW d \in Seq(Cell), d # <<>> => cursor = tail, file' = Write(file, cursor, d),
         disk' = disk \/ disk' = file', st' = "None" \/ (tail' \in Nat /\ tail <= tail')
  PROVE  AckedLaid'
<1>1. PICK o, e : AckedAt(o, e)
  BY DEF AckedLaid
<1>2. Laid(sizes, file', acked, o, e)
  BY <1>1, AckedWrite
<1>3. Laid(sizes, disk, acked, o, e) /\ StartsAt(o, 0) /\ e <= tail /\ e \in Nat
  <2>1. Laid(sizes, file, acked, o, e) /\ Laid(sizes, disk, acked, o, e) /\ StartsAt(o, 0)
        /\ e <= tail
    BY <1>1 DEF AckedAt
  <2>2. e \in 0 .. Len(file)
    BY <2>1 DEF Laid
  <2> QED BY <2>1, <2>2
<1>4. Laid(sizes', file', acked', o, e) /\ Laid(sizes', disk', acked', o, e)
  BY <1>2, <1>3, LaidGrown
<1>5. st' # "None" => e <= tail'
  BY <1>3, Known
<1>6. AckedAt(o, e)'
  BY <1>3, <1>4, <1>5 DEF AckedAt
<1> QED BY <1>6 DEF AckedLaid

(* A step that leaves the file, and the place of the next write.            *)
LEMMA AckedSame ==
  ASSUME TypeOK, AckedLaid, UNCHANGED <<file, disk, sizes, acked>>,
         st' = "None" \/ (st # "None" /\ tail' = tail)
  PROVE  AckedLaid'
<1>1. PICK o, e : AckedAt(o, e)
  BY DEF AckedLaid
<1>2. AckedAt(o, e)'
  BY <1>1 DEF AckedAt
<1> QED BY <1>2 DEF AckedLaid

(* While an iterator lives, nothing is written.                             *)
LEMMA IterSame ==
  ASSUME IterLaid, UNCHANGED iterVars, iter.live => file' = file /\ sizes' = sizes
  PROVE  IterLaid'
<1> SUFFICES ASSUME iter'.live PROVE YieldedFirst' /\ \E o, e : IterAt(o, e)'
  BY DEF IterLaid
<1>1. iter' = iter /\ got' = got /\ iter.live /\ file' = file /\ sizes' = sizes
  BY DEF iterVars
<1>2. YieldedFirst'
  BY <1>1 DEF IterLaid, YieldedFirst
<1>3. PICK o, e : IterAt(o, e)
  BY <1>1 DEF IterLaid
<1>4. IterAt(o, e)'
  BY <1>1, <1>3 DEF IterAt
<1> QED BY <1>2, <1>4

(* flush_buffer writes what the log had buffered, at the end of the file's  *)
(* last write.                                                              *)
LEMMA FlushKeeps ==
  ASSUME TypeOK, TypeOK', Quiet, FlushAnd(<<>>)
  PROVE  /\ file' = Write(file, cursor, buffer) /\ file' = Image
         /\ tail' = tail + Len(buffer) /\ (buffer' = <<>> => Image' = Image)
         /\ (cursor = tail => cursor' = tail') /\ (iter.live => file' = file)
         /\ tail' \in Nat /\ tail <= tail'
<1>1. buffer \o <<>> = buffer
  BY Known
<1>2. /\ file' = Write(file, cursor, buffer) /\ cursor' = cursor + Len(buffer)
      /\ tail' = IF buffer = <<>> THEN tail ELSE cursor'
  BY <1>1 DEF FlushAnd
<1>3. file' = Image
  BY <1>2, ImageIs
<1>4. buffer = <<>> => Len(buffer) = 0
  OBVIOUS
<1>5. tail' = tail + Len(buffer) /\ (cursor = tail => cursor' = tail') /\ tail' \in Nat
      /\ tail <= tail'
  <2>1. cursor \in Nat /\ tail \in Nat /\ Len(buffer) \in Nat
    BY Known
  <2>2. CASE buffer = <<>>
    BY <1>2, <1>4, <2>1, <2>2
  <2>3. CASE buffer # <<>>
    BY <1>2, <2>1, <2>3 DEF Quiet
  <2> QED BY <2>2, <2>3
<1>6. ASSUME buffer' = <<>> PROVE Image' = Image
  BY <1>3, <1>6 DEF Image
<1>7. ASSUME iter.live PROVE file' = file
  <2>1. buffer = <<>>
    BY <1>7 DEF Quiet
  <2> QED BY <1>2, <2>1, Known, WriteNothing
<1> QED BY <1>2, <1>3, <1>5, <1>6, <1>7

-------------------------------------------------------------------------------
(* Appending: the record goes behind what the log has, in the buffer, in    *)
(* the file, or half in each.                                               *)
LEMMA AppendLog ==
  ASSUME TypeOK, NEW p \in Payloads, NewRecord(p), LogLaid, st' = st, damaged' = damaged,
         log' = Append(log, Len(sizes) + 1),
         Image' = Write(Image, tail + Len(buffer), Cells(Len(sizes) + 1, p)),
         tail' + Len(buffer') = tail + Len(buffer) + Len(Cells(Len(sizes) + 1, p))
  PROVE  LogLaid'
<1> SUFFICES ASSUME st # "None", ~damaged PROVE \E o, e : LogAt(o, e)'
  BY DEF LogLaid
<1>1. PICK o, e : LogAt(o, e)
  BY DEF LogLaid
<1>2. Laid(sizes, Image, log, o, e) /\ o[1] = 0 /\ e = tail + Len(buffer)
  BY <1>1 DEF LogAt, StartsAt
<1>3. p \in Nat /\ Cells(Len(sizes) + 1, p) \in Seq(Cell) /\ sizes' = Append(sizes, p)
  BY RecordType DEF NewRecord
<1>4. ASSUME NEW sz \in Seq(Nat), sz = sizes
      PROVE  \E q, d : /\ Laid(Append(sz, p), Write(Image, e, Cells(Len(sz) + 1, p)),
                               Append(log, Len(sz) + 1), q, d)
                       /\ d = e + Len(Cells(Len(sz) + 1, p)) /\ StartsAt(q, o[1])
  <2>1. Laid(sz, Image, log, o, e) /\ Cells(Len(sz) + 1, p) \in Seq(Cell)
    BY <1>2, <1>3, <1>4
  <2>2. Image \in Seq(Cell) /\ log \in Seq(Record) /\ p \in Nat
    BY <1>3, ImageType, Known
  <2>3. PICK f \in Seq(Cell) : f = Image
    BY <2>2
  <2>4. Laid(sz, f, log, o, e)
    BY <2>1, <2>3
  <2>5. \E q, d : /\ Laid(Append(sz, p), Write(f, e, Cells(Len(sz) + 1, p)),
                          Append(log, Len(sz) + 1), q, d)
                  /\ d = e + Len(Cells(Len(sz) + 1, p)) /\ StartsAt(q, o[1])
    BY <2>1, <2>2, <2>4, LaidAppend
  <2> QED BY <2>3, <2>5
<1>5. PICK q, d : /\ Laid(Append(sizes, p), Write(Image, e, Cells(Len(sizes) + 1, p)),
                          Append(log, Len(sizes) + 1), q, d)
                  /\ d = e + Len(Cells(Len(sizes) + 1, p)) /\ StartsAt(q, o[1])
  BY <1>4, Known
<1>6. Laid(sizes', Image', log', q, d) /\ StartsAt(q, 0) /\ d = tail' + Len(buffer')
  BY <1>2, <1>3, <1>5
<1>7. LogAt(q, d)'
  BY <1>6 DEF LogAt
<1> QED BY <1>7

LEMMA NewGrown == ASSUME TypeOK, NEW p \in Payloads, NewRecord(p) PROVE Grown
BY RecordType DEF NewRecord, Grown

(* What the appends make of the buffer and the file.                        *)
LEMMA AppendBufferedShape ==
  ASSUME ~AppendAfterReplay, TypeOK, TypeOK', Quiet, NEW p \in Payloads, AppendBuffered(p)
  PROVE  /\ Image' = Write(Image, tail + Len(buffer), Cells(Len(sizes) + 1, p))
         /\ tail' + Len(buffer') = tail + Len(buffer) + Len(Cells(Len(sizes) + 1, p))
         /\ \/ file' = Image /\ buffer' = Cells(Len(sizes) + 1, p)
            \/ file' = file /\ tail' = tail /\ buffer' = buffer \o Cells(Len(sizes) + 1, p)
<1> DEFINE cells == Cells(Len(sizes) + 1, p)
<1>2. /\ NewRecord(p)
      /\ IF Len(buffer \o cells) > BufCap
           THEN FlushAnd(<<>>) /\ buffer' = cells
           ELSE UNCHANGED <<file, cursor, tail, filePos>> /\ buffer' = buffer \o cells
  BY DEF AppendBuffered
<1>3. cursor = tail
  BY <1>2 DEF NewRecord, Undisturbed
<1>4. cells \in Seq(Cell) /\ Len(cells) \in Nat
  BY <1>2, RecordType
<1> HIDE DEF cells
<1>6. CASE Len(buffer \o cells) > BufCap
  <2>1. FlushAnd(<<>>) /\ buffer' = cells
    BY <1>2, <1>6
  <2>2. file' = Image /\ tail' = tail + Len(buffer) /\ cursor' = tail'
    BY <1>3, <2>1, FlushKeeps
  <2>4. Image' = Write(Image, tail + Len(buffer), cells)
    BY <2>1, <2>2, ImageNext
  <2> QED BY <2>1, <2>2, <2>4 DEF cells
<1>7. CASE ~(Len(buffer \o cells) > BufCap)
  <2>1. UNCHANGED <<file, cursor, tail, filePos>> /\ buffer' = buffer \o cells
    BY <1>2, <1>7
  <2>3. Image' = Write(Image, tail + Len(buffer), cells)
    <3>1. Image' = Write(file, cursor, buffer \o cells) /\ Image = Write(file, cursor, buffer)
      BY <2>1, ImageIs, ImageNext
    <3>2. Write(Write(file, cursor, buffer), cursor + Len(buffer), cells)
            = Write(file, cursor, buffer \o cells)
      BY <1>4, Known, WriteTwice
    <3> QED BY <1>3, <3>1, <3>2
  <2>4. tail' + Len(buffer') = tail + Len(buffer) + Len(cells)
    <3>1. Len(buffer \o cells) = Len(buffer) + Len(cells) /\ tail \in Nat /\ Len(buffer) \in Nat
      BY <1>4, Known
    <3> QED BY <1>4, <2>1, <3>1
  <2> QED BY <2>1, <2>3, <2>4 DEF cells
<1> QED BY <1>6, <1>7

LEMMA AppendLargeShape ==
  ASSUME ~AppendAfterReplay, TypeOK, TypeOK', Quiet, NEW p \in Payloads, AppendLarge(p)
  PROVE  /\ Image' = Write(Image, tail + Len(buffer), Cells(Len(sizes) + 1, p))
         /\ tail' + Len(buffer') = tail + Len(buffer) + Len(Cells(Len(sizes) + 1, p))
         /\ file' = Image' /\ buffer' = <<>>
<1> DEFINE cells == Cells(Len(sizes) + 1, p)
<1>2. /\ NewRecord(p) /\ FlushAnd(cells) /\ buffer' = <<>> /\ Len(cells) > BufCap
  BY DEF AppendLarge
<1>3. cursor = tail
  BY <1>2 DEF NewRecord, Undisturbed
<1>4. cells \in Seq(Cell) /\ Len(cells) \in Nat
  BY <1>2, RecordType
<1> HIDE DEF cells
<1>6. buffer \o cells \in Seq(Cell) /\ Len(buffer \o cells) = Len(buffer) + Len(cells)
      /\ tail \in Nat /\ Len(buffer) \in Nat
  BY <1>4, Known
<1>7. buffer \o cells # <<>>
  <2>1. BufCap \in Nat
    BY WalAssumption
  <2>2. Len(buffer \o cells) > 0
    BY <1>2, <1>4, <1>6, <2>1
  <2> QED BY <2>2
<1>8. /\ file' = Write(file, cursor, buffer \o cells) /\ tail' = cursor'
      /\ cursor' = cursor + Len(buffer \o cells)
  BY <1>2, <1>7 DEF FlushAnd
<1>9. tail' = tail + Len(buffer) + Len(cells) /\ tail' \in Nat
  BY <1>3, <1>4, <1>6, <1>8
<1>10. Image' = file'
  BY <1>2 DEF Image
<1>11. Image' = Write(Image, tail + Len(buffer), cells)
  <2>1. Image = Write(file, cursor, buffer)
    BY ImageIs
  <2>2. Write(Write(file, cursor, buffer), cursor + Len(buffer), cells)
          = Write(file, cursor, buffer \o cells)
    BY <1>4, Known, WriteTwice
  <2> QED BY <1>3, <1>8, <1>10, <2>1, <2>2
<1>12. tail' + Len(buffer') = tail + Len(buffer) + Len(cells)
  <2>1. Len(buffer') = 0
    BY <1>2
  <2> QED BY <1>9, <2>1
<1> QED BY <1>2, <1>10, <1>11, <1>12 DEF cells

LEMMA AppendBufferedInd ==
  ASSUME ~AppendAfterReplay, WalInd, NEW p \in Payloads, AppendBuffered(p)
  PROVE  WalInd'
<1> DEFINE cells == Cells(Len(sizes) + 1, p)
<1>0. TypeOK /\ Quiet /\ AckedLaid /\ LogLaid /\ IterLaid
  BY DEF WalInd
<1>1. TypeOK'
  BY <1>0, AppendBufferedType
<1>2. /\ NewRecord(p) /\ log' = Append(log, Len(sizes) + 1)
      /\ UNCHANGED <<disk, st, readable, iterVars, acked, damaged, troubles>>
      /\ IF Len(buffer \o cells) > BufCap
           THEN FlushAnd(<<>>) /\ buffer' = cells
           ELSE UNCHANGED <<file, cursor, tail, filePos>> /\ buffer' = buffer \o cells
  BY DEF AppendBuffered
<1>3. st = "Open" /\ cursor = tail /\ ~iter.live
  BY <1>2 DEF NewRecord, Undisturbed
<1>4. cells \in Seq(Cell) /\ Len(cells) \in Nat /\ Grown
  BY <1>0, <1>2, RecordType, NewGrown
<1> HIDE DEF cells
<1>5. IterLaid'
  BY <1>0, <1>2, <1>3, IterSame
<1>6. CASE Len(buffer \o cells) > BufCap
  <2>1. FlushAnd(<<>>) /\ buffer' = cells
    BY <1>2, <1>6
  <2>2. /\ file' = Write(file, cursor, buffer) /\ file' = Image
        /\ tail' = tail + Len(buffer) /\ cursor' = tail' /\ tail' \in Nat /\ tail <= tail'
    BY <1>0, <1>1, <1>3, <2>1, FlushKeeps
  <2>3. AckedLaid'
    BY <1>0, <1>2, <1>3, <1>4, <2>2, Known, AckedStep
  <2>4. Image' = Write(Image, tail + Len(buffer), cells)
    BY <1>1, <2>1, <2>2, ImageNext
  <2>5. LogLaid'
    BY <1>0, <1>2, <2>1, <2>2, <2>4, AppendLog DEF cells
  <2>6. Quiet'
    BY <1>2, <1>3, <2>2 DEF Quiet, iterVars
  <2> QED BY <1>1, <1>5, <2>3, <2>5, <2>6 DEF WalInd
<1>7. CASE ~(Len(buffer \o cells) > BufCap)
  <2>1. UNCHANGED <<file, cursor, tail, filePos>> /\ buffer' = buffer \o cells
    BY <1>2, <1>7
  <2>2. AckedLaid'
    <3>1. <<>> \in Seq(Cell) /\ Write(file, cursor, <<>>) = file /\ tail \in Nat
      BY <1>0, Known, WriteNothing
    <3>2. tail' \in Nat /\ tail <= tail'
      BY <2>1, <3>1
    <3> QED BY <1>0, <1>2, <1>3, <1>4, <2>1, <3>1, <3>2, AckedStep
  <2>3. Image' = Write(Image, tail + Len(buffer), cells)
    <3>1. Image' = Write(file, cursor, buffer \o cells) /\ Image = Write(file, cursor, buffer)
      BY <1>0, <1>1, <2>1, ImageIs, ImageNext
    <3>2. Write(Write(file, cursor, buffer), cursor + Len(buffer), cells)
            = Write(file, cursor, buffer \o cells)
      BY <1>0, <1>4, Known, WriteTwice
    <3> QED BY <1>3, <3>1, <3>2
  <2>4. tail' + Len(buffer') = tail + Len(buffer) + Len(cells)
    <3>1. Len(buffer \o cells) = Len(buffer) + Len(cells) /\ tail \in Nat /\ Len(buffer) \in Nat
      BY <1>0, <1>4, Known
    <3> QED BY <1>4, <2>1, <3>1
  <2>5. LogLaid'
    BY <1>0, <1>2, <2>3, <2>4, AppendLog DEF cells
  <2>6. Quiet'
    BY <1>2, <1>3, <2>1 DEF Quiet, iterVars
  <2> QED BY <1>1, <1>5, <2>2, <2>5, <2>6 DEF WalInd
<1> QED BY <1>6, <1>7

LEMMA AppendLargeInd ==
  ASSUME ~AppendAfterReplay, WalInd, NEW p \in Payloads, AppendLarge(p)
  PROVE  WalInd'
<1> DEFINE cells == Cells(Len(sizes) + 1, p)
<1>0. TypeOK /\ Quiet /\ AckedLaid /\ LogLaid /\ IterLaid
  BY DEF WalInd
<1>1. TypeOK'
  BY <1>0, AppendLargeType
<1>2. /\ NewRecord(p) /\ FlushAnd(cells) /\ buffer' = <<>> /\ log' = Append(log, Len(sizes) + 1)
      /\ UNCHANGED <<disk, lsn, st, readable, iterVars, acked, damaged, troubles>>
      /\ Len(cells) > BufCap
  BY DEF AppendLarge
<1>3. st = "Open" /\ cursor = tail /\ ~iter.live
  BY <1>2 DEF NewRecord, Undisturbed
<1>4. cells \in Seq(Cell) /\ Len(cells) \in Nat /\ Grown
  BY <1>0, <1>2, RecordType, NewGrown
<1> HIDE DEF cells
<1>5. IterLaid'
  BY <1>0, <1>2, <1>3, IterSame
<1>6. buffer \o cells \in Seq(Cell) /\ Len(buffer \o cells) = Len(buffer) + Len(cells)
      /\ tail \in Nat /\ Len(buffer) \in Nat
  BY <1>0, <1>4, Known
<1>7. buffer \o cells # <<>>
  <2>1. BufCap \in Nat
    BY WalAssumption
  <2>2. Len(buffer \o cells) > 0
    BY <1>2, <1>4, <1>6, <2>1
  <2> QED BY <2>2
<1>8. /\ file' = Write(file, cursor, buffer \o cells) /\ tail' = cursor'
      /\ cursor' = cursor + Len(buffer \o cells)
  BY <1>2, <1>7 DEF FlushAnd
<1>9. tail' = tail + Len(buffer) + Len(cells) /\ tail' \in Nat /\ tail <= tail'
  BY <1>3, <1>4, <1>6, <1>8
<1>10. AckedLaid'
  BY <1>0, <1>2, <1>3, <1>4, <1>6, <1>8, <1>9, AckedStep
<1>11. Image' = Write(Image, tail + Len(buffer), cells)
  <2>1. Image' = file' /\ Image = Write(file, cursor, buffer)
    BY <1>0, <1>2, ImageIs DEF Image
  <2>2. Write(Write(file, cursor, buffer), cursor + Len(buffer), cells)
          = Write(file, cursor, buffer \o cells)
    BY <1>0, <1>4, Known, WriteTwice
  <2> QED BY <1>3, <1>8, <2>1, <2>2
<1>12. tail' + Len(buffer') = tail + Len(buffer) + Len(cells)
  <2>1. Len(buffer') = 0
    BY <1>2
  <2> QED BY <1>9, <2>1
<1>13. LogLaid'
  BY <1>0, <1>2, <1>11, <1>12, AppendLog DEF cells
<1>14. Quiet'
  BY <1>2 DEF Quiet
<1> QED BY <1>1, <1>5, <1>10, <1>13, <1>14 DEF WalInd

(* Sync, a failing fsync and close flush; sync promises what the log has.   *)
LEMMA SyncInd ==
  ASSUME ~AppendAfterReplay, WalInd, Sync \/ SyncFails \/ Close
  PROVE  WalInd'
<1>0. TypeOK /\ Quiet /\ AckedLaid /\ LogLaid /\ IterLaid
  BY DEF WalInd
<1>1. TypeOK'
  BY <1>0, SyncType
<1>2. /\ st # "None" /\ FlushAnd(<<>>) /\ buffer' = <<>> /\ disk' \in {disk, file'}
      /\ UNCHANGED <<iterVars, sizes, log, damaged>> /\ st' \in {st, "Closed"}
      /\ (acked' = acked \/ (Sync /\ ~damaged /\ acked' = log))
  BY DEF Sync, SyncFails, Close
<1>3. /\ file' = Write(file, cursor, buffer) /\ file' = Image
      /\ tail' = tail + Len(buffer) /\ Image' = Image
      /\ (iter.live => file' = file) /\ tail' \in Nat /\ tail <= tail'
  BY <1>0, <1>1, <1>2, FlushKeeps
<1>4. IterLaid'
  BY <1>0, <1>2, <1>3, IterSame
<1>5. Quiet'
  BY <1>2 DEF Quiet
<1>6. ASSUME ~damaged PROVE \E o, e : LogAt(o, e)' /\ e <= tail'
  <2>1. PICK o, e : LogAt(o, e)
    BY <1>0, <1>2, <1>6 DEF LogLaid
  <2>2. Len(buffer') = 0
    BY <1>2
  <2>3. e = tail' + Len(buffer') /\ e <= tail'
    BY <1>3, <2>1, <2>2 DEF LogAt
  <2>4. LogAt(o, e)'
    BY <1>2, <1>3, <2>1, <2>3 DEF LogAt
  <2> QED BY <2>3, <2>4
<1>7. LogLaid'
  BY <1>2, <1>6 DEF LogLaid
<1>8. CASE acked' = acked
  <2>1. Grown
    BY <1>2 DEF Grown
  <2>2. AckedLaid'
    BY <1>0, <1>2, <1>3, <1>8, <2>1, Known, AckedStep DEF Quiet
  <2> QED BY <1>1, <1>4, <1>5, <1>7, <2>2 DEF WalInd
<1>9. CASE Sync /\ ~damaged /\ acked' = log
  <2>1. PICK o, e : LogAt(o, e)' /\ e <= tail'
    BY <1>6, <1>9
  <2>2. disk' = file' /\ Image' = file'
    BY <1>3, <1>9 DEF Sync
  <2>3. AckedAt(o, e)'
    BY <1>2, <1>9, <2>1, <2>2 DEF AckedAt, LogAt
  <2> QED BY <1>1, <1>4, <1>5, <1>7, <2>3 DEF WalInd, AckedLaid
<1> QED BY <1>2, <1>8, <1>9

(* A part of a write, as WriteFails and Kill leave it.                      *)
LEMMA CutQuiet ==
  ASSUME ~AppendAfterReplay, TypeOK, Quiet, NEW p \in {0} \cup Large, NEW n \in Nat,
         n = 0 \/ n < Len(CutData(p)), IF p = 0 THEN UNCHANGED sizes ELSE NewRecord(p)
  PROVE  /\ SubSeq(CutData(p), 1, n) # <<>> => cursor = tail
         /\ Grown /\ (p # 0 => st = "Open" /\ cursor = tail /\ ~iter.live)
         /\ (st = "None" => SubSeq(CutData(p), 1, n) = <<>> /\ sizes' = sizes)
<1>1. /\ CutData(p) \in Seq(Cell) /\ SubSeq(CutData(p), 1, n) \in Seq(Cell)
      /\ Len(SubSeq(CutData(p), 1, n)) = n
  BY CutType
<1>2. CASE p # 0
  <2>1. p \in Payloads /\ NewRecord(p)
    BY <1>2 DEF Large
  <2>2. st = "Open" /\ cursor = tail /\ ~iter.live
    BY <2>1 DEF NewRecord, Undisturbed
  <2> QED BY <2>1, <2>2, NewGrown
<1>3. CASE p = 0
  <2>1. CutData(p) = buffer /\ sizes' = sizes /\ Grown
    BY <1>3 DEF CutData, Grown
  <2>2. ASSUME buffer = <<>> PROVE SubSeq(CutData(p), 1, n) = <<>>
    <3>1. Len(CutData(p)) = 0
      BY <2>1, <2>2
    <3>2. n = 0
      BY <3>1
    <3>3. Len(SubSeq(CutData(p), 1, n)) = 0
      BY <1>1, <3>2
    <3> QED BY <1>1, <3>3
  <2> QED BY <1>3, <2>1, <2>2 DEF Quiet
<1> QED BY <1>2, <1>3

(* A write that fails without a part of a record left changes nothing that  *)
(* the next flush would not.                                                *)
LEMMA WriteFailsShape ==
  ASSUME ~AppendAfterReplay, TypeOK, Quiet, NEW p \in {0} \cup Large, NEW n \in Cuts,
         WriteFails(p, n), ~damaged'
  PROVE  /\ Image' = Image /\ tail' + Len(buffer') = tail + Len(buffer)
         /\ \/ file' = file /\ buffer' = buffer /\ tail' = tail
            \/ file' = Image /\ buffer' = <<>>
<1> DEFINE d == SubSeq(CutData(p), 1, n)
<1>0. n \in Nat
  BY WalAssumption
<1>2. /\ n < Len(CutData(p)) /\ (IF p = 0 THEN UNCHANGED sizes ELSE NewRecord(p))
      /\ file' = Write(file, cursor, d) /\ cursor' = cursor + n /\ tail' = cursor'
      /\ st = "Open"
  BY DEF WriteFails, CutData
<1>2a. /\ buffer' = IF p = 0 THEN buffer ELSE <<>>
       /\ damaged' = (damaged \/ n > (IF p = 0 THEN 0 ELSE Len(buffer)))
       /\ (IF p = 0 THEN 0 ELSE Len(buffer)) <= n
  BY DEF WriteFails
<1>3. /\ d \in Seq(Cell) /\ Len(d) = n /\ Len(CutData(p)) \in Nat
      /\ \A i \in 1 .. n : d[i] = CutData(p)[i]
  BY <1>0, <1>2, CutType
<1>4. p # 0 => cursor = tail
  BY <1>0, <1>2, CutQuiet
<1>k. cursor \in Nat /\ tail \in Nat /\ Len(buffer) \in Nat /\ buffer \in Seq(Cell)
  BY Known
<1> HIDE DEF d
<1>b. ~(n > (IF p = 0 THEN 0 ELSE Len(buffer)))
  BY <1>2a, Zenon
<1>5. CASE p = 0
  <2>1. n = 0 /\ buffer' = buffer
    BY <1>0, <1>2a, <1>5, <1>b
  <2>2. CutData(p) = buffer
    BY <1>5 DEF CutData
  <2>3. buffer # <<>>
    <3>1. Len(buffer) > 0
      BY <1>2, <2>1, <2>2
    <3> QED BY <3>1
  <2>4. d = <<>> /\ tail' = tail /\ cursor' = cursor
    BY <1>2, <1>3, <1>k, <2>1, <2>3 DEF Quiet
  <2>5. file' = file
    BY <1>2, <2>4, Known, WriteNothing
  <2> QED BY <2>1, <2>4, <2>5 DEF Image
<1>6. CASE p # 0
  <2>1. n = Len(buffer) /\ buffer' = <<>>
    BY <1>0, <1>2a, <1>6, <1>b, <1>k
  <2>2. CutData(p) = buffer \o Cells(Len(sizes) + 1, p)
    BY <1>6 DEF CutData
  <2>3. Cells(Len(sizes) + 1, p) \in Seq(Cell)
    <3>1. p \in Payloads /\ NewRecord(p)
      BY <1>2, <1>6 DEF Large
    <3> QED BY <3>1, RecordType
  <2>4. \A i \in 1 .. Len(buffer) : CutData(p)[i] = buffer[i]
    BY <1>k, <2>2, <2>3
  <2>5. d = buffer
    <3>1. Len(d) = Len(buffer) /\ \A i \in 1 .. Len(buffer) : d[i] = buffer[i]
      BY <1>3, <2>1, <2>4
    <3> QED BY <1>3, <1>k, <3>1
  <2>6. file' = Image
    BY <1>2, <2>5, ImageIs
  <2>7. Image' = file' /\ Len(buffer') = 0
    BY <2>1 DEF Image
  <2>8. tail' = tail + Len(buffer) /\ tail' \in Nat
    BY <1>2, <1>4, <1>6, <1>k, <2>1
  <2> QED BY <1>k, <2>1, <2>6, <2>7, <2>8
<1> QED BY <1>5, <1>6

LEMMA WriteFailsInd ==
  ASSUME ~AppendAfterReplay, WalInd, NEW p \in {0} \cup Large, NEW n \in Cuts, WriteFails(p, n)
  PROVE  WalInd'
<1> DEFINE d == SubSeq(CutData(p), 1, n)
<1>0. TypeOK /\ Quiet /\ AckedLaid /\ LogLaid /\ IterLaid /\ n \in Nat
  BY WalAssumption DEF WalInd
<1>1. TypeOK'
  BY <1>0, WriteFailsType
<1>2. /\ n < Len(CutData(p)) /\ (IF p = 0 THEN UNCHANGED sizes ELSE NewRecord(p))
      /\ file' = Write(file, cursor, d) /\ cursor' = cursor + n /\ tail' = cursor'
      /\ st = "Open" /\ UNCHANGED <<disk, lsn, st, readable, iterVars, log, acked>>
  BY DEF WriteFails, CutData
<1>2a. /\ buffer' = IF p = 0 THEN buffer ELSE <<>>
       /\ damaged' = (damaged \/ n > (IF p = 0 THEN 0 ELSE Len(buffer)))
       /\ (IF p = 0 THEN 0 ELSE Len(buffer)) <= n
  BY DEF WriteFails
<1>3. /\ d \in Seq(Cell) /\ Len(d) = n /\ Len(CutData(p)) \in Nat
      /\ \A i \in 1 .. n : d[i] = CutData(p)[i]
  BY <1>0, <1>2, CutType
<1>4. (d # <<>> => cursor = tail) /\ Grown /\ (p # 0 => cursor = tail /\ ~iter.live)
  BY <1>0, <1>2, CutQuiet
<1> HIDE DEF d
<1>5. cursor = tail /\ ~iter.live
  <2>1. CASE p # 0
    BY <1>4, <2>1
  <2>2. CASE p = 0
    <3>1. CutData(p) = buffer
      BY <2>2 DEF CutData
    <3>2. buffer # <<>>
      <4>1. Len(buffer) > 0
        BY <1>0, <1>2, <1>3, <3>1
      <4> QED BY <4>1
    <3> QED BY <1>0, <3>2 DEF Quiet
  <2> QED BY <2>1, <2>2
<1>6. tail' = tail + n /\ tail' \in Nat /\ tail <= tail'
  BY <1>0, <1>2, <1>5, Known
<1>7. AckedLaid'
  BY <1>0, <1>2, <1>3, <1>4, <1>6, AckedStep
<1>8. IterLaid'
  BY <1>0, <1>2, <1>5, IterSame
<1>9. Quiet'
  BY <1>2, <1>5 DEF Quiet, iterVars
<1>10. ASSUME ~damaged' PROVE Image' = Image /\ tail' + Len(buffer') = tail + Len(buffer)
  BY <1>0, <1>10, WriteFailsShape
<1>11. LogLaid'
  <2> SUFFICES ASSUME ~damaged' PROVE \E o, e : LogAt(o, e)'
    BY DEF LogLaid
  <2>1. ~damaged
    BY <1>2a
  <2>2. PICK o, e : LogAt(o, e)
    BY <1>0, <1>2, <2>1 DEF LogLaid
  <2>3. Laid(sizes, Image, log, o, e) /\ StartsAt(o, 0) /\ e = tail + Len(buffer)
    BY <2>2 DEF LogAt
  <2>4. Laid(sizes', Image, log, o, e)
    BY <1>0, <1>4, <2>3, LaidGrown
  <2>5. LogAt(o, e)'
    BY <1>2, <1>10, <2>3, <2>4 DEF LogAt
  <2> QED BY <2>5
<1> QED BY <1>1, <1>7, <1>8, <1>9, <1>11 DEF WalInd

-------------------------------------------------------------------------------
(* Opening takes for the end of the log what the scan found; it cannot have *)
(* stopped before the end of the acked records.                             *)
LEMMA OpenInd ==
  ASSUME WalInd, Open PROVE WalInd'
<1>0. TypeOK /\ Quiet /\ AckedLaid /\ LogLaid /\ IterLaid
  BY DEF WalInd
<1>1. TypeOK'
  BY <1>0, OpenType
<1> DEFINE s == Scan(file)
<1>2. /\ ~iter.live /\ log' = s.recs /\ tail' = s.pos /\ cursor' = s.pos /\ buffer' = <<>>
      /\ UNCHANGED <<file, disk, iterVars, sizes, acked, troubles>>
  BY DEF Open
<1>3. file \in Seq(Cell) /\ Len(file) \in Nat /\ sizes \in Seq(Nat) /\ acked \in Seq(Record)
      /\ Len(acked) \in Nat
      /\ \A n \in 1 .. Len(sizes) : Span(sizes, n) \in Nat
  BY <1>0, Known
<1>4. Scan(file) \in Scanned(file) /\ \E o : Laid(sizes, file, s.recs, o, s.pos) /\ StartsAt(o, 0)
  BY <1>3, ScanLaid
<1>5. PICK o : Laid(sizes, file, s.recs, o, s.pos) /\ StartsAt(o, 0)
  BY <1>4
<1>6. s.recs \in Seq(1 .. Len(sizes)) /\ s.pos \in Nat
  BY <1>3, <1>4 DEF Scanned
<1>7. PICK q, e : AckedAt(q, e)
  BY <1>0 DEF AckedLaid
<1>8. Laid(sizes, file, acked, q, e) /\ Laid(sizes, disk, acked, q, e) /\ StartsAt(q, 0)
  BY <1>7 DEF AckedAt
<1>9. Len(acked) <= Len(s.recs) /\ \A j \in 1 .. Len(acked) : s.recs[j] = acked[j]
  BY <1>3, <1>8, LaidScanned
<1> HIDE DEF s
<1>10. e <= s.pos
  <2>1. s.recs \in Seq(Record)
    BY <1>0, <1>6, RecordNumbers, SmallerSeq
  <2>2. \A k \in 1 .. Len(acked) : acked[k] = s.recs[k]
    BY <1>9
  <2>3. ASSUME NEW sz, sz = sizes
        PROVE  \E r, d : Laid(sz, file, acked, r, d) /\ d <= s.pos /\ StartsAt(r, o[1])
    <3>1. Laid(sz, file, s.recs, o, s.pos) /\ \A n \in 1 .. Len(sz) : Span(sz, n) \in Nat
      BY <1>3, <1>5, <2>3
    <3> QED BY <1>3, <1>9, <2>1, <2>2, <3>1, LaidPrefix
  <2>4. PICK r, d : Laid(sizes, file, acked, r, d) /\ d <= s.pos /\ StartsAt(r, o[1])
    BY <2>3
  <2>5. q[1] = r[1]
    BY <1>5, <1>8, <2>4 DEF StartsAt
  <2>6. ASSUME NEW sz, sz = sizes PROVE e = d
    <3>1. Laid(sz, file, acked, q, e) /\ Laid(sz, file, acked, r, d)
      BY <1>8, <2>4, <2>6
    <3> QED BY <1>3, <2>5, <3>1, LaidUnique
  <2>7. e = d
    BY <2>6
  <2> QED BY <2>4, <2>7
<1>11. AckedLaid'
  <2>1. AckedAt(q, e)'
    BY <1>2, <1>8, <1>10 DEF AckedAt
  <2> QED BY <2>1 DEF AckedLaid
<1>12. LogLaid'
  <2>1. Image' = file
    BY <1>2 DEF Image
  <2>2. tail' + Len(buffer') = s.pos
    <3>1. Len(buffer') = 0
      BY <1>2
    <3> QED BY <1>2, <1>6, <3>1
  <2>3. PICK d : d = s.pos
    OBVIOUS
  <2>4. LogAt(o, d)'
    BY <1>2, <1>5, <2>1, <2>2, <2>3 DEF LogAt
  <2> QED BY <2>4 DEF LogLaid
<1>13. IterLaid' /\ Quiet'
  BY <1>2 DEF IterLaid, Quiet, iterVars
<1> QED BY <1>1, <1>11, <1>12, <1>13 DEF WalInd

(* A new iterator promises what was acked, and stands before the first.     *)
LEMMA NewIterInd ==
  ASSUME TypeOK, TypeOK', AckedLaid', NEW owner, NewIter(owner), acked' = acked
  PROVE  IterLaid'
<1>1. iter' = [live |-> TRUE, owner |-> owner, readable |-> readable, pos |-> 0,
               size |-> Len(file'), done |-> FALSE, promised |-> acked] /\ got' = <<>>
  BY DEF NewIter
<1>2. PICK o, e : AckedAt(o, e)'
  BY DEF AckedLaid
<1>3. Laid(sizes', file', acked', o, e) /\ StartsAt(o, 0)
  BY <1>2 DEF AckedAt
<1>4. e <= Len(file')
  <2>1. e \in 0 .. Len(file')
    BY <1>3 DEF Laid
  <2>2. file' \in Seq(Cell)
    BY DEF TypeOK
  <2> QED BY <2>1, <2>2
<1>5. iter'.promised = acked' /\ iter'.size = Len(file') /\ ~iter'.done /\ iter'.pos = 0
  BY <1>1
<1>6. Len(got') = 0
  BY <1>1
<1>7. IterAt(o, e)'
  <2>1. Len(got') + 1 = 1
    BY <1>6
  <2> QED BY <1>3, <1>4, <1>5, <2>1 DEF IterAt, StartsAt
<1>8. YieldedFirst'
  BY <1>6 DEF YieldedFirst
<1> QED BY <1>7, <1>8 DEF IterLaid

LEMMA ReplayInd ==
  ASSUME WalInd, ReplayRef \/ Replay PROVE WalInd'
<1>0. TypeOK /\ Quiet /\ AckedLaid /\ LogLaid /\ IterLaid
  BY DEF WalInd
<1>1. TypeOK'
  BY <1>0, ReplayType
<1>2. CASE ReplayRef
  <2>1. /\ st # "None" /\ buffer = <<>> /\ UNCHANGED <<file, disk, handleVars, histVars>>
        /\ NewIter(FALSE)
    BY <1>2 DEF ReplayRef
  <2>2. AckedLaid'
    BY <1>0, <2>1, AckedSame DEF handleVars, histVars
  <2>3. IterLaid'
    BY <1>0, <1>1, <2>1, <2>2, NewIterInd DEF histVars
  <2>4. Quiet'
    BY <2>1 DEF Quiet, handleVars
  <2>5. Image' = Image
    BY <2>1 DEF Image, handleVars
  <2>6. LogLaid'
    BY <1>0, <2>1, <2>5 DEF LogLaid, LogAt, handleVars, histVars
  <2> QED BY <1>1, <2>2, <2>3, <2>4, <2>6 DEF WalInd
<1>3. CASE Replay
  <2>1. /\ st # "None" /\ file' = Write(file, cursor, buffer) /\ NewIter(TRUE) /\ Forget
        /\ UNCHANGED <<disk, sizes, acked, damaged, troubles>>
    BY <1>3 DEF Replay
  <2>2. st' = "None" /\ buffer' = <<>>
    BY <2>1 DEF Forget
  <2>3. Grown
    BY <2>1 DEF Grown
  <2>4. AckedLaid'
    BY <1>0, <2>1, <2>2, <2>3, Known, AckedStep DEF Quiet
  <2>5. IterLaid'
    BY <1>0, <1>1, <2>1, <2>4, NewIterInd
  <2>6. Quiet' /\ LogLaid'
    BY <2>2 DEF Quiet, LogLaid
  <2> QED BY <1>1, <2>4, <2>5, <2>6 DEF WalInd
<1> QED BY <1>2, <1>3

(* What is still promised is found where the iterator stands.               *)
LEMMA PromisedNext ==
  ASSUME TypeOK, iter.live, NEW o, NEW e, IterAt(o, e), Len(got) < Len(iter.promised)
  PROVE  /\ Len(got) + 1 \in 1 .. Len(iter.promised) /\ iter.pos < iter.size
         /\ Found(file, iter.pos, iter.size) = "record"
         /\ At(file, iter.pos) = iter.promised[Len(got) + 1]
         /\ iter.pos + Total(At(file, iter.pos)) = o[Len(got) + 2]
<1>1. iter \in Iterator
  BY LiveIter DEF TypeOK
<1>2. iter.promised \in Seq(Record) /\ iter.size \in Nat
  BY <1>1 DEF Iterator
<1>3. Len(iter.promised) \in Nat /\ Len(got) \in Nat /\ Len(file) \in Nat /\ sizes \in Seq(Nat)
  BY <1>2, Known
<1>4. /\ Laid(sizes, file, iter.promised, o, e) /\ e <= iter.size /\ iter.pos = o[Len(got) + 1]
  BY DEF IterAt
<1>5. PICK k \in 1 .. Len(iter.promised) : k = Len(got) + 1
  BY <1>3
<1>6. /\ Found(file, o[k], iter.size) = "record" /\ At(file, o[k]) = iter.promised[k]
      /\ o[k] + Total(iter.promised[k]) = o[k + 1]
  BY <1>2, <1>3, <1>4, LaidFound
<1>7. k + 1 = Len(got) + 2
  BY <1>3, <1>5
<1>8. iter.pos < iter.size
  <2>1. o \in [1 .. Len(iter.promised) + 1 -> 0 .. e] /\ e \in 0 .. Len(file)
    BY <1>4 DEF Laid
  <2>2. o[k] \in Nat
    <3>1. k \in 1 .. Len(iter.promised) + 1
      BY <1>3
    <3>2. o[k] \in 0 .. e
      BY <2>1, <3>1
    <3> QED BY <3>2
  <2>3. Total(At(file, o[k])) > 0 /\ Total(At(file, o[k])) \in Nat
        /\ o[k] + Total(At(file, o[k])) <= iter.size
    BY <1>2, <1>3, <1>6, <2>2, RecordFound
  <2> QED BY <1>2, <1>4, <1>5, <2>2, <2>3
<1> QED BY <1>4, <1>5, <1>6, <1>7, <1>8

LEMMA IterStepLaid ==
  ASSUME TypeOK, IterLaid, IterNext \/ IterEnd PROVE IterLaid'
<1>1. iter.live /\ ~iter.done /\ file' = file /\ sizes' = sizes
  BY DEF IterNext, NextBy, IterEnd, fileVars, histVars
<1>2. iter \in Iterator
  BY <1>1, LiveIter DEF TypeOK
<1>3. PICK o, e : IterAt(o, e)
  BY <1>1 DEF IterLaid
<1>4. YieldedFirst
  BY <1>1 DEF IterLaid
<1>5. iter.promised \in Seq(Record) /\ got \in Seq(Record) /\ Len(got) \in Nat
      /\ Len(iter.promised) \in Nat
  BY <1>2, Known DEF Iterator
<1>6. Laid(sizes, file, iter.promised, o, e) /\ StartsAt(o, 0) /\ e <= iter.size
  BY <1>3 DEF IterAt
<1>7. CASE IterNext /\ Found(file, iter.pos, iter.size) = "record"
  <2> DEFINE a == At(file, iter.pos)
  <2>1. iter' = [iter EXCEPT !.pos = @ + Total(a)] /\ got' = Append(got, a)
    BY <1>7 DEF IterNext, NextBy
  <2>2. /\ iter'.promised = iter.promised /\ iter'.size = iter.size /\ iter'.done = iter.done
        /\ iter'.pos = iter.pos + Total(a)
    BY <1>2, <2>1 DEF Iterator
  <2>3. a \in Record
    <3>1. iter.pos \in Nat /\ iter.size \in Nat
      BY <1>2 DEF Iterator
    <3>2. sizes \in Seq(Nat)
      BY Known
    <3>3. a \in 1 .. Len(sizes)
      BY <1>7, <3>1, <3>2, RecordFound
    <3> QED BY <3>3, RecordNumbers
  <2> HIDE DEF a
  <2>4. Len(got') = Len(got) + 1 /\ got'[Len(got) + 1] = a /\ \A j \in 1 .. Len(got) : got'[j] = got[j]
    BY <1>5, <2>1, <2>3
  <2>5. Len(got) < Len(iter.promised) =>
          a = iter.promised[Len(got) + 1] /\ iter.pos + Total(a) = o[Len(got) + 2]
    BY <1>1, <1>3, PromisedNext DEF a
  <2>6. YieldedFirst'
    <3> SUFFICES ASSUME NEW j \in 1 .. Len(got) + 1, j <= Len(iter.promised)
                 PROVE  got'[j] = iter.promised[j]
      BY <2>2, <2>4 DEF YieldedFirst
    <3>1. CASE j \in 1 .. Len(got)
      BY <1>4, <2>4, <3>1 DEF YieldedFirst
    <3>2. CASE j = Len(got) + 1
      BY <1>5, <2>4, <2>5, <3>2
    <3> QED BY <1>5, <3>1, <3>2
  <2>7. IterAt(o, e)'
    <3>1. ASSUME Len(got') < Len(iter'.promised) PROVE ~iter'.done /\ iter'.pos = o[Len(got') + 1]
      <4>1. Len(got) < Len(iter.promised) /\ Len(got') + 1 = Len(got) + 2
        BY <1>5, <2>2, <2>4, <3>1
      <4> QED BY <1>1, <2>2, <2>5, <4>1
    <3> QED BY <1>1, <1>6, <2>2, <3>1 DEF IterAt
  <2> QED BY <2>6, <2>7 DEF IterLaid
<1>8. CASE IterEnd \/ (IterNext /\ Found(file, iter.pos, iter.size) # "record")
  <2>1. iter' = Stopped /\ got' = got
    BY <1>8 DEF IterEnd, IterNext, NextBy
  <2>2. iter'.promised = iter.promised /\ iter'.size = iter.size
    BY <1>2, <2>1 DEF Iterator, Stopped
  <2>3. ~(Len(got) < Len(iter.promised))
    <3> SUFFICES ASSUME Len(got) < Len(iter.promised) PROVE FALSE
      OBVIOUS
    <3>1. iter.pos < iter.size /\ Found(file, iter.pos, iter.size) = "record"
      BY <1>1, <1>3, PromisedNext
    <3>2. IterEnd
      BY <1>8, <3>1
    <3>3. iter.pos >= iter.size /\ iter.pos \in Nat /\ iter.size \in Nat
      BY <1>2, <3>2 DEF IterEnd, Iterator
    <3> QED BY <3>1, <3>3
  <2>4. YieldedFirst'
    BY <1>4, <2>1, <2>2 DEF YieldedFirst
  <2>5. IterAt(o, e)'
    BY <1>1, <1>6, <2>1, <2>2, <2>3 DEF IterAt
  <2> QED BY <2>4, <2>5 DEF IterLaid
<1> QED BY <1>7, <1>8

LEMMA IterInd ==
  ASSUME WalInd, IterNext \/ IterEnd \/ DropIter PROVE WalInd'
<1>0. TypeOK /\ Quiet /\ AckedLaid /\ LogLaid /\ IterLaid
  BY DEF WalInd
<1>1. TypeOK'
  BY <1>0, IterNextType, IterEndType
<1>2. iter.live /\ UNCHANGED <<file, disk, handleVars, histVars>>
  BY DEF IterNext, NextBy, IterEnd, DropIter, fileVars
<1>3. buffer = <<>> /\ buffer' = <<>>
  BY <1>0, <1>2 DEF Quiet, handleVars
<1>4. Quiet'
  BY <1>3 DEF Quiet
<1>5. AckedLaid'
  BY <1>0, <1>2, AckedSame DEF handleVars, histVars
<1>6. Image' = Image
  BY <1>2, <1>3 DEF Image
<1>7. LogLaid'
  BY <1>0, <1>2, <1>6 DEF LogLaid, LogAt, handleVars, histVars
<1>8. IterLaid'
  <2>1. CASE DropIter
    <3>1. ~iter'.live
      BY <2>1 DEF DropIter, NoIter
    <3> QED BY <3>1 DEF IterLaid
  <2> QED BY <1>0, <2>1, IterStepLaid
<1> QED BY <1>1, <1>4, <1>5, <1>7, <1>8 DEF WalInd

LEMMA LossInd ==
  ASSUME TypeOK', AckedLaid', LoseProcess PROVE WalInd'
<1>1. st' = "None" /\ buffer' = <<>> /\ iter' = NoIter
  BY DEF LoseProcess, Forget
<1>2. ~iter'.live
  BY <1>1 DEF NoIter
<1>3. Quiet' /\ LogLaid' /\ IterLaid'
  BY <1>1, <1>2 DEF Quiet, LogLaid, IterLaid
<1> QED BY <1>3 DEF WalInd

LEMMA KillInd ==
  ASSUME ~AppendAfterReplay, WalInd, NEW p \in {0} \cup Large, NEW n \in Cuts, Kill(p, n)
  PROVE  WalInd'
<1> DEFINE d == SubSeq(CutData(p), 1, n)
<1>0. TypeOK /\ Quiet /\ AckedLaid /\ n \in Nat
  BY WalAssumption DEF WalInd
<1>1. TypeOK'
  BY <1>0, KillType
<1>2. /\ (n = 0 \/ n < Len(CutData(p))) /\ (IF p = 0 THEN UNCHANGED sizes ELSE NewRecord(p))
      /\ file' = Write(file, cursor, d) /\ LoseProcess /\ disk' = disk
  BY DEF Kill, CutData
<1>3. acked' = acked /\ st' = "None"
  BY <1>2 DEF LoseProcess, Forget
<1>4. /\ d \in Seq(Cell) /\ (d # <<>> => cursor = tail) /\ Grown
      /\ (st = "None" => d = <<>> /\ sizes' = sizes)
  BY <1>0, <1>2, CutType, CutQuiet
<1> HIDE DEF d
<1>5. AckedLaid'
  <2>1. CASE st # "None"
    BY <1>0, <1>2, <1>3, <1>4, <2>1, AckedStep
  <2>2. CASE st = "None"
    <3>1. file' = file
      BY <1>0, <1>2, <1>4, <2>2, Known, WriteNothing
    <3> QED BY <1>0, <1>2, <1>3, <1>4, <2>2, <3>1, AckedSame
  <2> QED BY <2>1, <2>2
<1> QED BY <1>1, <1>2, <1>5, LossInd

(* Where the file and the disk hold the same cell, a power loss leaves it.  *)
LEMMA PowerLossInd ==
  ASSUME WalInd, PowerLoss PROVE WalInd'
<1>0. TypeOK /\ AckedLaid /\ LoseProcess /\ sizes' = sizes
  BY DEF WalInd, PowerLoss
<1>1. /\ file' \in Seq(Cell) /\ disk' = file' /\ Len(disk) <= Len(file')
      /\ \A i \in 1 .. Len(disk) : file'[i] \in {disk[i], file[i]}
  BY <1>0, PowerLossFile
<1>2. TypeOK'
  <2>1. PowerLoss => [Next]_vars
    BY DEF Next
  <2> QED BY <1>0, <2>1, WalStepType
<1>3. PICK o, e : AckedAt(o, e)
  BY <1>0 DEF AckedLaid
<1>4. Laid(sizes, file, acked, o, e) /\ Laid(sizes, disk, acked, o, e) /\ StartsAt(o, 0)
  BY <1>3 DEF AckedAt
<1>5. Len(disk) \in Nat /\ Len(acked) \in Nat /\ Len(file') \in Nat /\ Len(file) \in Nat
      /\ \A m \in 1 .. Len(sizes) : Span(sizes, m) \in Nat
  BY <1>0, <1>1, Known
<1>6. ASSUME NEW sz, sz = sizes PROVE Laid(sz, file', acked, o, e)
  <2>1. Laid(sz, file, acked, o, e) /\ Laid(sz, disk, acked, o, e)
        /\ \A m \in 1 .. Len(sz) : Span(sz, m) \in Nat
    BY <1>4, <1>5, <1>6
  <2>2. e \in Nat /\ e <= Len(disk) /\ o \in [1 .. Len(acked) + 1 -> 0 .. e] /\ o[Len(acked) + 1] = e
    BY <1>5, <2>1 DEF Laid
  <2>3. ASSUME NEW k \in 1 .. Len(acked)
        PROVE  /\ acked[k] \in 1 .. Len(sz) /\ o[k + 1] = o[k] + Span(sz, acked[k])
               /\ \A i \in 1 .. Span(sz, acked[k]) : file'[o[k] + i] = <<acked[k], i>>
    <3>1. /\ o[k] \in Nat /\ o[k + 1] \in Nat /\ o[k + 1] <= e
          /\ acked[k] \in 1 .. Len(sz) /\ o[k + 1] = o[k] + Span(sz, acked[k])
          /\ \A i \in 1 .. Span(sz, acked[k]) : disk[o[k] + i] = <<acked[k], i>>
      BY <1>5, <2>1, LaidAt
    <3>2. /\ acked[k] \in 1 .. Len(sz) /\ o[k + 1] = o[k] + Span(sz, acked[k])
          /\ \A i \in 1 .. Span(sz, acked[k]) : file[o[k] + i] = <<acked[k], i>>
      BY <2>1 DEF Laid
    <3>3. ASSUME NEW i \in 1 .. Span(sz, acked[k]) PROVE file'[o[k] + i] = <<acked[k], i>>
      <4>1. Span(sz, acked[k]) \in Nat
        BY <2>1, <3>1
      <4>2. o[k] + i \in 1 .. Len(disk)
        <5>1. PICK w \in Nat : w = Span(sz, acked[k])
          BY <4>1
        <5>2. i \in 1 .. w /\ o[k] + w <= e
          BY <3>1, <5>1
        <5> QED BY <1>5, <2>2, <3>1, <5>2
      <4>3. file'[o[k] + i] \in {disk[o[k] + i], file[o[k] + i]}
        BY <1>1, <4>2
      <4> QED BY <3>1, <3>2, <4>3
    <3> QED BY <3>1, <3>3
  <2>4. e \in 0 .. Len(file')
    BY <1>1, <1>5, <2>2
  <2> QED BY <2>2, <2>3, <2>4 DEF Laid
<1>7. Laid(sizes, file', acked, o, e)
  BY <1>6
<1>8. AckedAt(o, e)'
  <2>1. acked' = acked /\ st' = "None"
    BY <1>0 DEF LoseProcess, Forget
  <2> QED BY <1>0, <1>1, <1>4, <1>7, <2>1 DEF AckedAt
<1>9. AckedLaid'
  BY <1>8 DEF AckedLaid
<1> QED BY <1>0, <1>2, <1>9, LossInd

LEMMA WalInit == Init => WalInd
<1> SUFFICES ASSUME Init PROVE WalInd
  OBVIOUS
<1>1. TypeOK
  BY WalInitType
<1>2. /\ file = <<>> /\ disk = <<>> /\ buffer = <<>> /\ acked = <<>> /\ log = <<>> /\ tail = 0
      /\ iter = NoIter
  BY DEF Init
<1>3. ~iter.live
  BY <1>2 DEF NoIter
<1>4. Quiet /\ IterLaid
  BY <1>2, <1>3 DEF Quiet, IterLaid
<1>5. ASSUME NEW f, NEW rs, Len(f) = 0, Len(rs) = 0 PROVE Laid(sizes, f, rs, [k \in 1 .. 1 |-> 0], 0)
  <2>1. 1 .. Len(rs) + 1 = 1 .. 1 /\ 1 .. Len(rs) = {}
    BY <1>5
  <2> QED BY <1>5, <2>1 DEF Laid
<1>6. /\ Len(file) = 0 /\ Len(disk) = 0 /\ Len(buffer) = 0 /\ Len(acked) = 0 /\ Len(log) = 0
      /\ Image = file
  BY <1>2 DEF Image
<1>7. StartsAt([k \in 1 .. 1 |-> 0], 0)
  BY DEF StartsAt
<1>8. AckedAt([k \in 1 .. 1 |-> 0], 0)
  BY <1>2, <1>5, <1>6, <1>7 DEF AckedAt
<1>9. LogAt([k \in 1 .. 1 |-> 0], 0)
  BY <1>2, <1>5, <1>6, <1>7 DEF LogAt
<1>10. AckedLaid /\ LogLaid
  BY <1>8, <1>9 DEF AckedLaid, LogLaid
<1> QED BY <1>1, <1>4, <1>10 DEF WalInd

LEMMA WalStep ==
  ASSUME ~AppendAfterReplay PROVE WalInd /\ [Next]_vars => WalInd'
<1> SUFFICES ASSUME WalInd, [Next]_vars PROVE WalInd'
  OBVIOUS
<1>0. TypeOK /\ Quiet /\ AckedLaid /\ LogLaid /\ IterLaid
  BY DEF WalInd
<1>1. CASE \E p \in Payloads : AppendBuffered(p)
  BY <1>1, AppendBufferedInd
<1>2. CASE \E p \in Payloads : AppendLarge(p)
  BY <1>2, AppendLargeInd
<1>3. CASE Sync \/ SyncFails \/ Close
  BY <1>3, SyncInd
<1>4. CASE \E p \in {0} \cup Large, n \in Cuts : WriteFails(p, n)
  BY <1>4, WriteFailsInd
<1>5. CASE Drop
  <2>1. /\ UNCHANGED <<file, disk, iterVars, sizes, acked>> /\ st' = "None" /\ buffer' = <<>>
    BY <1>5 DEF Drop, Forget
  <2>2. TypeOK'
    BY <1>0, WalStepType
  <2>3. AckedLaid'
    BY <1>0, <2>1, AckedSame
  <2>4. IterLaid'
    BY <1>0, <2>1, IterSame
  <2>5. Quiet' /\ LogLaid'
    BY <2>1 DEF Quiet, LogLaid
  <2> QED BY <2>2, <2>3, <2>4, <2>5 DEF WalInd
<1>6. CASE Open
  BY <1>6, OpenInd
<1>7. CASE ReplayRef \/ Replay
  BY <1>7, ReplayInd
<1>8. CASE IterNext \/ IterEnd \/ DropIter
  BY <1>8, IterInd
<1>9. CASE \E p \in {0} \cup Large, n \in Cuts : Kill(p, n)
  BY <1>9, KillInd
<1>10. CASE PowerLoss
  BY <1>10, PowerLossInd
<1>11. CASE UNCHANGED vars
  <2>1. TypeOK'
    BY <1>0, WalStepType
  <2>2. UNCHANGED <<file, disk, cursor, buffer, st, iterVars, tail, sizes, log, acked, damaged>>
    BY <1>11 DEF vars, fileVars, handleVars, histVars
  <2>3. Quiet' /\ Image' = Image
    BY <1>0, <2>2 DEF Quiet, Image, iterVars
  <2>4. AckedLaid' /\ LogLaid'
    BY <1>0, <2>2, <2>3 DEF AckedLaid, AckedAt, LogLaid, LogAt
  <2>5. IterLaid'
    BY <1>0, <2>2, IterSame
  <2> QED BY <2>1, <2>3, <2>4, <2>5 DEF WalInd
<1> QED BY <1>1, <1>2, <1>3, <1>4, <1>5, <1>6, <1>7, <1>8, <1>9, <1>10, <1>11 DEF Next

LEMMA PrefixIs ==
  ASSUME NEW R, NEW S, NEW s \in Seq(R), NEW t \in Seq(S), Len(s) <= Len(t),
         \A j \in 1 .. Len(s) : t[j] = s[j]
  PROVE  IsPrefix(s, t)
<1>1. Len(s) \in Nat /\ Len(t) \in Nat
  OBVIOUS
<1>2. SubSeq(s, 1, Len(s)) = [j \in 1 .. Len(s) |-> s[j]]
  BY <1>1
<1>3. SubSeq(t, 1, Len(s)) = [j \in 1 .. Len(s) |-> t[j]]
  BY <1>1
<1>4. SubSeq(s, 1, Len(s)) = SubSeq(t, 1, Len(s))
  BY <1>2, <1>3
<1> QED BY <1>4 DEF IsPrefix

LEMMA AckedScanned ==
  ASSUME TypeOK, NEW f \in Seq(Cell), NEW o, NEW e, Laid(sizes, f, acked, o, e), StartsAt(o, 0)
  PROVE  IsPrefix(acked, Scan(f).recs)
<1>1. sizes \in Seq(Nat) /\ acked \in Seq(Record) /\ Len(f) \in Nat
  BY Known
<1>2. Len(acked) <= Len(Scan(f).recs) /\ \A j \in 1 .. Len(acked) : Scan(f).recs[j] = acked[j]
  BY <1>1, LaidScanned
<1>3. Scan(f).recs \in Seq(1 .. Len(sizes))
  <2>1. Scan(f) \in Scanned(f)
    BY <1>1, ScanLaid
  <2> QED BY <2>1 DEF Scanned
<1> QED BY <1>1, <1>2, <1>3, PrefixIs

(* Wal::sync's promise: whatever fails, is killed or loses power after it,  *)
(* the records it covered are the first ones a scan finds, in order, in the *)
(* file and on stable storage, as long as no client appends through the     *)
(* offset that replay_ref moved.                                            *)
THEOREM SyncedSurvives ==
  ASSUME ~AppendAfterReplay PROVE Spec => []AckedReadable
<1>1. WalInd => AckedReadable
  <2> SUFFICES ASSUME WalInd PROVE AckedReadable
    OBVIOUS
  <2>1. TypeOK /\ AckedLaid
    BY DEF WalInd
  <2>2. PICK o, e : AckedAt(o, e)
    BY <2>1 DEF AckedLaid
  <2>3. Laid(sizes, file, acked, o, e) /\ Laid(sizes, disk, acked, o, e) /\ StartsAt(o, 0)
    BY <2>2 DEF AckedAt
  <2>4. file \in Seq(Cell) /\ disk \in Seq(Cell)
    BY <2>1, Known
  <2>5. IsPrefix(acked, Scan(file).recs)
    BY <2>1, <2>3, <2>4, AckedScanned
  <2>6. IsPrefix(acked, Scan(disk).recs)
    BY <2>1, <2>3, <2>4, AckedScanned
  <2> QED BY <2>5, <2>6 DEF AckedReadable
<1>2. WalInd /\ [Next]_vars => WalInd'
  BY WalStep
<1> QED BY <1>1, <1>2, WalInit, PTL DEF Spec

(* An iteration of WalReplayIterator that ended on its own has yielded, in  *)
(* order, every record that was synced before it began.                     *)
THEOREM ReplayIsComplete ==
  ASSUME ~AppendAfterReplay PROVE Spec => []ReplayYieldsAcked
<1>1. WalInd => ReplayYieldsAcked
  <2> SUFFICES ASSUME WalInd, iter.live, iter.done PROVE IsPrefix(iter.promised, got)
    BY DEF ReplayYieldsAcked
  <2>1. TypeOK /\ IterLaid
    BY DEF WalInd
  <2>2. iter.promised \in Seq(Record) /\ got \in Seq(Record)
    BY <2>1, LiveIter, Known DEF TypeOK, Iterator
  <2>3. PICK o, e : IterAt(o, e)
    BY <2>1 DEF IterLaid
  <2>4. ~(Len(got) < Len(iter.promised)) /\ YieldedFirst
    BY <2>1, <2>3 DEF IterAt, IterLaid
  <2>5. Len(iter.promised) <= Len(got) /\ Len(got) \in Nat /\ Len(iter.promised) \in Nat
    BY <2>2, <2>4
  <2>6. \A j \in 1 .. Len(iter.promised) : got[j] = iter.promised[j]
    BY <2>4, <2>5 DEF YieldedFirst
  <2> QED BY <2>2, <2>5, <2>6, PrefixIs
<1>2. WalInd /\ [Next]_vars => WalInd'
  BY WalStep
<1> QED BY <1>1, <1>2, WalInit, PTL DEF Spec

-------------------------------------------------------------------------------
(****************************************************************************)
(* The log file implements DurableLog.  While nothing is damaged, the       *)
(* records the log shows (Tidy) are the only ones of which all cells stand  *)
(* in the file, on the disk or in the image of the next flush, taken        *)
(* together (NoneBut): neither a cut write nor a loss of power, which       *)
(* leaves cells of the one and of the other, can make another one whole.    *)
(* Two facts keep it: no buffered cell stands at its place yet (Fresh), and *)
(* no cell names a record that was not appended (Numbered).  A loss of      *)
(* power may leave a file whose scan fails; nothing writes to it again      *)
(* (Stuck).                                                                 *)
(****************************************************************************)
(* f holds c at offset p (counted from 1).                                  *)
Has(f, p, c) == p \in 1 .. Len(f) /\ f[p] = c

(* Each cell of the record k stands behind the offset b, in one of the      *)
(* files F or another.                                                      *)
Whole(sz, F, k, b) == \A i \in 1 .. Span(sz, k) : \E f \in F : Has(f, b + i, <<k, i>>)

(* No mixture of the files F holds a whole record but those of rs, at o.    *)
NoneBut(sz, F, rs, o) ==
  \A k \in 1 .. Len(sz), b \in Nat :
    Whole(sz, F, k, b) => \E j \in 1 .. Len(rs) : rs[j] = k /\ o[j] = b

(* Where one of the records rs stands in f, those before it stand too.      *)
Downward(sz, f, rs, o) ==
  \A i, j \in 1 .. Len(rs) : i < j /\ Whole(sz, {f}, rs[j], o[j]) => Whole(sz, {f}, rs[i], o[i])

LEMMA SpanBig ==
  ASSUME NEW sz \in Seq(Nat), NEW k \in 1 .. Len(sz)
  PROVE  Span(sz, k) \in Nat /\ Span(sz, k) >= 3
<1>1. sz[k] \in Nat
  OBVIOUS
<1> QED BY <1>1 DEF Span, HeaderSize, TrailerSize

(* Offsets rise by at least the record between them.                        *)
LEMMA LaidRising ==
  ASSUME NEW sz \in Seq(Nat), NEW f, NEW rs, NEW o, NEW e, Laid(sz, f, rs, o, e),
         Len(rs) \in Nat, Len(f) \in Nat, NEW i \in 1 .. Len(rs), NEW j \in i + 1 .. Len(rs) + 1
  PROVE  o[i] + Span(sz, rs[i]) <= o[j] /\ o[i] < o[j]
<1> DEFINE N == {n \in Nat : i + 1 + n <= Len(rs) + 1 => o[i + 1] <= o[i + 1 + n]}
<1>0. /\ \A k \in 1 .. Len(rs) + 1 : o[k] \in Nat
      /\ \A k \in 1 .. Len(rs) : rs[k] \in 1 .. Len(sz) /\ o[k + 1] = o[k] + Span(sz, rs[k])
  <2>1. \A k \in 1 .. Len(rs) + 1 : o[k] \in Nat
    BY LaidOffsets
  <2>2. \A k \in 1 .. Len(rs) : rs[k] \in 1 .. Len(sz) /\ o[k + 1] = o[k] + Span(sz, rs[k])
    BY DEF Laid
  <2> QED BY <2>1, <2>2
<1>1. 0 \in N
  <2>1. i + 1 \in 1 .. Len(rs) + 1 /\ i + 1 + 0 = i + 1
    OBVIOUS
  <2>2. o[i + 1] \in Nat
    BY <1>0, <2>1
  <2>3. o[i + 1] <= o[i + 1 + 0]
    BY <2>1, <2>2
  <2> QED BY <2>3
<1>2. ASSUME NEW n \in Nat, n \in N PROVE n + 1 \in N
  <2> SUFFICES ASSUME i + 1 + (n + 1) <= Len(rs) + 1 PROVE o[i + 1] <= o[i + 1 + (n + 1)]
    OBVIOUS
  <2>1. PICK k \in 1 .. Len(rs) : k = i + 1 + n /\ k + 1 = i + 1 + (n + 1)
    OBVIOUS
  <2>2. o[i + 1] <= o[k]
    BY <1>2, <2>1
  <2>3. o[k + 1] = o[k] + Span(sz, rs[k]) /\ Span(sz, rs[k]) \in Nat
    BY <1>0, SpanBig
  <2>4. o[i + 1] \in Nat /\ o[k] \in Nat
    BY <1>0
  <2> QED BY <2>1, <2>2, <2>3, <2>4
<1> HIDE DEF N
<1>3. j - (i + 1) \in N
  <2>1. j - (i + 1) \in Nat
    OBVIOUS
  <2>2. Nat \subseteq N
    BY <1>1, <1>2, SetInduction
  <2> QED BY <2>1, <2>2
<1>4. o[i + 1] <= o[j]
  <2>1. j - (i + 1) \in Nat /\ i + 1 + (j - (i + 1)) = j
    OBVIOUS
  <2> QED BY <1>3, <2>1 DEF N
<1>5. o[i + 1] = o[i] + Span(sz, rs[i]) /\ Span(sz, rs[i]) \in Nat /\ Span(sz, rs[i]) >= 3
  BY <1>0, SpanBig
<1>6. o[i] \in Nat /\ o[j] \in Nat /\ o[i + 1] \in Nat
  BY <1>0
<1> QED BY <1>4, <1>5, <1>6

(* What is laid out in a file made of cells of F begins like rs, when F     *)
(* holds no other records.                                                  *)
LEMMA LaidWithin ==
  ASSUME NEW sz \in Seq(Nat), NEW F, NEW f, Len(f) \in Nat, NEW g, Len(g) \in Nat,
         NEW R, NEW rs \in Seq(R), NEW o, NEW e, Laid(sz, f, rs, o, e), StartsAt(o, 0),
         NEW ts \in Seq(R), NEW q, NEW d, Laid(sz, g, ts, q, d), StartsAt(q, 0),
         NoneBut(sz, F, rs, o), \A k \in 1 .. Len(ts) : Whole(sz, F, ts[k], q[k])
  PROVE  /\ Len(ts) <= Len(rs)
         /\ \A k \in 1 .. Len(ts) : ts[k] = rs[k]
         /\ \A k \in 1 .. Len(ts) + 1 : q[k] = o[k]
<1> DEFINE Ok(n) == n <= Len(rs) /\ o[n + 1] = q[n + 1] /\ \A k \in 1 .. n : ts[k] = rs[k] /\ q[k] = o[k]
           N == {n \in Nat : n <= Len(ts) => Ok(n)}
<1>0. Len(rs) \in Nat /\ Len(ts) \in Nat
  OBVIOUS
<1>a. /\ \A k \in 1 .. Len(rs) + 1 : o[k] \in Nat
      /\ \A k \in 1 .. Len(ts) + 1 : q[k] \in Nat
  BY <1>0, LaidOffsets
<1>b. /\ \A k \in 1 .. Len(rs) : o[k + 1] = o[k] + Span(sz, rs[k])
      /\ \A k \in 1 .. Len(ts) : q[k + 1] = q[k] + Span(sz, ts[k]) /\ ts[k] \in 1 .. Len(sz)
  BY DEF Laid
<1>1. 0 \in N
  <2>1. o[0 + 1] = q[0 + 1]
    BY DEF StartsAt
  <2>2. Ok(0)
    BY <1>0, <2>1
  <2> QED BY <2>2
<1>2. ASSUME NEW n \in Nat, n \in N PROVE n + 1 \in N
  <2> SUFFICES ASSUME n + 1 <= Len(ts) PROVE Ok(n + 1)
    OBVIOUS
  <2>1. n + 1 \in 1 .. Len(ts) /\ Ok(n)
    BY <1>0, <1>2
  <2>2. Whole(sz, F, ts[n + 1], q[n + 1]) /\ ts[n + 1] \in 1 .. Len(sz) /\ q[n + 1] \in Nat
    BY <1>0, <1>a, <1>b, <2>1
  <2>3. PICK j \in 1 .. Len(rs) : rs[j] = ts[n + 1] /\ o[j] = q[n + 1]
    BY <2>2 DEF NoneBut
  <2>4. j = n + 1
    <3>1. o[j] = o[n + 1] /\ n + 1 \in 1 .. Len(rs) + 1 /\ o[j] \in Nat /\ o[n + 1] \in Nat
      BY <1>0, <1>a, <2>1, <2>3
    <3>2. ASSUME j < n + 1 PROVE FALSE
      <4>1. n + 1 \in j + 1 .. Len(rs) + 1
        BY <1>0, <2>1, <3>2
      <4>2. o[j] < o[n + 1]
        BY <1>0, <4>1, LaidRising
      <4> QED BY <3>1, <4>2
    <3>3. ASSUME j > n + 1 PROVE FALSE
      <4>1. n + 1 \in 1 .. Len(rs) /\ j \in (n + 1) + 1 .. Len(rs) + 1
        BY <1>0, <3>3
      <4>2. o[n + 1] < o[j]
        BY <1>0, <4>1, LaidRising
      <4> QED BY <3>1, <4>2
    <3> QED BY <3>2, <3>3
  <2>5. o[n + 2] = q[n + 2]
    <3>1. n + 1 \in 1 .. Len(rs) /\ (n + 1) + 1 = n + 2
      BY <2>4
    <3> QED BY <1>b, <2>1, <2>3, <2>4, <3>1
  <2>6. \A k \in 1 .. n + 1 : ts[k] = rs[k] /\ q[k] = o[k]
    <3> TAKE k \in 1 .. n + 1
    <3>1. CASE k = n + 1
      BY <2>3, <2>4, <3>1
    <3>2. CASE k # n + 1
      <4>1. k \in 1 .. n
        BY <3>2
      <4> QED BY <2>1, <4>1
    <3> QED BY <3>1, <3>2
  <2>7. (n + 1) + 1 = n + 2 /\ n + 1 <= Len(rs)
    BY <2>4
  <2> QED BY <2>5, <2>6, <2>7
<1> HIDE DEF N
<1>3. Len(ts) \in N
  BY <1>0, <1>1, <1>2, SetInduction
<1>4. Ok(Len(ts))
  BY <1>0, <1>3 DEF N
<1>5. \A k \in 1 .. Len(ts) + 1 : q[k] = o[k]
  <2> TAKE k \in 1 .. Len(ts) + 1
  <2>1. CASE k = Len(ts) + 1
    BY <1>4, <2>1
  <2>2. CASE k # Len(ts) + 1
    <3>1. k \in 1 .. Len(ts)
      BY <1>0, <2>2
    <3> QED BY <1>4, <3>1
  <2> QED BY <2>1, <2>2
<1> QED BY <1>4, <1>5

(* A record laid out in f is whole in f, and in any files that have f.      *)
LEMMA LaidWhole ==
  ASSUME NEW sz \in Seq(Nat), NEW F, NEW f \in F, Len(f) \in Nat,
         NEW rs, Len(rs) \in Nat, NEW o, NEW e, Laid(sz, f, rs, o, e), NEW k \in 1 .. Len(rs)
  PROVE  Whole(sz, F, rs[k], o[k])
<1>1. /\ o[k] \in Nat /\ o[k + 1] \in Nat /\ o[k] <= e /\ o[k + 1] <= e
      /\ rs[k] \in 1 .. Len(sz) /\ o[k + 1] = o[k] + Span(sz, rs[k])
      /\ \A i \in 1 .. Span(sz, rs[k]) : f[o[k] + i] = <<rs[k], i>>
  <2>1. k \in 1 .. Len(rs) + 1 /\ k + 1 \in 1 .. Len(rs) + 1
    OBVIOUS
  <2>2. o[k] \in Nat /\ o[k + 1] \in Nat /\ o[k] <= e /\ o[k + 1] <= e
    BY <2>1, LaidOffsets
  <2> QED BY <2>2 DEF Laid
<1>2. e \in Nat /\ e <= Len(f)
  BY LaidOffsets
<1>3. PICK w \in Nat : w = Span(sz, rs[k])
  BY <1>1, SpanBig
<1>4. ASSUME NEW i \in 1 .. w PROVE Has(f, o[k] + i, <<rs[k], i>>)
  <2>1. o[k] + i \in 1 .. Len(f)
    <3>1. o[k] \in Nat /\ o[k] + w <= e
      BY <1>1, <1>3
    <3> QED BY <1>2, <3>1
  <2> QED BY <1>1, <1>3, <2>1 DEF Has
<1> QED BY <1>3, <1>4 DEF Whole

(* More files hold more.                                                    *)
LEMMA WholeMore ==
  ASSUME NEW sz, NEW F, NEW G, NEW k, NEW b, Whole(sz, F, k, b),
         \A i \in 1 .. Span(sz, k) : \A f \in F :
           Has(f, b + i, <<k, i>>) => \E g \in G : Has(g, b + i, <<k, i>>)
  PROVE  Whole(sz, G, k, b)
BY DEF Whole

LEMMA SpanLater ==
  ASSUME NEW sz \in Seq(Nat), NEW p \in Nat
  PROVE  /\ Append(sz, p) \in Seq(Nat) /\ Len(Append(sz, p)) = Len(sz) + 1
         /\ \A k \in 1 .. Len(sz) : Span(Append(sz, p), k) = Span(sz, k)
         /\ Span(Append(sz, p), Len(sz) + 1) = HeaderSize + p + TrailerSize
<1>1. /\ Append(sz, p) \in Seq(Nat) /\ Len(Append(sz, p)) = Len(sz) + 1
      /\ \A k \in 1 .. Len(sz) : Append(sz, p)[k] = sz[k]
      /\ Append(sz, p)[Len(sz) + 1] = p
  OBVIOUS
<1> QED BY <1>1 DEF Span

(* The cells of f are those of F, where they stand, or of the record n,     *)
(* written at e.                                                            *)
Mixed(f, F, n, e) ==
  \A i \in 1 .. Len(f) : \/ \E g \in F : Has(g, i, f[i])
                        \/ \E c \in Nat \ {0} : i = e + c /\ f[i] = <<n, c>>

AllMixed(G, F, n, e) == \A g \in G : Mixed(g, F, n, e)

(* The records F names come before n.                                       *)
Below(F, n) == \A f \in F : \A i \in 1 .. Len(f) : f[i][1] \in Nat /\ f[i][1] < n

(* Behind rs a new record is written: no other becomes whole.               *)
LEMMA AppendNoneBut ==
  ASSUME NEW sz \in Seq(Nat), NEW p \in Nat, NEW F, NEW G, NEW f, Len(f) \in Nat,
         NEW R, NEW rs \in Seq(R), NEW o, NEW e, Laid(sz, f, rs, o, e), NoneBut(sz, F, rs, o),
         NEW h, Len(h) \in Nat, NEW q, NEW d,
         Laid(Append(sz, p), h, Append(rs, Len(sz) + 1), q, d), q[1] = o[1],
         Below(F, Len(sz) + 1), AllMixed(G, F, Len(sz) + 1, e)
  PROVE  /\ NoneBut(Append(sz, p), G, Append(rs, Len(sz) + 1), q)
         /\ \A k \in 1 .. Len(rs) + 1 : q[k] = o[k]
<1> DEFINE N == Len(sz) + 1
           ts == Append(rs, N)
           sp == Append(sz, p)
<1>1. /\ sp \in Seq(Nat) /\ Len(sp) = N
      /\ \A k \in 1 .. Len(sz) : Span(sp, k) = Span(sz, k)
  BY SpanLater
<1>2. /\ Len(rs) \in Nat /\ Len(ts) = Len(rs) + 1 /\ ts[Len(rs) + 1] = N
      /\ \A k \in 1 .. Len(rs) : ts[k] = rs[k]
  OBVIOUS
<1>3. /\ \A k \in 1 .. Len(rs) : o[k + 1] = o[k] + Span(sz, rs[k]) /\ rs[k] \in 1 .. Len(sz)
      /\ o[Len(rs) + 1] = e /\ e \in Nat
  <2>1. e \in Nat
    BY <1>2, LaidOffsets
  <2> QED BY <2>1 DEF Laid
<1>4. \A k \in 1 .. Len(ts) : q[k + 1] = q[k] + Span(sp, ts[k])
  BY DEF Laid
<1> HIDE DEF ts, sp
<1> DEFINE I == {n \in Nat : n <= Len(rs) => q[n + 1] = o[n + 1]}
<1>5. 0 \in I
  OBVIOUS
<1>6. ASSUME NEW n \in Nat, n \in I PROVE n + 1 \in I
  <2> SUFFICES ASSUME n + 1 <= Len(rs) PROVE q[n + 2] = o[n + 2]
    OBVIOUS
  <2>1. n + 1 \in 1 .. Len(rs) /\ n + 1 \in 1 .. Len(ts) /\ (n + 1) + 1 = n + 2 /\ q[n + 1] = o[n + 1]
    BY <1>2, <1>6
  <2>2. ts[n + 1] = rs[n + 1] /\ Span(sp, rs[n + 1]) = Span(sz, rs[n + 1])
    BY <1>1, <1>2, <1>3, <2>1
  <2> QED BY <1>3, <1>4, <2>1, <2>2
<1> HIDE DEF I
<1>7. \A k \in 1 .. Len(rs) + 1 : q[k] = o[k]
  <2> TAKE k \in 1 .. Len(rs) + 1
  <2>1. k - 1 \in Nat /\ k - 1 <= Len(rs) /\ (k - 1) + 1 = k
    BY <1>2
  <2>2. Nat \subseteq I
    BY <1>5, <1>6, SetInduction
  <2>3. k - 1 \in I
    BY <2>1, <2>2
  <2> QED BY <2>1, <2>3 DEF I
<1>8. ASSUME NEW k \in 1 .. N, NEW b \in Nat, Whole(sp, G, k, b)
      PROVE  \E j \in 1 .. Len(ts) : ts[j] = k /\ q[j] = b
  <2>1. CASE k = N
    <3>1. Span(sp, N) \in Nat /\ Span(sp, N) >= 3
      BY <1>1, SpanBig
    <3>2. PICK g \in G : Has(g, b + 1, <<N, 1>>)
      <4>1. 1 \in 1 .. Span(sp, k)
        BY <2>1, <3>1
      <4> QED BY <1>8, <2>1, <4>1 DEF Whole
    <3>3. b + 1 \in 1 .. Len(g) /\ g[b + 1] = <<N, 1>>
      BY <3>2 DEF Has
    <3>4. ~\E h2 \in F : Has(h2, b + 1, g[b + 1])
      <4> SUFFICES ASSUME NEW h2 \in F, Has(h2, b + 1, <<N, 1>>) PROVE FALSE
        BY <3>3
      <4>1. b + 1 \in 1 .. Len(h2) /\ h2[b + 1][1] = N
        BY DEF Has
      <4>2. h2[b + 1][1] < N /\ N \in Nat
        BY <4>1 DEF Below
      <4> QED BY <4>1, <4>2
    <3>5. PICK c \in Nat \ {0} : b + 1 = e + c /\ g[b + 1] = <<N, c>>
      BY <3>3, <3>4 DEF AllMixed, Mixed
    <3>6. c = 1 /\ b = e
      <4>1. c = 1
        BY <3>3, <3>5
      <4> QED BY <1>3, <3>5, <4>1
    <3>7. Len(rs) + 1 \in 1 .. Len(ts) /\ ts[Len(rs) + 1] = N /\ q[Len(rs) + 1] = e
      <4>1. Len(rs) + 1 \in 1 .. Len(rs) + 1 /\ Len(ts) = Len(rs) + 1
        BY <1>2
      <4>2. q[Len(rs) + 1] = e
        BY <1>3, <1>7, <4>1
      <4> QED BY <1>2, <4>1, <4>2
    <3> QED BY <2>1, <3>6, <3>7
  <2>2. CASE k # N
    <3>1. k \in 1 .. Len(sz) /\ Span(sp, k) = Span(sz, k)
      BY <1>1, <2>2
    <3>2. ASSUME NEW i \in 1 .. Span(sz, k) PROVE \E h2 \in F : Has(h2, b + i, <<k, i>>)
      <4>1. PICK g \in G : Has(g, b + i, <<k, i>>)
        BY <1>8, <3>1 DEF Whole
      <4>2. b + i \in 1 .. Len(g) /\ g[b + i] = <<k, i>>
        BY <4>1 DEF Has
      <4>3. ~\E c \in Nat \ {0} : b + i = e + c /\ g[b + i] = <<N, c>>
        BY <2>2, <4>2
      <4> QED BY <4>2, <4>3 DEF AllMixed, Mixed
    <3>3. Whole(sz, F, k, b)
      BY <3>2 DEF Whole
    <3>4. PICK j \in 1 .. Len(rs) : rs[j] = k /\ o[j] = b
      BY <3>1, <3>3 DEF NoneBut
    <3>5. j \in 1 .. Len(ts) /\ ts[j] = k /\ q[j] = b
      BY <1>2, <1>7, <3>4
    <3> QED BY <3>5
  <2> QED BY <2>1, <2>2
<1>9. NoneBut(sp, G, ts, q)
  BY <1>1, <1>8 DEF NoneBut
<1> QED BY <1>7, <1>9 DEF ts, sp

(* The whole ones of the records rs are among the first n.                  *)
Within(sz, F, rs, o, n) == \A j \in 1 .. Len(rs) : Whole(sz, F, rs[j], o[j]) => j <= n

(* The records ts that stand in a file of F are the first of rs, and the    *)
(* only whole ones if none of rs behind them is.                            *)
LEMMA Settles ==
  ASSUME NEW sz \in Seq(Nat), NEW F, NEW f, Len(f) \in Nat, NEW h \in F, Len(h) \in Nat,
         NEW R, NEW rs \in Seq(R), NEW o, NEW e, Laid(sz, f, rs, o, e), StartsAt(o, 0),
         NEW ts \in Seq(R), NEW q, NEW d, Laid(sz, h, ts, q, d), StartsAt(q, 0),
         NoneBut(sz, F, rs, o)
  PROVE  /\ Len(ts) <= Len(rs) /\ \A k \in 1 .. Len(ts) : ts[k] = rs[k]
         /\ \A k \in 1 .. Len(ts) + 1 : q[k] = o[k]
         /\ Within(sz, F, rs, o, Len(ts)) => NoneBut(sz, F, ts, q)
<1>0. Len(rs) \in Nat /\ Len(ts) \in Nat
  OBVIOUS
<1>1. \A k \in 1 .. Len(ts) : Whole(sz, F, ts[k], q[k])
  BY <1>0, LaidWhole
<1>2. /\ Len(ts) <= Len(rs) /\ \A k \in 1 .. Len(ts) : ts[k] = rs[k]
      /\ \A k \in 1 .. Len(ts) + 1 : q[k] = o[k]
  BY <1>1, LaidWithin
<1>3. ASSUME Within(sz, F, rs, o, Len(ts)) PROVE NoneBut(sz, F, ts, q)
  <2> SUFFICES ASSUME NEW k \in 1 .. Len(sz), NEW b \in Nat, Whole(sz, F, k, b)
               PROVE  \E j \in 1 .. Len(ts) : ts[j] = k /\ q[j] = b
    BY DEF NoneBut
  <2>1. PICK j \in 1 .. Len(rs) : rs[j] = k /\ o[j] = b
    BY DEF NoneBut
  <2>2. j <= Len(ts)
    BY <1>3, <2>1 DEF Within
  <2>3. j \in 1 .. Len(ts) /\ j \in 1 .. Len(ts) + 1
    BY <1>0, <2>2
  <2>4. ts[j] = k /\ q[j] = b
    BY <1>2, <2>1, <2>3
  <2> QED BY <2>3, <2>4
<1> QED BY <1>2, <1>3

(* The first j records of what is laid out.                                 *)
LEMMA LaidFront ==
  ASSUME NEW sz \in Seq(Nat), NEW f, Len(f) \in Nat, NEW R, NEW rs \in Seq(R), NEW o, NEW e,
         Laid(sz, f, rs, o, e), NEW j \in 1 .. Len(rs)
  PROVE  Laid(sz, f, SubSeq(rs, 1, j), [k \in 1 .. j + 1 |-> o[k]], o[j + 1])
<1> DEFINE ts == SubSeq(rs, 1, j)
           q == [k \in 1 .. j + 1 |-> o[k]]
           d == o[j + 1]
<1>0. Len(rs) \in Nat /\ Len(ts) = j /\ ts \in Seq(R) /\ \A k \in 1 .. j : ts[k] = rs[k]
  OBVIOUS
<1>1. \A k \in 1 .. Len(rs) + 1 : o[k] \in Nat /\ o[k] <= e
  BY <1>0, LaidOffsets
<1>2. d \in 0 .. Len(f)
  <2>1. e \in Nat /\ e <= Len(f)
    BY <1>0, LaidOffsets
  <2>2. o[j + 1] \in Nat /\ o[j + 1] <= e
    BY <1>0, <1>1
  <2> QED BY <2>1, <2>2
<1>3. ASSUME NEW k \in 1 .. j + 1 PROVE o[k] \in 0 .. d
  <2>1. CASE k = j + 1
    BY <1>2, <2>1
  <2>2. CASE k # j + 1
    <3>1. k \in 1 .. Len(rs) /\ j + 1 \in k + 1 .. Len(rs) + 1
      BY <1>0, <2>2
    <3>2. o[k] < o[j + 1]
      BY <1>0, <3>1, LaidRising
    <3>3. o[k] \in Nat /\ o[j + 1] \in Nat
      BY <1>0, <1>1, <3>1
    <3> QED BY <3>2, <3>3
  <2> QED BY <2>1, <2>2
<1>4. q \in [1 .. Len(ts) + 1 -> 0 .. d] /\ q[Len(ts) + 1] = d
  BY <1>0, <1>3
<1>5. ASSUME NEW k \in 1 .. j
      PROVE  /\ ts[k] \in 1 .. Len(sz) /\ q[k + 1] = q[k] + Span(sz, ts[k])
             /\ \A i \in 1 .. Span(sz, ts[k]) : f[q[k] + i] = <<ts[k], i>>
  <2>1. k \in 1 .. Len(rs) /\ k + 1 \in 1 .. j + 1 /\ k \in 1 .. j + 1
    BY <1>0
  <2>2. q[k] = o[k] /\ q[k + 1] = o[k + 1] /\ ts[k] = rs[k]
    BY <1>0, <2>1
  <2> QED BY <2>1, <2>2 DEF Laid
<1> HIDE DEF ts, q, d
<1>6. Laid(sz, f, ts, q, d)
  BY <1>0, <1>2, <1>4, <1>5 DEF Laid
<1> QED BY <1>6 DEF ts, q, d

(* Where a scan that finds no damage ends: less than a header is left, or   *)
(* less than the record whose header stands there.                          *)
EndsShort(sz, f, p) ==
  \/ p + HeaderSize > Len(f)
  \/ \E n \in 1 .. Len(sz) : /\ \A i \in 1 .. HeaderSize : f[p + i] = <<n, i>>
                             /\ p + Span(sz, n) > Len(f)

(* f and g after a loss of power leave h: each cell is that of f or that of *)
(* g (a hole where g has none), and when two differ from f's, all behind    *)
(* the first of them are g's.                                               *)
Older(g, i) == IF i <= Len(g) THEN g[i] ELSE Hole
Lossy(f, g, h) ==
  /\ Len(h) <= Len(f)
  /\ \A i \in 1 .. Len(h) : h[i] = f[i] \/ h[i] = Older(g, i)
  /\ \A a, b \in 1 .. Len(h) : a < b /\ h[a] # f[a] /\ h[b] # f[b]
       => \A i \in a .. Len(h) : h[i] = Older(g, i)

LEMMA LossyHas ==
  ASSUME NEW f, Len(f) \in Nat, NEW g, Len(g) \in Nat, NEW h, Len(h) \in Nat, Lossy(f, g, h),
         NEW p, NEW k, NEW i \in Nat \ {0}, Has(h, p, <<k, i>>)
  PROVE  Has(f, p, <<k, i>>) \/ Has(g, p, <<k, i>>)
<1>1. p \in 1 .. Len(h) /\ h[p] = <<k, i>> /\ Len(h) <= Len(f)
  BY DEF Has, Lossy
<1>2. CASE h[p] = f[p]
  BY <1>1, <1>2 DEF Has
<1>3. CASE h[p] = Older(g, p)
  <2>1. CASE p <= Len(g)
    BY <1>1, <1>3, <2>1 DEF Has, Older
  <2>2. CASE ~(p <= Len(g))
    <3>1. <<k, i>> = <<0, 0>>
      BY <1>1, <1>3, <2>2 DEF Older, Hole
    <3> QED BY <3>1
  <2> QED BY <2>1, <2>2
<1> QED BY <1>1, <1>2, <1>3 DEF Lossy

LEMMA WholeAt ==
  ASSUME NEW sz, NEW f, NEW k, NEW b, Whole(sz, {f}, k, b), NEW i \in 1 .. Span(sz, k)
  PROVE  b + i \in 1 .. Len(f) /\ f[b + i] = <<k, i>>
BY DEF Whole, Has

(* After a loss of power that leaves no damage the scan sees, no record     *)
(* behind the ones it finds is whole.                                       *)
LEMMA LossFound ==
  ASSUME NEW sz \in Seq(Nat), NEW f, Len(f) \in Nat, NEW g, Len(g) \in Nat, NEW h, Len(h) \in Nat,
         Lossy(f, g, h), NEW m, Len(m) \in Nat,
         NEW R, NEW rs \in Seq(R), NEW o, NEW e, Laid(sz, m, rs, o, e),
         NEW t \in Nat, t <= Len(rs), EndsShort(sz, h, o[t + 1]), Downward(sz, g, rs, o),
         \A j \in 1 .. Len(rs) : Whole(sz, {f, g}, rs[j], o[j])
                                => \A i \in 1 .. j : Whole(sz, {f}, rs[i], o[i]),
         NEW j \in 1 .. Len(rs), Whole(sz, {h}, rs[j], o[j])
  PROVE  j <= t
<1> SUFFICES ASSUME j > t PROVE FALSE
  OBVIOUS
<1>d. PICK d, k : d = o[t + 1] /\ k = rs[t + 1]
  OBVIOUS
<1>0. Len(rs) \in Nat /\ t + 1 \in 1 .. Len(rs) /\ t + 1 \in 1 .. j
  OBVIOUS
<1>1. /\ \A i \in 1 .. Len(rs) + 1 : o[i] \in Nat
      /\ \A i \in 1 .. Len(rs) : rs[i] \in 1 .. Len(sz)
  <2>1. \A i \in 1 .. Len(rs) + 1 : o[i] \in Nat
    BY <1>0, LaidOffsets
  <2> QED BY <2>1 DEF Laid
<1>2. /\ d \in Nat /\ o[j] \in Nat /\ k \in 1 .. Len(sz) /\ rs[j] \in 1 .. Len(sz)
  BY <1>0, <1>1, <1>d
<1>3. PICK v \in Nat : v = Span(sz, k) /\ v >= 3
  BY <1>2, SpanBig
<1>4. PICK w \in Nat : w = Span(sz, rs[j]) /\ w >= 3
  BY <1>2, SpanBig
<1>5. j # t + 1 => d + v <= o[j]
  <2> SUFFICES ASSUME j # t + 1 PROVE d + v <= o[j]
    OBVIOUS
  <2>1. j \in (t + 1) + 1 .. Len(rs) + 1
    BY <1>0
  <2> QED BY <1>0, <1>3, <1>d, <2>1, LaidRising
<1>6. o[j] + w <= Len(h) /\ d + v <= Len(h)
  <2>1. o[j] + w \in 1 .. Len(h)
    <3>1. w \in 1 .. Span(sz, rs[j])
      BY <1>4
    <3> QED BY <3>1, WholeAt
  <2>2. CASE j = t + 1
    BY <1>3, <1>4, <1>d, <2>1, <2>2
  <2>3. CASE j # t + 1
    <3>1. PICK l \in Nat, a \in Nat : l = Len(h) /\ a = o[j]
      BY <1>2
    <3>2. d + v <= a /\ a + w \in 1 .. l
      BY <1>5, <2>1, <2>3, <3>1
    <3>3. a + w <= l /\ d + v <= l
      BY <1>2, <3>2
    <3> QED BY <3>1, <3>3
  <2> QED BY <2>1, <2>2, <2>3
<1>7. PICK n \in 1 .. Len(sz) : /\ \A i \in 1 .. HeaderSize : h[d + i] = <<n, i>>
                                /\ d + Span(sz, n) > Len(h)
  <2>1. ~(d + HeaderSize > Len(h))
    BY <1>2, <1>3, <1>6 DEF HeaderSize
  <2> QED BY <1>d, <2>1 DEF EndsShort
<1>8. h[d + 1] = <<n, 1>> /\ h[d + 2] = <<n, 2>>
  BY <1>7 DEF HeaderSize
<1>9. d + 1 \in 1 .. Len(h) /\ d + 2 \in 1 .. Len(h) /\ d + 1 < d + 2
  <2>1. d \in Nat /\ d + v <= Len(h) /\ v >= 3 /\ v \in Nat
    BY <1>2, <1>3, <1>6
  <2>2. PICK l \in Nat : l = Len(h)
    OBVIOUS
  <2>3. d + v <= l
    BY <2>1, <2>2
  <2>4. d + 1 \in 1 .. l /\ d + 2 \in 1 .. l /\ d + 1 < d + 2
    <3>1. ASSUME NEW x \in Nat, NEW y \in Nat, NEW z \in Nat, y >= 3, x + y <= z
          PROVE  x + 1 \in 1 .. z /\ x + 2 \in 1 .. z /\ x + 1 < x + 2
      BY <3>1
    <3> QED BY <2>1, <2>3, <3>1
  <2> QED BY <2>2, <2>4
<1>10. f[d + 1] = <<k, 1>> /\ f[d + 2] = <<k, 2>>
  <2>1. Whole(sz, {f, g}, rs[j], o[j])
    <3>1. ASSUME NEW i \in 1 .. Span(sz, rs[j]) PROVE \E x \in {f, g} : Has(x, o[j] + i, <<rs[j], i>>)
      <4>1. Has(h, o[j] + i, <<rs[j], i>>) /\ i \in Nat \ {0}
        BY <1>4, <3>1 DEF Whole
      <4>2. Has(f, o[j] + i, <<rs[j], i>>) \/ Has(g, o[j] + i, <<rs[j], i>>)
        BY <4>1, LossyHas
      <4> QED BY <4>2
    <3> QED BY <3>1 DEF Whole
  <2>2. Whole(sz, {f}, k, d)
    BY <1>0, <1>d, <2>1
  <2>3. 1 \in 1 .. Span(sz, k) /\ 2 \in 1 .. Span(sz, k)
    BY <1>3
  <2> QED BY <2>2, <2>3 DEF Whole, Has
<1>11. n = k
  <2>1. CASE h[d + 1] = f[d + 1]
    BY <1>8, <1>10, <2>1
  <2>2. CASE h[d + 2] = f[d + 2]
    BY <1>8, <1>10, <2>2
  <2>3. CASE h[d + 1] # f[d + 1] /\ h[d + 2] # f[d + 2]
    <3>1. \A i \in d + 1 .. Len(h) : h[i] = Older(g, i)
      BY <1>9, <2>3 DEF Lossy
    <3>2. CASE j = t + 1
      <4>1. Whole(sz, {h}, k, d) /\ 1 \in 1 .. Span(sz, k)
        BY <1>3, <1>d, <3>2
      <4>2. h[d + 1] = <<k, 1>>
        BY <4>1 DEF Whole, Has
      <4> QED BY <1>8, <4>2
    <3>3. CASE j # t + 1
      <4>1. ASSUME NEW i \in 1 .. w PROVE Has(g, o[j] + i, <<rs[j], i>>)
        <5>1. o[j] + i \in 1 .. Len(h) /\ h[o[j] + i] = <<rs[j], i>>
          BY <1>4 DEF Whole, Has
        <5>2. o[j] + i \in d + 1 .. Len(h)
          <6>1. d \in Nat /\ o[j] \in Nat /\ d + v <= o[j] /\ v \in Nat
            BY <1>2, <1>3, <1>5, <3>3
          <6>2. d + 1 <= o[j] + i
            BY <6>1
          <6>3. o[j] + i \in Nat /\ o[j] + i <= Len(h)
            BY <5>1
          <6> QED BY <6>1, <6>2, <6>3
        <5>3. Older(g, o[j] + i) = <<rs[j], i>>
          BY <3>1, <5>1, <5>2
        <5>4. CASE o[j] + i <= Len(g)
          BY <5>1, <5>3, <5>4 DEF Older, Has
        <5>5. CASE ~(o[j] + i <= Len(g))
          <6>1. <<rs[j], i>> = <<0, 0>>
            BY <5>3, <5>5 DEF Older, Hole
          <6> QED BY <6>1
        <5> QED BY <5>4, <5>5
      <4>2. Whole(sz, {g}, rs[j], o[j])
        BY <1>4, <4>1 DEF Whole
      <4>3. t + 1 < j
        BY <1>0, <3>3
      <4>4. Whole(sz, {g}, k, d)
        BY <1>0, <1>d, <4>2, <4>3 DEF Downward
      <4>5. d + 2 \in 1 .. Len(g) /\ g[d + 2] = <<k, 2>>
        <5>1. 2 \in 1 .. Span(sz, k)
          BY <1>3
        <5> QED BY <4>4, <5>1 DEF Whole, Has
      <4>6. d \in Nat
        BY <1>2
      <4>7. d + 2 \in d + 1 .. Len(h) /\ d + 2 <= Len(g)
        BY <1>9, <4>5, <4>6
      <4>8. h[d + 2] = <<k, 2>>
        BY <3>1, <4>5, <4>7 DEF Older
      <4> QED BY <1>8, <4>8
    <3> QED BY <3>2, <3>3
  <2> QED BY <2>1, <2>2, <2>3
<1>12. d + v > Len(h)
  BY <1>3, <1>7, <1>11
<1>13. d \in Nat /\ d + v <= Len(h)
  BY <1>2, <1>6
<1> QED BY <1>12, <1>13

(* Why a scan that finds no damage stopped.                                 *)
LEMMA ScanEnds ==
  ASSUME sizes \in Seq(Nat), NEW f, Len(f) \in Nat, Scan(f).ok
  PROVE  EndsShort(sizes, f, Scan(f).pos)
<1>1. PICK g \in [0 .. Len(f) -> Scanned(f)] :
        Scan(f) = g[0] /\ \A p \in 0 .. Len(f) : g[p] = ScanStep(g, f, p)
  BY ScanIs
<1> DEFINE Good(p) == g[p].ok => EndsShort(sizes, f, g[p].pos)
           N == {n \in Nat : \A p \in 0 .. Len(f) : p + n > Len(f) => Good(p)}
<1>2. ASSUME NEW p \in 0 .. Len(f), \A q \in p + 1 .. Len(f) : Good(q) PROVE Good(p)
  <2>1. CASE Found(f, p, Len(f)) = "record"
    <3> DEFINE n == At(f, p)
               q == p + Total(n)
    <3>1. q \in p + 1 .. Len(f) /\ q \in 0 .. Len(f)
      BY <2>1, RecordFound
    <3>2. g[p] = [g[q] EXCEPT !.recs = <<n>> \o @]
      BY <1>1, <2>1, Zenon DEF ScanStep
    <3> HIDE DEF n, q
    <3>3. g[q] \in Scanned(f) /\ Good(q)
      BY <1>2, <3>1
    <3>4. g[p].pos = g[q].pos /\ g[p].ok = g[q].ok
      BY <3>2, <3>3 DEF Scanned
    <3> QED BY <3>3, <3>4
  <2>2. CASE Found(f, p, Len(f)) # "record"
    <3>1. g[p] = [recs |-> <<>>, pos |-> p, ok |-> Found(f, p, Len(f)) = "short"]
      BY <1>1, <2>2 DEF ScanStep
    <3>a. g[p].ok = (Found(f, p, Len(f)) = "short") /\ g[p].pos = p
      BY <3>1
    <3> SUFFICES ASSUME Found(f, p, Len(f)) = "short" PROVE EndsShort(sizes, f, p)
      BY <3>a
    <3>2. CASE p + HeaderSize > Len(f)
      BY <3>2 DEF EndsShort
    <3>3. CASE ~(p + HeaderSize > Len(f))
      <4>1. HeaderOk(f, p) /\ p + Total(At(f, p)) > Len(f)
        BY <3>3 DEF Found
      <4>2. PICK n \in DOMAIN sizes : \A i \in 1 .. HeaderSize : f[p + i] = <<n, i>>
        BY <4>1 DEF HeaderOk
      <4>3. 1 \in 1 .. HeaderSize
        BY DEF HeaderSize
      <4>4. f[p + 1] = <<n, 1>>
        BY <4>2, <4>3
      <4>5. At(f, p) = n
        BY <4>4 DEF At
      <4>6. p + Span(sizes, n) > Len(f)
        BY <4>1, <4>5 DEF Total, Span
      <4>7. n \in 1 .. Len(sizes)
        OBVIOUS
      <4> QED BY <4>2, <4>6, <4>7 DEF EndsShort
    <3> QED BY <3>2, <3>3
  <2> QED BY <2>1, <2>2
<1> HIDE DEF Good
<1>3. 0 \in N
  OBVIOUS
<1>4. ASSUME NEW n \in Nat, n \in N PROVE n + 1 \in N
  <2> SUFFICES ASSUME NEW p \in 0 .. Len(f), p + (n + 1) > Len(f) PROVE Good(p)
    OBVIOUS
  <2>1. \A q \in p + 1 .. Len(f) : Good(q)
    BY <1>4
  <2> QED BY <1>2, <2>1
<1> HIDE DEF N
<1>5. Len(f) + 1 \in N
  BY <1>3, <1>4, SetInduction
<1>6. Good(0)
  BY <1>5 DEF N
<1> QED BY <1>1, <1>6 DEF Good

Entries == Scan(Image).recs
ScanFacts ==
  /\ Entries \in Seq(Record) /\ Len(Entries) \in Nat
  /\ \E o : Laid(sizes, Image, Entries, o, Scan(Image).pos) /\ StartsAt(o, 0)
  /\ Scan(Image).ok => EndsShort(sizes, Image, Scan(Image).pos)
  /\ \A rs \in Seq(Record) : \A o, e : Laid(sizes, Image, rs, o, e) /\ StartsAt(o, 0)
       => Len(rs) <= Len(Entries) /\ \A j \in 1 .. Len(rs) : Entries[j] = rs[j]

LEMMA ScanKnown == TypeOK => ScanFacts
<1> SUFFICES ASSUME TypeOK PROVE ScanFacts
  OBVIOUS
<1>1. sizes \in Seq(Nat) /\ Image \in Seq(Cell) /\ Len(Image) \in Nat
  BY Known, ImageType
<1>2. /\ Scan(Image) \in Scanned(Image)
      /\ \E o : Laid(sizes, Image, Scan(Image).recs, o, Scan(Image).pos) /\ StartsAt(o, 0)
  BY <1>1, ScanLaid
<1>3. Entries \in Seq(Record) /\ Len(Entries) \in Nat
  <2>1. Entries \in Seq(1 .. Len(sizes))
    BY <1>2 DEF Entries, Scanned
  <2>2. Entries \in Seq(Record)
    BY <2>1, RecordNumbers, SmallerSeq
  <2> QED BY <2>2
<1>4. Scan(Image).ok => EndsShort(sizes, Image, Scan(Image).pos)
  BY <1>1, ScanEnds
<1>5. ASSUME NEW rs \in Seq(Record), NEW o, NEW e, Laid(sizes, Image, rs, o, e), StartsAt(o, 0)
      PROVE  Len(rs) <= Len(Entries) /\ \A j \in 1 .. Len(rs) : Entries[j] = rs[j]
  BY <1>1, <1>5, LaidScanned DEF Entries
<1> QED BY <1>2, <1>3, <1>4, <1>5 DEF ScanFacts, Entries

LEMMA ScanKnownNext == TypeOK' => ScanFacts'
BY ScanKnown, PTL

LEMMA ScanSame ==
  ASSUME Image' = Image, sizes' = sizes PROVE Scan(Image)' = Scan(Image)
BY DEF Scan, Found, HeaderOk, At, PayloadOk, Total

LEMMA PowerLossLossy ==
  ASSUME TypeOK, PowerLoss PROVE Lossy(file, disk, file')
<1> DEFINE dirty == {i \in DOMAIN file : i > Len(disk) \/ disk[i] # file[i]}
           losses == {{i \in dirty : i > n} : n \in {0} \cup dirty} \cup {{i} : i \in dirty}
           old(i) == IF i <= Len(disk) THEN disk[i] ELSE Hole
           end(lost) == CHOOSE n \in Len(disk) .. Len(file) :
                          /\ \A i \in n + 1 .. Len(file) : i \in lost
                          /\ n = Len(disk) \/ n \notin lost
<1>1. PICK lost \in losses :
        file' = [i \in 1 .. end(lost) |-> IF i \in lost THEN old(i) ELSE file[i]]
  BY DEF PowerLoss
<1>2. Len(disk) \in Nat /\ Len(file) \in Nat /\ file' \in Seq(Cell) /\ Len(file') <= Len(file)
      /\ DOMAIN file = 1 .. Len(file)
  <2>1. file' \in Seq(Cell) /\ Len(file') <= Len(file)
    BY PowerLossFile
  <2> QED BY <2>1, Known
<1>3. PICK m : m = end(lost)
  OBVIOUS
<1> HIDE DEF end
<1>4. \A i \in 1 .. Len(file') : file'[i] = IF i \in lost THEN old(i) ELSE file[i]
  <2>1. DOMAIN file' = 1 .. m
    BY <1>1, <1>3
  <2>2. DOMAIN file' = 1 .. Len(file')
    BY <1>2
  <2> QED BY <1>1, <1>3, <2>1, <2>2
<1>5. \A i \in 1 .. Len(file') : file'[i] = file[i] \/ file'[i] = Older(disk, i)
  BY <1>4 DEF Older
<1>6. ASSUME NEW a \in 1 .. Len(file'), NEW b \in 1 .. Len(file'), a < b,
             file'[a] # file[a], file'[b] # file[b], NEW i \in a .. Len(file')
      PROVE  file'[i] = Older(disk, i)
  <2>1. a \in lost /\ b \in lost
    BY <1>4, <1>6
  <2>2. PICK n \in {0} \cup dirty : lost = {x \in dirty : x > n}
    <3>1. ~\E x \in dirty : lost = {x}
      BY <1>6, <2>1
    <3> QED BY <3>1
  <2>3. n < a /\ n \in Int
    BY <1>2, <2>1, <2>2
  <2>4. i \in 1 .. Len(file') /\ i > n /\ i \in DOMAIN file
    BY <1>2, <2>3
  <2>5. CASE i \in dirty
    <3>1. i \in lost
      BY <2>2, <2>4, <2>5
    <3> QED BY <1>4, <2>4, <3>1 DEF Older
  <2>6. CASE i \notin dirty
    <3>1. i <= Len(disk) /\ disk[i] = file[i]
      BY <1>2, <2>4, <2>6
    <3> QED BY <1>5, <2>4, <3>1 DEF Older
  <2> QED BY <2>5, <2>6
<1> QED BY <1>2, <1>5, <1>6 DEF Lossy

-------------------------------------------------------------------------------
(* The records rs are what the log shows and holds.                         *)
Files == {file, disk, Image}
Tidy(rs, o, e) ==
  /\ rs \in Seq(Record) /\ Laid(sizes, Image, rs, o, e) /\ StartsAt(o, 0)
  /\ st # "None" => rs = log /\ e = tail + Len(buffer)
  /\ NoneBut(sizes, Files, rs, o) /\ Downward(sizes, disk, rs, o)
Stuck == st = "None" /\ file = disk /\ ~Scan(Image).ok
Clean == ~damaged => Stuck \/ \E rs, o, e : Tidy(rs, o, e)
Fresh == ~damaged => \A i \in 1 .. Len(buffer) :
           ~Has(file, tail + i, buffer[i]) /\ ~Has(disk, tail + i, buffer[i])
Numbered == Below({file, disk, buffer}, Len(sizes) + 1)
Idle == st # "Open" => buffer = <<>>
LogInd == WalInd /\ Clean /\ Fresh /\ Numbered /\ Idle

TidyEntries == \A rs, o, e : Tidy(rs, o, e) => Entries = rs

LEMMA SameSeq ==
  ASSUME NEW R, NEW s \in Seq(R), NEW t \in Seq(R), Len(s) = Len(t),
         \A i \in 1 .. Len(s) : s[i] = t[i]
  PROVE  s = t
OBVIOUS

LEMMA TidyShown == TypeOK => TidyEntries
<1> SUFFICES ASSUME TypeOK, NEW rs, NEW o, NEW e, Tidy(rs, o, e) PROVE Entries = rs
  BY DEF TidyEntries
<1>1. /\ rs \in Seq(Record) /\ Laid(sizes, Image, rs, o, e) /\ StartsAt(o, 0)
      /\ NoneBut(sizes, Files, rs, o)
  BY DEF Tidy
<1>2. ScanFacts
  BY ScanKnown
<1>3. PICK q : Laid(sizes, Image, Entries, q, Scan(Image).pos) /\ StartsAt(q, 0)
  BY <1>2 DEF ScanFacts
<1>4. Entries \in Seq(Record)
      /\ Len(rs) <= Len(Entries) /\ \A j \in 1 .. Len(rs) : Entries[j] = rs[j]
  BY <1>1, <1>2 DEF ScanFacts
<1>5. PICK F, d : F = Files /\ d = Scan(Image).pos
  OBVIOUS
<1>a. PICK sz \in Seq(Nat), m \in Seq(Cell), ts \in Seq(Record) :
        sz = sizes /\ m = Image /\ ts = Entries
  BY <1>4, Known, ImageType
<1>6. m \in F /\ Len(m) \in Nat
  BY <1>5, <1>a DEF Files
<1>7. Laid(sz, m, rs, o, e) /\ Laid(sz, m, ts, q, d) /\ NoneBut(sz, F, rs, o)
  BY <1>1, <1>3, <1>5, <1>a
<1>8. Len(ts) <= Len(rs)
  BY <1>1, <1>3, <1>6, <1>7, Settles
<1>9. Len(rs) = Len(ts) /\ \A j \in 1 .. Len(rs) : rs[j] = ts[j]
  BY <1>1, <1>4, <1>a, <1>8
<1> QED BY <1>1, <1>a, <1>9, SameSeq

LEMMA TidyShownNext == TypeOK' => TidyEntries'
BY TidyShown, PTL

(* Each cell of the image is one of the file or of the buffer.              *)
LEMMA ImageCells ==
  ASSUME TypeOK, Quiet
  PROVE  /\ Len(file) <= Len(Image) /\ Image \in Seq(Cell)
         /\ \A i \in 1 .. tail : Image[i] = file[i]
         /\ \A i \in 1 .. Len(buffer) : Image[tail + i] = buffer[i] /\ tail + i <= Len(Image)
         /\ \A i \in 1 .. Len(Image) : Has(file, i, Image[i])
              \/ \E c \in 1 .. Len(buffer) : i = tail + c /\ Image[i] = buffer[c]
<1>0. /\ file \in Seq(Cell) /\ buffer \in Seq(Cell) /\ Len(file) \in Nat /\ Len(buffer) \in Nat
      /\ cursor \in 0 .. Len(file) /\ tail \in 0 .. Len(file)
  BY Known
<1>1. CASE buffer = <<>>
  <2>1. Image = file /\ Len(buffer) = 0
    BY <1>1 DEF Image
  <2> QED BY <1>0, <2>1 DEF Has
<1>2. CASE buffer # <<>>
  <2>1. Image = Write(file, tail, buffer)
    BY <1>2, ImageIs DEF Quiet
  <2>2. PICK m : m = Image
    OBVIOUS
  <2>3. /\ m \in Seq(Cell)
        /\ Len(m) = IF tail + Len(buffer) > Len(file) THEN tail + Len(buffer) ELSE Len(file)
        /\ \A i \in 1 .. tail : m[i] = file[i]
        /\ \A i \in 1 .. Len(buffer) : m[tail + i] = buffer[i]
        /\ \A i \in tail + Len(buffer) + 1 .. Len(file) : m[i] = file[i]
    BY <1>0, <2>1, <2>2, WriteShape
  <2>4. Len(m) \in Nat /\ Len(file) <= Len(m) /\ tail + Len(buffer) <= Len(m)
    BY <1>0, <2>3
  <2>5. ASSUME NEW i \in 1 .. Len(m)
        PROVE  Has(file, i, m[i]) \/ \E c \in 1 .. Len(buffer) : i = tail + c /\ m[i] = buffer[c]
    <3>1. CASE i <= tail
      BY <1>0, <2>3, <3>1 DEF Has
    <3>2. CASE i > tail /\ i <= tail + Len(buffer)
      <4>1. PICK c \in 1 .. Len(buffer) : i = tail + c
        <5>1. i - tail \in 1 .. Len(buffer) /\ i = tail + (i - tail)
          BY <1>0, <2>4, <3>2
        <5> QED BY <5>1
      <4> QED BY <2>3, <4>1
    <3>3. CASE i > tail + Len(buffer)
      <4>1. i \in tail + Len(buffer) + 1 .. Len(file)
        BY <1>0, <2>3, <2>4, <3>3
      <4>2. i \in 1 .. Len(file)
        BY <1>0, <4>1
      <4> QED BY <2>3, <4>1, <4>2 DEF Has
    <3> QED BY <1>0, <2>4, <3>1, <3>2, <3>3
  <2>6. \A i \in 1 .. Len(buffer) : m[tail + i] = buffer[i] /\ tail + i <= Len(m)
    BY <1>0, <2>3, <2>4
  <2> QED BY <2>2, <2>3, <2>4, <2>5, <2>6
<1> QED BY <1>1, <1>2

LEMMA FilesBelow ==
  ASSUME TypeOK, Quiet, Numbered PROVE Below(Files, Len(sizes) + 1)
<1>1. \A i \in 1 .. Len(Image) : Has(file, i, Image[i])
              \/ \E c \in 1 .. Len(buffer) : i = tail + c /\ Image[i] = buffer[c]
  BY ImageCells
<1>2. ASSUME NEW i \in 1 .. Len(Image) PROVE Image[i][1] \in Nat /\ Image[i][1] < Len(sizes) + 1
  <2>1. CASE Has(file, i, Image[i])
    BY <2>1 DEF Numbered, Below, Has
  <2>2. CASE \E c \in 1 .. Len(buffer) : i = tail + c /\ Image[i] = buffer[c]
    BY <2>2 DEF Numbered, Below
  <2> QED BY <1>1, <2>1, <2>2
<1> QED BY <1>2 DEF Files, Numbered, Below

(* A record more that stands nowhere yet, and fewer files.                  *)
Longer(sz, szn) == szn = sz \/ \E p \in Nat : szn = Append(sz, p)

LEMMA LongerIs ==
  ASSUME NEW sz \in Seq(Nat), NEW szn, Longer(sz, szn)
  PROVE  /\ szn \in Seq(Nat) /\ Len(szn) \in Nat /\ Len(sz) <= Len(szn) /\ Len(szn) <= Len(sz) + 1
         /\ \A k \in 1 .. Len(sz) : Span(szn, k) = Span(sz, k)
<1>1. CASE szn = sz
  BY <1>1
<1>2. CASE \E p \in Nat : szn = Append(sz, p)
  BY <1>2, SpanLater
<1> QED BY <1>1, <1>2 DEF Longer

LEMMA LaidLonger ==
  ASSUME NEW sz \in Seq(Nat), NEW szn, Longer(sz, szn), NEW f, NEW rs, NEW o, NEW e,
         Laid(sz, f, rs, o, e)
  PROVE  Laid(szn, f, rs, o, e)
BY LaidLater DEF Longer

LEMMA NoneButLater ==
  ASSUME NEW sz \in Seq(Nat), NEW szn, Longer(sz, szn), NEW F, NEW G, NEW rs, NEW o,
         Below(F, Len(sz) + 1), NoneBut(sz, F, rs, o),
         \A g \in G : \A i, c : Has(g, i, c) => \E f \in F : Has(f, i, c)
  PROVE  NoneBut(szn, G, rs, o)
<1> SUFFICES ASSUME NEW k \in 1 .. Len(szn), NEW b \in Nat, Whole(szn, G, k, b)
             PROVE  \E j \in 1 .. Len(rs) : rs[j] = k /\ o[j] = b
  BY DEF NoneBut
<1>0. /\ szn \in Seq(Nat) /\ Len(szn) \in Nat /\ Len(sz) <= Len(szn) /\ Len(szn) <= Len(sz) + 1
      /\ \A n \in 1 .. Len(sz) : Span(szn, n) = Span(sz, n)
  BY LongerIs
<1>1. Span(szn, k) \in Nat /\ Span(szn, k) >= 3
  BY <1>0, SpanBig
<1>2. Whole(szn, F, k, b)
  BY DEF Whole
<1>3. k \in 1 .. Len(sz)
  <2>1. PICK f \in F : Has(f, b + 1, <<k, 1>>)
    <3>1. 1 \in 1 .. Span(szn, k)
      BY <1>1
    <3> QED BY <1>2, <3>1 DEF Whole
  <2>2. b + 1 \in 1 .. Len(f) /\ f[b + 1][1] = k
    BY <2>1 DEF Has
  <2>3. k < Len(sz) + 1
    BY <2>2 DEF Below
  <2> QED BY <2>3
<1>4. Whole(sz, F, k, b)
  BY <1>0, <1>2, <1>3 DEF Whole
<1> QED BY <1>3, <1>4 DEF NoneBut

LEMMA DownwardLater ==
  ASSUME NEW sz \in Seq(Nat), NEW szn, Longer(sz, szn), NEW g, NEW rs, NEW o,
         \A j \in 1 .. Len(rs) : rs[j] \in 1 .. Len(sz), Downward(sz, g, rs, o)
  PROVE  Downward(szn, g, rs, o)
<1>0. \A n \in 1 .. Len(sz) : Span(szn, n) = Span(sz, n)
  BY LongerIs
<1>1. \A j \in 1 .. Len(rs) : Whole(szn, {g}, rs[j], o[j]) <=> Whole(sz, {g}, rs[j], o[j])
  BY <1>0 DEF Whole
<1> QED BY <1>1 DEF Downward

LEMMA DownwardLaid ==
  ASSUME NEW sz \in Seq(Nat), NEW g, Len(g) \in Nat, NEW rs, Len(rs) \in Nat, NEW o, NEW e,
         Laid(sz, g, rs, o, e)
  PROVE  Downward(sz, g, rs, o)
<1>1. \A j \in 1 .. Len(rs) : Whole(sz, {g}, rs[j], o[j])
  <2> TAKE j \in 1 .. Len(rs)
  <2>1. PICK F : F = {g}
    OBVIOUS
  <2>2. g \in F
    BY <2>1
  <2>3. Whole(sz, F, rs[j], o[j])
    BY <2>2, LaidWhole
  <2> QED BY <2>1, <2>3
<1> QED BY <1>1 DEF Downward

(* A step that leaves the log as the next flush makes it.                   *)
LEMMA CleanSame ==
  ASSUME TypeOK, Quiet, Numbered, Clean, Grown, Image' = Image, damaged' = damaged,
         file' \in Files, disk' = disk \/ disk' = Image, Stuck => Stuck',
         st' # "None" => st # "None" /\ log' = log /\ tail' + Len(buffer') = tail + Len(buffer)
  PROVE  Clean'
<1> SUFFICES ASSUME ~damaged, ~Stuck PROVE \E rs, o, e : Tidy(rs, o, e)'
  BY DEF Clean
<1>1. PICK rs, o, e : Tidy(rs, o, e)
  BY DEF Clean
<1>2. /\ rs \in Seq(Record) /\ Laid(sizes, Image, rs, o, e) /\ StartsAt(o, 0)
      /\ (st # "None" => rs = log /\ e = tail + Len(buffer))
      /\ NoneBut(sizes, Files, rs, o) /\ Downward(sizes, disk, rs, o)
  BY <1>1 DEF Tidy
<1>3. PICK sz \in Seq(Nat), m \in Seq(Cell) : sz = sizes /\ m = Image
  BY Known, ImageType
<1>4. PICK szn, F, G, g : szn = sizes' /\ F = Files /\ G = Files' /\ g = disk'
  OBVIOUS
<1>5. Longer(sz, szn)
  BY <1>3, <1>4 DEF Grown, Longer
<1>6. Laid(sz, m, rs, o, e) /\ Laid(szn, m, rs, o, e) /\ szn \in Seq(Nat)
  <2>1. Laid(sz, m, rs, o, e)
    BY <1>2, <1>3
  <2> QED BY <1>5, <2>1, LaidLonger, LongerIs
<1>7. NoneBut(szn, G, rs, o)
  <2>1. Below(F, Len(sz) + 1)
    BY <1>3, <1>4, FilesBelow
  <2>2. NoneBut(sz, F, rs, o)
    BY <1>2, <1>3, <1>4
  <2>3. G \subseteq F
    BY <1>4 DEF Files
  <2>4. \A x \in G : \A i, c : Has(x, i, c) => \E f \in F : Has(f, i, c)
    BY <2>3
  <2> QED BY <1>5, <2>1, <2>2, <2>4, NoneButLater
<1>8. Downward(szn, g, rs, o)
  <2>1. CASE disk' = disk
    <3>1. Downward(sz, g, rs, o)
      BY <1>2, <1>3, <1>4, <2>1
    <3>2. \A j \in 1 .. Len(rs) : rs[j] \in 1 .. Len(sz)
      BY <1>6 DEF Laid
    <3> QED BY <1>5, <3>1, <3>2, DownwardLater
  <2>2. CASE disk' = Image
    <3>1. g = m /\ Len(m) \in Nat /\ Len(rs) \in Nat
      BY <1>2, <1>3, <1>4, <2>2
    <3> QED BY <1>6, <3>1, DownwardLaid
  <2> QED BY <2>1, <2>2
<1>9. Tidy(rs, o, e)'
  BY <1>2, <1>3, <1>4, <1>6, <1>7, <1>8 DEF Tidy
<1> QED BY <1>9

-------------------------------------------------------------------------------
(* Cells of a new record, written at e.                                     *)
LEMMA WriteMixed ==
  ASSUME NEW C, NEW F, NEW f \in Seq(C), f \in F, NEW e \in 0 .. Len(f), NEW n,
         NEW d \in Seq(C), \A c \in 1 .. Len(d) : d[c] = <<n, c>>
  PROVE  Mixed(Write(f, e, d), F, n, e)
<1>0. Len(f) \in Nat /\ Len(d) \in Nat /\ e \in Nat
  OBVIOUS
<1>1. PICK m : m = Write(f, e, d)
  OBVIOUS
<1>2. /\ m \in Seq(C)
      /\ Len(m) = IF e + Len(d) > Len(f) THEN e + Len(d) ELSE Len(f)
      /\ \A i \in 1 .. e : m[i] = f[i]
      /\ \A i \in 1 .. Len(d) : m[e + i] = d[i]
      /\ \A i \in e + Len(d) + 1 .. Len(f) : m[i] = f[i]
  BY <1>1, WriteShape
<1>3. ASSUME NEW i \in 1 .. Len(m)
      PROVE  (\E g \in F : Has(g, i, m[i])) \/ \E c \in Nat \ {0} : i = e + c /\ m[i] = <<n, c>>
  <2>1. CASE i <= e
    <3>1. i \in 1 .. e /\ i \in 1 .. Len(f)
      BY <1>0, <1>2, <2>1
    <3>2. Has(f, i, m[i])
      BY <1>2, <3>1 DEF Has
    <3> QED BY <3>2
  <2>2. CASE i > e /\ i <= e + Len(d)
    <3>1. PICK c \in 1 .. Len(d) : i = e + c
      <4>1. i - e \in 1 .. Len(d) /\ i = e + (i - e)
        BY <1>0, <1>2, <2>2
      <4> QED BY <4>1
    <3>2. c \in Nat \ {0} /\ m[i] = <<n, c>>
      BY <1>0, <1>2, <3>1
    <3> QED BY <3>1, <3>2
  <2>3. CASE i > e + Len(d)
    <3>1. i \in e + Len(d) + 1 .. Len(f) /\ i \in 1 .. Len(f)
      BY <1>0, <1>2, <2>3
    <3>2. Has(f, i, m[i])
      BY <1>2, <3>1 DEF Has
    <3> QED BY <3>2
  <2> QED BY <1>0, <1>2, <2>1, <2>2, <2>3
<1> QED BY <1>1, <1>3 DEF Mixed

LEMMA SelfMixed ==
  ASSUME NEW F, NEW f \in F, NEW n, NEW e PROVE Mixed(f, F, n, e)
BY DEF Mixed, Has

(* The new record is not on the disk.                                       *)
LEMMA DownwardAppend ==
  ASSUME NEW sz \in Seq(Nat), NEW p \in Nat, NEW g, NEW R, NEW rs \in Seq(R), NEW o, NEW q,
         \A j \in 1 .. Len(rs) : rs[j] \in 1 .. Len(sz), Downward(sz, g, rs, o),
         \A k \in 1 .. Len(rs) + 1 : q[k] = o[k], NEW F, g \in F, Below(F, Len(sz) + 1)
  PROVE  Downward(Append(sz, p), g, Append(rs, Len(sz) + 1), q)
<1> DEFINE N == Len(sz) + 1
<1>1. PICK sp, ts : sp = Append(sz, p) /\ ts = Append(rs, N)
  OBVIOUS
<1>2. /\ sp \in Seq(Nat) /\ Len(sp) = N
      /\ \A k \in 1 .. Len(sz) : Span(sp, k) = Span(sz, k)
  BY <1>1, SpanLater
<1>3. /\ Len(rs) \in Nat /\ Len(ts) = Len(rs) + 1 /\ ts[Len(rs) + 1] = N
      /\ \A k \in 1 .. Len(rs) : ts[k] = rs[k]
  BY <1>1
<1>4. ASSUME NEW i \in 1 .. Len(ts), NEW j \in 1 .. Len(ts), i < j, Whole(sp, {g}, ts[j], q[j])
      PROVE  Whole(sp, {g}, ts[i], q[i])
  <2>1. j # Len(rs) + 1
    <3> SUFFICES ASSUME j = Len(rs) + 1 PROVE FALSE
      OBVIOUS
    <3>1. ts[j] = N /\ Span(sp, N) \in Nat /\ Span(sp, N) >= 3
      BY <1>2, <1>3, SpanBig
    <3>2. Has(g, q[j] + 1, <<N, 1>>)
      <4>1. 1 \in 1 .. Span(sp, ts[j])
        BY <3>1
      <4> QED BY <1>4, <3>1, <4>1 DEF Whole
    <3>3. q[j] + 1 \in 1 .. Len(g) /\ g[q[j] + 1][1] = N
      BY <3>2 DEF Has
    <3>4. g[q[j] + 1][1] < N /\ N \in Nat
      BY <3>3 DEF Below
    <3> QED BY <3>3, <3>4
  <2>2. i \in 1 .. Len(rs) /\ j \in 1 .. Len(rs) /\ i \in 1 .. Len(rs) + 1 /\ j \in 1 .. Len(rs) + 1
    <3>1. PICK l \in Nat : l = Len(rs)
      BY <1>3
    <3>2. i \in 1 .. l + 1 /\ j \in 1 .. l + 1 /\ i < j /\ j # l + 1
      BY <1>3, <1>4, <2>1, <3>1
    <3>3. i \in 1 .. l /\ j \in 1 .. l
      BY <3>2
    <3> QED BY <3>1, <3>2, <3>3
  <2>3. ts[i] = rs[i] /\ ts[j] = rs[j] /\ q[i] = o[i] /\ q[j] = o[j]
        /\ Span(sp, rs[i]) = Span(sz, rs[i]) /\ Span(sp, rs[j]) = Span(sz, rs[j])
    BY <1>2, <1>3, <2>2
  <2>4. Whole(sz, {g}, rs[j], o[j])
    BY <1>4, <2>3 DEF Whole
  <2>5. Whole(sz, {g}, rs[i], o[i])
    BY <1>4, <2>2, <2>4 DEF Downward
  <2> QED BY <2>3, <2>5 DEF Whole
<1> QED BY <1>1, <1>4 DEF Downward

LEMMA CleanAppend ==
  ASSUME TypeOK, TypeOK', Quiet, Numbered, Clean, NEW p \in Payloads, NewRecord(p),
         st' = st, damaged' = damaged, disk' = disk, log' = Append(log, Len(sizes) + 1),
         Image' = Write(Image, tail + Len(buffer), Cells(Len(sizes) + 1, p)),
         tail' + Len(buffer') = tail + Len(buffer) + Len(Cells(Len(sizes) + 1, p)),
         file' \in {file, Image, Image'}
  PROVE  Clean'
<1> SUFFICES ASSUME ~damaged PROVE \E rs, o, e : Tidy(rs, o, e)'
  BY DEF Clean
<1>0. st = "Open" /\ sizes' = Append(sizes, p)
  BY DEF NewRecord
<1>1. PICK rs, o, e : Tidy(rs, o, e)
  BY <1>0 DEF Clean, Stuck
<1>2. /\ rs \in Seq(Record) /\ Laid(sizes, Image, rs, o, e) /\ StartsAt(o, 0)
      /\ rs = log /\ e = tail + Len(buffer)
      /\ NoneBut(sizes, Files, rs, o) /\ Downward(sizes, disk, rs, o)
  BY <1>0, <1>1 DEF Tidy
<1>3. PICK sz \in Seq(Nat), m \in Seq(Cell) : sz = sizes /\ m = Image
  BY Known, ImageType
<1>4. PICK F, G, g : F = Files /\ G = Files' /\ g = disk
  OBVIOUS
<1>5. PICK N \in Nat : N = Len(sz) + 1
  OBVIOUS
<1>6. PICK cs : cs = Cells(N, p)
  OBVIOUS
<1>7. p \in Nat /\ cs \in Seq(Cell) /\ \A c \in 1 .. Len(cs) : cs[c] = <<N, c>>
  <2>1. p \in Nat /\ cs \in Seq(Cell)
    BY <1>3, <1>5, <1>6, RecordType
  <2> QED BY <1>5, <1>6, <2>1, CellsShape
<1>8. PICK h : h = Write(m, e, cs)
  OBVIOUS
<1>9. Laid(sz, m, rs, o, e) /\ NoneBut(sz, F, rs, o) /\ Downward(sz, g, rs, o) /\ Below(F, N)
      /\ m \in F /\ g \in F /\ Len(m) \in Nat
  BY <1>2, <1>3, <1>4, <1>5, FilesBelow DEF Files
<1>10. e \in 0 .. Len(m)
  BY <1>9 DEF Laid
<1>11. \E q, d : /\ Laid(Append(sz, p), h, Append(rs, N), q, d)
                 /\ d = e + Len(cs) /\ StartsAt(q, o[1])
  BY <1>2, <1>5, <1>6, <1>7, <1>8, <1>9, LaidAppend
<1>12. PICK q, d : /\ Laid(Append(sz, p), h, Append(rs, N), q, d)
                  /\ d = e + Len(cs) /\ StartsAt(q, o[1])
  BY <1>11
<1>13. h \in Seq(Cell) /\ Len(h) \in Nat
  <2>1. h \in Seq(Cell)
    BY <1>7, <1>8, <1>10, WriteShape
  <2> QED BY <2>1
<1>14. AllMixed(G, F, N, e)
  <2>1. G \subseteq {file, disk, Image, h}
    BY <1>2, <1>3, <1>4, <1>5, <1>6, <1>8 DEF Files
  <2>2. Mixed(h, F, N, e)
    BY <1>7, <1>8, <1>9, <1>10, WriteMixed
  <2>3. \A x \in F : Mixed(x, F, N, e)
    BY SelfMixed
  <2> QED BY <1>4, <2>1, <2>2, <2>3 DEF Files, AllMixed
<1>15. /\ NoneBut(Append(sz, p), G, Append(rs, N), q)
       /\ \A k \in 1 .. Len(rs) + 1 : q[k] = o[k]
  <2>1. q[1] = o[1]
    BY <1>12 DEF StartsAt
  <2>2. /\ Laid(Append(sz, p), h, Append(rs, Len(sz) + 1), q, d) /\ Below(F, Len(sz) + 1)
        /\ AllMixed(G, F, Len(sz) + 1, e)
    BY <1>5, <1>9, <1>12, <1>14
  <2>3. /\ NoneBut(Append(sz, p), G, Append(rs, Len(sz) + 1), q)
        /\ \A k \in 1 .. Len(rs) + 1 : q[k] = o[k]
    BY <1>2, <1>7, <1>9, <1>13, <2>1, <2>2, AppendNoneBut
  <2> QED BY <1>5, <2>3
<1>16. Downward(Append(sz, p), g, Append(rs, N), q)
  <2>1. \A j \in 1 .. Len(rs) : rs[j] \in 1 .. Len(sz)
    BY <1>9 DEF Laid
  <2>2. Below(F, Len(sz) + 1)
    BY <1>5, <1>9
  <2>3. Downward(Append(sz, p), g, Append(rs, Len(sz) + 1), q)
    BY <1>2, <1>7, <1>9, <1>15, <2>1, <2>2, DownwardAppend
  <2> QED BY <1>5, <2>3
<1>17. StartsAt(q, 0)
  BY <1>2, <1>12 DEF StartsAt
<1>18. PICK ts : ts = Append(rs, N)
  OBVIOUS
<1>19. /\ ts \in Seq(Record) /\ ts = log'
  <2>1. log' \in Seq(Record)
    BY DEF TypeOK
  <2> QED BY <1>2, <1>3, <1>5, <1>18, <2>1
<1>20. /\ Image' = h /\ d = tail' + Len(buffer') /\ sizes' = Append(sz, p) /\ disk' = g
  BY <1>0, <1>2, <1>3, <1>4, <1>5, <1>6, <1>8, <1>12
<1>21. Tidy(ts, q, d)'
  BY <1>4, <1>12, <1>15, <1>16, <1>17, <1>18, <1>19, <1>20 DEF Tidy
<1> QED BY <1>21

-------------------------------------------------------------------------------
(* h is f after a write of buf and then cs at t that stopped after n cells.  *)
Cut(h, f, t, buf, cs, n) ==
  /\ Len(h) \in Nat /\ t + n <= Len(h)
  /\ \A i \in 1 .. Len(h) :
       \/ i <= t /\ Has(f, i, h[i])
       \/ i <= t + n /\ \E c \in 1 .. Len(buf) : i = t + c /\ h[i] = buf[c]
       \/ i <= t + n /\ \E c \in 1 .. Len(cs) : i = t + Len(buf) + c /\ h[i] = cs[c]
       \/ i > t + n /\ Has(f, i, h[i])

(* d is the beginning of buf and then cs.                                   *)
Begins(d, buf, cs) ==
  \A k \in 1 .. Len(d) : \/ k \in 1 .. Len(buf) /\ d[k] = buf[k]
                         \/ \E c \in 1 .. Len(cs) : k = Len(buf) + c /\ d[k] = cs[c]

(* The same of a file that is named.                                        *)
LEMMA WriteIs ==
  ASSUME NEW C, NEW f \in Seq(C), NEW d \in Seq(C), NEW t \in 0 .. Len(f), NEW m, m = Write(f, t, d)
  PROVE  /\ m \in Seq(C)
         /\ Len(m) = IF t + Len(d) > Len(f) THEN t + Len(d) ELSE Len(f)
         /\ \A i \in 1 .. t : m[i] = f[i]
         /\ \A i \in 1 .. Len(d) : m[t + i] = d[i]
         /\ \A i \in t + Len(d) + 1 .. Len(f) : m[i] = f[i]
BY WriteShape

LEMMA CutShape ==
  ASSUME NEW C, NEW f \in Seq(C), NEW d \in Seq(C), NEW t \in 0 .. Len(f),
         NEW buf, NEW cs, Len(buf) \in Nat, Len(cs) \in Nat, Begins(d, buf, cs)
  PROVE  Cut(Write(f, t, d), f, t, buf, cs, Len(d))
<1>0. Len(f) \in Nat /\ Len(d) \in Nat /\ t \in Nat
  OBVIOUS
<1>1. PICK m : m = Write(f, t, d)
  OBVIOUS
<1>2. /\ m \in Seq(C)
      /\ Len(m) = IF t + Len(d) > Len(f) THEN t + Len(d) ELSE Len(f)
      /\ \A i \in 1 .. t : m[i] = f[i]
      /\ \A i \in 1 .. Len(d) : m[t + i] = d[i]
      /\ \A i \in t + Len(d) + 1 .. Len(f) : m[i] = f[i]
  BY <1>1, WriteIs
<1>3. Len(m) \in Nat /\ t + Len(d) <= Len(m)
  BY <1>0, <1>2
<1>4. ASSUME NEW i \in 1 .. Len(m)
      PROVE  \/ i <= t /\ Has(f, i, m[i])
             \/ i <= t + Len(d) /\ \E c \in 1 .. Len(buf) : i = t + c /\ m[i] = buf[c]
             \/ i <= t + Len(d) /\ \E c \in 1 .. Len(cs) : i = t + Len(buf) + c /\ m[i] = cs[c]
             \/ i > t + Len(d) /\ Has(f, i, m[i])
  <2>1. CASE i <= t
    <3>1. i \in 1 .. t /\ i \in 1 .. Len(f)
      BY <1>0, <1>3, <2>1
    <3> QED BY <1>2, <2>1, <3>1 DEF Has
  <2>2. CASE i > t /\ i <= t + Len(d)
    <3>1. PICK k \in 1 .. Len(d) : i = t + k
      <4>1. i - t \in 1 .. Len(d) /\ i = t + (i - t)
        BY <1>0, <1>3, <2>2
      <4> QED BY <4>1
    <3>2. m[i] = d[k]
      BY <1>2, <3>1
    <3>3. CASE k \in 1 .. Len(buf) /\ d[k] = buf[k]
      BY <2>2, <3>1, <3>2, <3>3
    <3>4. CASE \E c \in 1 .. Len(cs) : k = Len(buf) + c /\ d[k] = cs[c]
      <4>1. PICK c \in 1 .. Len(cs) : k = Len(buf) + c /\ d[k] = cs[c]
        BY <3>4
      <4>2. i = t + Len(buf) + c
        BY <1>0, <3>1, <4>1
      <4> QED BY <2>2, <3>2, <4>1, <4>2
    <3> QED BY <3>3, <3>4 DEF Begins
  <2>3. CASE i > t + Len(d)
    <3>1. i \in t + Len(d) + 1 .. Len(f) /\ i \in 1 .. Len(f)
      BY <1>0, <1>2, <1>3, <2>3
    <3> QED BY <1>2, <2>3, <3>1 DEF Has
  <2> QED BY <1>0, <1>3, <2>1, <2>2, <2>3
<1> QED BY <1>1, <1>3, <1>4 DEF Cut

(* Of the new record of a cut write not all cells are there.                *)
LEMMA CutNoneBut ==
  ASSUME NEW sz \in Seq(Nat), NEW szn, Longer(sz, szn), NEW F, NEW G, NEW rs, NEW o, NEW e,
         NoneBut(sz, F, rs, o), AllMixed(G, F, Len(sz) + 1, e),
         Len(szn) = Len(sz) + 1
           => \A g \in G, b \in Nat : ~Has(g, b, <<Len(sz) + 1, Span(szn, Len(sz) + 1)>>)
  PROVE  NoneBut(szn, G, rs, o)
<1> SUFFICES ASSUME NEW k \in 1 .. Len(szn), NEW b \in Nat, Whole(szn, G, k, b)
             PROVE  \E j \in 1 .. Len(rs) : rs[j] = k /\ o[j] = b
  BY DEF NoneBut
<1>0. /\ szn \in Seq(Nat) /\ Len(szn) \in Nat /\ Len(sz) <= Len(szn) /\ Len(szn) <= Len(sz) + 1
      /\ \A n \in 1 .. Len(sz) : Span(szn, n) = Span(sz, n)
  BY LongerIs
<1>1. PICK w \in Nat : w = Span(szn, k) /\ w >= 3
  BY <1>0, SpanBig
<1>2. k \in 1 .. Len(sz)
  <2> SUFFICES ASSUME k = Len(sz) + 1 PROVE FALSE
    BY <1>0
  <2>1. w \in 1 .. Span(szn, k)
    BY <1>1
  <2>2. PICK g \in G : Has(g, b + w, <<k, w>>)
    BY <2>1 DEF Whole
  <2>3. Len(szn) = Len(sz) + 1 /\ b + w \in Nat
    BY <1>0
  <2> QED BY <1>1, <2>2, <2>3
<1>3. ASSUME NEW i \in 1 .. Span(sz, k) PROVE \E f \in F : Has(f, b + i, <<k, i>>)
  <2>1. PICK g \in G : Has(g, b + i, <<k, i>>)
    BY <1>0, <1>2 DEF Whole
  <2>2. b + i \in 1 .. Len(g) /\ g[b + i] = <<k, i>>
    BY <2>1 DEF Has
  <2>3. ~\E c \in Nat \ {0} : b + i = e + c /\ g[b + i] = <<Len(sz) + 1, c>>
    <3>1. k # Len(sz) + 1
      BY <1>2
    <3> QED BY <2>2, <3>1
  <2> QED BY <2>2, <2>3 DEF AllMixed, Mixed
<1>4. Whole(sz, F, k, b)
  BY <1>3 DEF Whole
<1> QED BY <1>2, <1>4 DEF NoneBut

LEMMA DownwardFront ==
  ASSUME NEW sz, NEW g, NEW rs, NEW o, Downward(sz, g, rs, o), Len(rs) \in Nat,
         NEW ts, NEW q, Len(ts) \in Nat, Len(ts) <= Len(rs), \A k \in 1 .. Len(ts) : ts[k] = rs[k],
         \A k \in 1 .. Len(ts) + 1 : q[k] = o[k]
  PROVE  Downward(sz, g, ts, q)
<1> SUFFICES ASSUME NEW i \in 1 .. Len(ts), NEW j \in 1 .. Len(ts), i < j,
                    Whole(sz, {g}, ts[j], q[j])
             PROVE  Whole(sz, {g}, ts[i], q[i])
  BY DEF Downward
<1>1. /\ i \in 1 .. Len(rs) /\ j \in 1 .. Len(rs)
      /\ i \in 1 .. Len(ts) + 1 /\ j \in 1 .. Len(ts) + 1
  OBVIOUS
<1>2. ts[i] = rs[i] /\ ts[j] = rs[j] /\ q[i] = o[i] /\ q[j] = o[j]
  BY <1>1
<1>3. Whole(sz, {g}, rs[i], o[i])
  BY <1>1, <1>2 DEF Downward
<1> QED BY <1>2, <1>3

(* A cut write leaves cells of the files, and of the new record.            *)
LEMMA CutMixed ==
  ASSUME NEW F, NEW f \in F, NEW m \in F, NEW h, NEW t, NEW buf, NEW cs, NEW n,
         Cut(h, f, t, buf, cs, n), NEW r, NEW e, e = t + Len(buf), Len(cs) \in Nat,
         \A c \in 1 .. Len(buf) : Has(m, t + c, buf[c]),
         \A c \in 1 .. Len(cs) : cs[c] = <<r, c>>
  PROVE  Mixed(h, F, r, e)
<1> SUFFICES ASSUME NEW i \in 1 .. Len(h)
             PROVE  \/ \E g \in F : Has(g, i, h[i])
                    \/ \E c \in Nat \ {0} : i = e + c /\ h[i] = <<r, c>>
  BY DEF Mixed
<1>1. CASE Has(f, i, h[i])
  BY <1>1
<1>2. CASE \E c \in 1 .. Len(buf) : i = t + c /\ h[i] = buf[c]
  BY <1>2
<1>3. CASE \E c \in 1 .. Len(cs) : i = t + Len(buf) + c /\ h[i] = cs[c]
  <2>1. PICK c \in 1 .. Len(cs) : i = t + Len(buf) + c /\ h[i] = cs[c]
    BY <1>3
  <2>2. c \in Nat \ {0}
    OBVIOUS
  <2> QED BY <2>1, <2>2
<1> QED BY <1>1, <1>2, <1>3 DEF Cut

(* It leaves the last cell of that record out.                              *)
LEMMA CutLast ==
  ASSUME NEW F, NEW f \in F, NEW m \in F, NEW h, NEW t \in Nat, NEW buf, NEW cs, NEW n \in Nat,
         Cut(h, f, t, buf, cs, n), NEW r \in Nat, Len(cs) \in Nat, Len(buf) \in Nat,
         \A c \in 1 .. Len(buf) : Has(m, t + c, buf[c]),
         \A c \in 1 .. Len(cs) : cs[c] = <<r, c>>, Below(F, r), n < Len(buf) + Len(cs), NEW b
  PROVE  ~Has(h, b, <<r, Len(cs)>>)
<1> SUFFICES ASSUME Has(h, b, <<r, Len(cs)>>) PROVE FALSE
  OBVIOUS
<1>1. b \in 1 .. Len(h) /\ h[b] = <<r, Len(cs)>> /\ Len(h) \in Nat
  BY DEF Has, Cut
<1>2. ASSUME NEW x \in F, Has(x, b, h[b]) PROVE FALSE
  <2>1. b \in 1 .. Len(x) /\ x[b][1] = r
    BY <1>1, <1>2 DEF Has
  <2> QED BY <2>1 DEF Below
<1>3. CASE Has(f, b, h[b])
  BY <1>2, <1>3
<1>4. CASE \E c \in 1 .. Len(buf) : b = t + c /\ h[b] = buf[c]
  BY <1>2, <1>4
<1>5. CASE b <= t + n /\ \E c \in 1 .. Len(cs) : b = t + Len(buf) + c /\ h[b] = cs[c]
  <2>1. PICK c \in 1 .. Len(cs) : b = t + Len(buf) + c /\ h[b] = cs[c]
    BY <1>5
  <2>2. c = Len(cs)
    BY <1>1, <2>1
  <2> QED BY <1>5, <2>1, <2>2
<1> QED BY <1>1, <1>3, <1>4, <1>5 DEF Cut

(* A record that is whole after it had been written as far as its end, for  *)
(* the cells of the buffer stood nowhere.                                   *)
LEMMA CutFound ==
  ASSUME NEW sz \in Seq(Nat), NEW f, NEW g, NEW m, NEW h, NEW t \in Nat, NEW buf, NEW cs,
         NEW n \in Nat, Cut(h, f, t, buf, cs, n), Len(cs) \in Nat, Len(buf) \in Nat, Len(m) \in Nat,
         \A i \in 1 .. t : Has(f, i, m[i]),
         \A c \in 1 .. Len(buf) : Has(m, t + c, buf[c]),
         \A c \in 1 .. Len(buf) : ~Has(f, t + c, buf[c]) /\ ~Has(g, t + c, buf[c]),
         NEW R, NEW rs \in Seq(R), NEW o, NEW e, Laid(sz, m, rs, o, e), e = t + Len(buf),
         NEW j \in 1 .. Len(rs), Whole(sz, {h, g}, rs[j], o[j])
  PROVE  Laid(sz, h, SubSeq(rs, 1, j), [k \in 1 .. j + 1 |-> o[k]], o[j + 1])
<1>0. Len(h) \in Nat /\ t + n <= Len(h) /\ Len(rs) \in Nat /\ j + 1 \in 1 .. Len(rs) + 1
  BY DEF Cut
<1>1. PICK E : E = o[j + 1]
  OBVIOUS
<1>2. /\ o[j] \in Nat /\ E \in Nat /\ E <= e /\ rs[j] \in 1 .. Len(sz)
      /\ E = o[j] + Span(sz, rs[j])
      /\ \A i \in 1 .. Span(sz, rs[j]) : m[o[j] + i] = <<rs[j], i>>
  BY <1>0, <1>1, LaidAt
<1>3. PICK w \in Nat : w = Span(sz, rs[j]) /\ w >= 3
  BY <1>2, SpanBig
<1>4. w \in 1 .. Span(sz, rs[j]) /\ E = o[j] + w
  <2>1. w \in 1 .. w
    BY <1>3
  <2> QED BY <1>2, <1>3, <2>1
<1>a. PICK l \in Nat : l = Len(buf)
  OBVIOUS
<1>b. E <= t + l /\ E \in Nat
  BY <1>2, <1>a
<1>5. E <= t + n
  <2> SUFFICES ASSUME E > t + n PROVE FALSE
    BY <1>2
  <2>1. PICK c \in 1 .. Len(buf) : E = t + c
    <3>1. E - t \in 1 .. l /\ E = t + (E - t)
      BY <1>b
    <3> QED BY <1>a, <3>1
  <2>2. m[E] = <<rs[j], w>> /\ m[E] = buf[c]
    <3>1. m[E] = <<rs[j], w>>
      BY <1>2, <1>4
    <3> QED BY <2>1, <3>1 DEF Has
  <2>3. ~Has(f, E, <<rs[j], w>>) /\ ~Has(g, E, <<rs[j], w>>)
    BY <2>1, <2>2
  <2>4. Has(h, E, <<rs[j], w>>)
    BY <1>4, <2>3 DEF Whole
  <2>5. E \in 1 .. Len(h) /\ h[E] = <<rs[j], w>>
    BY <2>4 DEF Has
  <2>6. ~(E <= t) /\ ~(E <= t + n)
    BY <1>b
  <2>7. Has(f, E, h[E])
    BY <2>5, <2>6 DEF Cut
  <2> QED BY <2>3, <2>5, <2>7
<1>6. ASSUME NEW i \in 1 .. E PROVE h[i] = m[i]
  <2>1. i \in 1 .. Len(h) /\ i <= t + n /\ i <= t + Len(buf)
    <3>1. PICK x \in Nat : x = Len(h)
      BY <1>0
    <3>2. t + n <= x
      BY <1>0, <3>1
    <3>3. i \in 1 .. x /\ i <= t + n /\ i <= t + l
      BY <1>5, <1>b, <3>2
    <3> QED BY <1>a, <3>1, <3>3
  <2>2. CASE i <= t /\ Has(f, i, h[i])
    <3>1. i \in 1 .. t
      BY <2>2
    <3> QED BY <2>2, <3>1 DEF Has
  <2>3. CASE \E c \in 1 .. Len(buf) : i = t + c /\ h[i] = buf[c]
    BY <2>3 DEF Has
  <2>4. ~\E c \in 1 .. Len(cs) : i = t + Len(buf) + c /\ h[i] = cs[c]
    BY <2>1
  <2>5. ~(i > t + n)
    BY <2>1
  <2> QED BY <2>1, <2>2, <2>3, <2>4, <2>5 DEF Cut
<1>7. Laid(sz, m, SubSeq(rs, 1, j), [k \in 1 .. j + 1 |-> o[k]], E)
  BY <1>1, LaidFront
<1>8. PICK ts, q : ts = SubSeq(rs, 1, j) /\ q = [k \in 1 .. j + 1 |-> o[k]]
  OBVIOUS
<1>9. Len(ts) \in Nat /\ Laid(sz, m, ts, q, E)
  BY <1>7, <1>8
<1>10. E <= Len(h)
  BY <1>0, <1>2, <1>5
<1>11. \A k \in 1 .. Len(sz) : Span(sz, k) \in Nat
  BY SpanBig
<1>12. Laid(sz, h, ts, q, E)
  BY <1>0, <1>6, <1>9, <1>10, <1>11, LaidAlike
<1> QED BY <1>1, <1>8, <1>12

(* What a failed or killed write leaves of the file.                        *)
LEMMA CutFile ==
  ASSUME ~AppendAfterReplay, TypeOK, Quiet, NEW p \in {0} \cup Large, NEW n \in Nat,
         n = 0 \/ n < Len(CutData(p)), IF p = 0 THEN UNCHANGED sizes ELSE NewRecord(p)
  PROVE  \E cs : /\ Cut(Write(file, cursor, SubSeq(CutData(p), 1, n)), file, tail, buffer, cs, n)
                 /\ Len(cs) \in Nat /\ \A c \in 1 .. Len(cs) : cs[c] = <<Len(sizes) + 1, c>>
                 /\ p # 0 => Len(cs) = Span(sizes', Len(sizes) + 1) /\ n < Len(buffer) + Len(cs)
                 /\ p = 0 => Len(cs) = 0
<1>1. PICK D, d : D = CutData(p) /\ d = SubSeq(D, 1, n)
  OBVIOUS
<1>2. /\ d \in Seq(Cell) /\ Len(d) = n /\ Len(D) \in Nat
      /\ \A i \in 1 .. n : d[i] = D[i]
  BY <1>1, CutType
<1>3. (d # <<>> => cursor = tail) /\ (p # 0 => st = "Open" /\ cursor = tail /\ ~iter.live)
  BY <1>1, CutQuiet
<1>4a. PICK f \in Seq(Cell) : f = file
  BY Known
<1>4. PICK t \in 0 .. Len(f) : f = file /\ t = tail
  BY <1>4a, Known
<1>5. Write(file, cursor, d) = Write(f, t, d)
  <2>1. CASE d = <<>>
    <3>1. Write(file, cursor, <<>>) = file /\ Write(file, tail, <<>>) = file
      BY Known, WriteNothing
    <3> QED BY <1>4, <2>1, <3>1
  <2>2. CASE d # <<>>
    BY <1>3, <1>4, <2>2
  <2> QED BY <2>1, <2>2
<1>6. Len(buffer) \in Nat /\ buffer \in Seq(Cell) /\ sizes \in Seq(Nat)
  BY Known
<1>7. CASE p = 0
  <2>1. D = buffer /\ n <= Len(buffer)
    <3>1. D = buffer
      BY <1>1, <1>7 DEF CutData
    <3> QED BY <1>1, <1>6, <3>1
  <2>2. PICK cs : cs = <<>>
    OBVIOUS
  <2>3. Len(cs) = 0
    BY <2>2
  <2>4. Begins(d, buffer, cs)
    <3>1. \A k \in 1 .. Len(d) : k \in 1 .. Len(buffer) /\ d[k] = buffer[k]
      BY <1>2, <1>6, <2>1
    <3> QED BY <3>1 DEF Begins
  <2>5. Cut(Write(f, t, d), f, t, buffer, cs, Len(d))
    BY <1>2, <1>6, <2>3, <2>4, CutShape
  <2> QED BY <1>1, <1>2, <1>4, <1>5, <1>7, <2>3, <2>5
<1>8. CASE p # 0
  <2>1. p \in Payloads /\ NewRecord(p) /\ sizes' = Append(sizes, p)
    BY <1>8 DEF Large, NewRecord
  <2>2. PICK N \in Nat : N = Len(sizes) + 1
    BY <1>6
  <2>3. PICK cs : cs = Cells(N, p)
    OBVIOUS
  <2>4. p \in Nat /\ cs \in Seq(Cell)
    BY <2>1, <2>2, <2>3, RecordType
  <2>5. Len(cs) = HeaderSize + p + TrailerSize /\ \A c \in 1 .. Len(cs) : cs[c] = <<N, c>>
    BY <2>3, <2>4, CellsShape
  <2>6. Len(cs) = Span(sizes', N)
    <3>1. ASSUME NEW sz \in Seq(Nat) PROVE Span(Append(sz, p), Len(sz) + 1) = HeaderSize + p + TrailerSize
      BY <2>4, SpanLater
    <3> QED BY <1>6, <2>1, <2>2, <2>5, <3>1
  <2>7. D = buffer \o cs
    BY <1>1, <1>8, <2>2, <2>3 DEF CutData
  <2>8. PICK b \in Seq(Cell), c2 \in Seq(Cell) : b = buffer /\ c2 = cs
    BY <1>6, <2>4
  <2>9. /\ Len(b \o c2) = Len(b) + Len(c2) /\ Len(b) \in Nat /\ Len(c2) \in Nat
        /\ \A k \in 1 .. Len(b) : (b \o c2)[k] = b[k]
        /\ \A k \in 1 .. Len(c2) : (b \o c2)[Len(b) + k] = c2[k]
    OBVIOUS
  <2>10. D = b \o c2 /\ (n < Len(b) + Len(c2) \/ n = 0)
    BY <1>1, <2>7, <2>8, <2>9
  <2>11. Begins(d, b, c2)
    <3> SUFFICES ASSUME NEW k \in 1 .. Len(d)
                 PROVE  \/ k \in 1 .. Len(b) /\ d[k] = b[k]
                        \/ \E c \in 1 .. Len(c2) : k = Len(b) + c /\ d[k] = c2[c]
      BY DEF Begins
    <3>1. d[k] = (b \o c2)[k] /\ k \in 1 .. n /\ n < Len(b) + Len(c2)
      BY <1>2, <2>7, <2>8, <2>10
    <3>2. CASE k <= Len(b)
      <4>1. k \in 1 .. Len(b)
        BY <2>9, <3>2
      <4> QED BY <2>9, <3>1, <4>1
    <3>3. CASE k > Len(b)
      <4>1. PICK c \in 1 .. Len(c2) : k = Len(b) + c
        <5>1. k - Len(b) \in 1 .. Len(c2) /\ k = Len(b) + (k - Len(b))
          BY <2>9, <3>1, <3>3
        <5> QED BY <5>1
      <4> QED BY <2>9, <3>1, <4>1
    <3> QED BY <2>9, <3>2, <3>3
  <2>12. Cut(Write(f, t, d), f, t, b, c2, Len(d))
    BY <1>2, <2>9, <2>11, CutShape
  <2>13. n < Len(b) + Len(c2)
    BY <2>5, <2>8, <2>9, <2>10, <2>4 DEF HeaderSize, TrailerSize
  <2> QED BY <1>1, <1>2, <1>4, <1>5, <1>8, <2>2, <2>5, <2>6, <2>8, <2>9, <2>12, <2>13
<1> QED BY <1>7, <1>8

(* h is one of the files, and the scan of it finds ts: a beginning of what  *)
(* the log showed.                                                          *)
LEMMA ShownPrefix ==
  ASSUME NEW R, NEW rs \in Seq(R), NEW ts \in Seq(R), Len(ts) <= Len(rs),
         \A k \in 1 .. Len(ts) : ts[k] = rs[k]
  PROVE  IsPrefix(ts, rs)
<1>1. \A k \in 1 .. Len(ts) : rs[k] = ts[k]
  OBVIOUS
<1> QED BY <1>1, PrefixIs

(* A kill leaves the files as they are or cuts a write short.               *)
LEMMA CleanKill ==
  ASSUME ~AppendAfterReplay, TypeOK, TypeOK', Quiet, Numbered, Clean, Fresh, ~damaged, st # "None",
         NEW p \in {0} \cup Large, NEW n \in Cuts, Kill(p, n)
  PROVE  Clean' /\ IsPrefix(Entries', Entries)
<1>0. /\ n \in Nat /\ (n = 0 \/ n < Len(CutData(p)))
      /\ (IF p = 0 THEN UNCHANGED sizes ELSE NewRecord(p)) /\ disk' = disk
      /\ file' = Write(file, cursor, SubSeq(CutData(p), 1, n)) /\ LoseProcess
  BY WalAssumption DEF Kill, CutData
<1>1. PICK rs, o, e : Tidy(rs, o, e)
  BY DEF Clean, Stuck
<1>2. /\ rs \in Seq(Record) /\ Laid(sizes, Image, rs, o, e) /\ StartsAt(o, 0)
      /\ rs = log /\ e = tail + Len(buffer) /\ Entries = rs
      /\ NoneBut(sizes, Files, rs, o) /\ Downward(sizes, disk, rs, o)
  <2>1. TidyEntries
    BY TidyShown
  <2> QED BY <1>1, <2>1 DEF Tidy, TidyEntries
<1>3. PICK cs : /\ Cut(file', file, tail, buffer, cs, n)
                /\ Len(cs) \in Nat /\ \A c \in 1 .. Len(cs) : cs[c] = <<Len(sizes) + 1, c>>
                /\ p # 0 => Len(cs) = Span(sizes', Len(sizes) + 1) /\ n < Len(buffer) + Len(cs)
  BY <1>0, CutFile
<1>4. PICK sz \in Seq(Nat), f \in Seq(Cell), g \in Seq(Cell), m \in Seq(Cell), t \in Nat :
        sz = sizes /\ f = file /\ g = disk /\ m = Image /\ t = tail
  BY Known, ImageType
<1>5. PICK F, G, h, szn, buf : F = Files /\ G = {h, g} /\ h = file' /\ szn = sizes' /\ buf = buffer
  OBVIOUS
<1>6. st' = "None" /\ buffer' = <<>> /\ Image' = h /\ Files' = G
  <2>1. st' = "None" /\ buffer' = <<>>
    BY <1>0 DEF LoseProcess, Forget
  <2>2. Image' = file'
    BY <2>1 DEF Image
  <2> QED BY <1>0, <1>4, <1>5, <2>1, <2>2 DEF Files
<1>7. Longer(sz, szn)
  <2>1. Grown
    BY <1>0, CutQuiet
  <2> QED BY <1>4, <1>5, <2>1 DEF Grown, Longer
<1>8. PICK N \in Nat : N = Len(sz) + 1
  OBVIOUS
<1>9. /\ Below(F, N) /\ f \in F /\ g \in F /\ m \in F
      /\ NoneBut(sz, F, rs, o) /\ Downward(sz, g, rs, o) /\ Laid(sz, m, rs, o, e)
      /\ Len(buf) \in Nat /\ e = t + Len(buf) /\ Len(m) \in Nat
  BY <1>2, <1>4, <1>5, <1>8, FilesBelow, Known DEF Files
<1>10. /\ \A i \in 1 .. t : Has(f, i, m[i])
       /\ \A c \in 1 .. Len(buf) : Has(m, t + c, buf[c])
  <2>1. /\ \A i \in 1 .. tail : Image[i] = file[i]
        /\ \A i \in 1 .. Len(buffer) : Image[tail + i] = buffer[i] /\ tail + i <= Len(Image)
    BY ImageCells
  <2>2. tail \in 0 .. Len(file) /\ Len(file) \in Nat /\ Len(buffer) \in Nat
    BY Known
  <2>3. ASSUME NEW i \in 1 .. tail PROVE Has(file, i, Image[i])
    BY <2>1, <2>2 DEF Has
  <2>4. ASSUME NEW c \in 1 .. Len(buffer) PROVE Has(Image, tail + c, buffer[c])
    <3>1. tail + c \in 1 .. Len(Image)
      <4>1. tail + c <= Len(Image) /\ Len(Image) \in Nat
        BY <2>1, ImageType
      <4> QED BY <2>2, <4>1
    <3> QED BY <2>1, <3>1 DEF Has
  <2> QED BY <1>4, <1>5, <2>3, <2>4
<1>11. \A c \in 1 .. Len(buf) : ~Has(f, t + c, buf[c]) /\ ~Has(g, t + c, buf[c])
  BY <1>4, <1>5 DEF Fresh
<1>12. Cut(h, f, t, buf, cs, n) /\ \A c \in 1 .. Len(cs) : cs[c] = <<N, c>>
  BY <1>3, <1>4, <1>5, <1>8
<1>13. NoneBut(szn, G, rs, o)
  <2>1. Mixed(h, F, N, e)
    BY <1>3, <1>9, <1>10, <1>12, CutMixed
  <2>2. Mixed(g, F, N, e)
    BY <1>9, SelfMixed
  <2>3. AllMixed(G, F, N, e)
    BY <1>5, <2>1, <2>2 DEF AllMixed
  <2>4. ASSUME Len(szn) = N, NEW x \in G, NEW b \in Nat PROVE ~Has(x, b, <<N, Span(szn, N)>>)
    <3>1. p # 0
      <4>1. CASE p = 0
        <5>1. szn = sz
          BY <1>0, <1>4, <1>5, <4>1
        <5> QED BY <1>8, <2>4, <5>1
      <4> QED BY <4>1
    <3>2. Len(cs) = Span(szn, N) /\ n < Len(buf) + Len(cs)
      BY <1>3, <1>4, <1>5, <1>8, <3>1
    <3>3. ~Has(h, b, <<N, Len(cs)>>)
      BY <1>0, <1>3, <1>9, <1>10, <1>12, <3>2, CutLast
    <3>4. ~Has(g, b, <<N, Len(cs)>>)
      <4> SUFFICES ASSUME Has(g, b, <<N, Len(cs)>>) PROVE FALSE
        OBVIOUS
      <4>1. b \in 1 .. Len(g) /\ g[b][1] = N
        BY DEF Has
      <4> QED BY <1>9, <4>1 DEF Below
    <3> QED BY <1>5, <3>2, <3>3, <3>4
  <2>5. /\ AllMixed(G, F, Len(sz) + 1, e)
        /\ (Len(szn) = Len(sz) + 1
             => \A x \in G, b \in Nat : ~Has(x, b, <<Len(sz) + 1, Span(szn, Len(sz) + 1)>>))
    BY <1>8, <2>3, <2>4
  <2> QED BY <1>7, <1>9, <2>5, CutNoneBut
<1>14. ScanFacts'
  BY ScanKnownNext
<1>15. PICK ts, d : ts = Entries' /\ d = (Scan(Image).pos)'
  OBVIOUS
<1>16. /\ ts \in Seq(Record) /\ Len(ts) \in Nat
       /\ \E q : Laid(szn, h, ts, q, d) /\ StartsAt(q, 0)
       /\ \A us \in Seq(Record) : \A q, x : Laid(szn, h, us, q, x) /\ StartsAt(q, 0)
            => Len(us) <= Len(ts)
  BY <1>5, <1>6, <1>14, <1>15 DEF ScanFacts
<1>17. PICK q : Laid(szn, h, ts, q, d) /\ StartsAt(q, 0)
  BY <1>16
<1>18. szn \in Seq(Nat) /\ Laid(szn, m, rs, o, e) /\ Len(h) \in Nat /\ h \in G
       /\ \A k \in 1 .. Len(sz) : Span(szn, k) = Span(sz, k)
  <2>1. szn \in Seq(Nat) /\ \A k \in 1 .. Len(sz) : Span(szn, k) = Span(sz, k)
    BY <1>7, LongerIs
  <2>2. Laid(szn, m, rs, o, e)
    BY <1>7, <1>9, LaidLonger
  <2>3. Len(h) \in Nat
    BY <1>12 DEF Cut
  <2> QED BY <1>5, <2>1, <2>2, <2>3
<1>19. ASSUME NEW j \in 1 .. Len(rs), Whole(szn, G, rs[j], o[j]) PROVE j <= Len(ts)
  <2>1. rs[j] \in 1 .. Len(sz) /\ Len(rs) \in Nat
    BY <1>2, <1>9 DEF Laid
  <2>2. Whole(sz, {h, g}, rs[j], o[j])
    BY <1>5, <1>18, <1>19, <2>1 DEF Whole
  <2>3. Laid(sz, h, SubSeq(rs, 1, j), [k \in 1 .. j + 1 |-> o[k]], o[j + 1])
    BY <1>0, <1>2, <1>3, <1>9, <1>10, <1>11, <1>12, <2>2, CutFound
  <2>4. PICK us, r, x : /\ us = SubSeq(rs, 1, j) /\ r = [k \in 1 .. j + 1 |-> o[k]]
                        /\ x = o[j + 1]
    OBVIOUS
  <2>5. us \in Seq(Record) /\ Len(us) = j
    BY <1>2, <2>1, <2>4
  <2>6. Laid(sz, h, us, r, x)
    BY <2>3, <2>4
  <2>7. Laid(szn, h, us, r, x)
    BY <1>7, <2>6, LaidLonger
  <2>8. StartsAt(r, 0)
    <3>1. 1 \in 1 .. j + 1
      OBVIOUS
    <3> QED BY <1>2, <2>4, <3>1 DEF StartsAt
  <2>9. Len(us) <= Len(ts)
    BY <1>16, <2>5, <2>7, <2>8
  <2> QED BY <2>5, <2>9
<1>20. /\ Len(ts) <= Len(rs) /\ \A k \in 1 .. Len(ts) : ts[k] = rs[k]
       /\ \A k \in 1 .. Len(ts) + 1 : q[k] = o[k]
       /\ NoneBut(szn, G, ts, q)
  <2>1. /\ rs \in Seq(Record) /\ StartsAt(o, 0) /\ Len(m) \in Nat /\ Len(h) \in Nat /\ h \in G
        /\ szn \in Seq(Nat) /\ Laid(szn, m, rs, o, e) /\ ts \in Seq(Record)
        /\ Laid(szn, h, ts, q, d) /\ StartsAt(q, 0) /\ NoneBut(szn, G, rs, o)
    BY <1>2, <1>9, <1>13, <1>16, <1>17, <1>18
  <2>2. /\ Len(ts) <= Len(rs) /\ \A k \in 1 .. Len(ts) : ts[k] = rs[k]
        /\ \A k \in 1 .. Len(ts) + 1 : q[k] = o[k]
        /\ Within(szn, G, rs, o, Len(ts)) => NoneBut(szn, G, ts, q)
    BY <2>1, Settles
  <2> QED BY <1>19, <2>2 DEF Within
<1>21. Downward(szn, g, ts, q)
  <2>1. \A j \in 1 .. Len(rs) : rs[j] \in 1 .. Len(sz)
    BY <1>9 DEF Laid
  <2>2. Downward(szn, g, rs, o)
    BY <1>7, <1>9, <2>1, DownwardLater
  <2>3. Len(rs) \in Nat
    BY <1>2
  <2> QED BY <1>16, <1>20, <2>2, <2>3, DownwardFront
<1>22. Tidy(ts, q, d)'
  BY <1>0, <1>4, <1>5, <1>6, <1>16, <1>17, <1>20, <1>21 DEF Tidy
<1>23. IsPrefix(ts, rs)
  BY <1>2, <1>16, <1>20, ShownPrefix
<1> QED BY <1>2, <1>15, <1>22, <1>23 DEF Clean

(* A record that is whole in f and g has been written as far as its end.    *)
LEMMA WrittenAll ==
  ASSUME NEW sz \in Seq(Nat), NEW f, NEW g, NEW m, NEW t \in Nat, NEW buf, Len(buf) \in Nat,
         Len(m) \in Nat, \A i \in 1 .. t : Has(f, i, m[i]),
         \A c \in 1 .. Len(buf) : Has(m, t + c, buf[c]),
         \A c \in 1 .. Len(buf) : ~Has(f, t + c, buf[c]) /\ ~Has(g, t + c, buf[c]),
         NEW rs, Len(rs) \in Nat, NEW o, NEW e, Laid(sz, m, rs, o, e), e = t + Len(buf),
         NEW j \in 1 .. Len(rs), Whole(sz, {f, g}, rs[j], o[j]), NEW i \in 1 .. j
  PROVE  Whole(sz, {f}, rs[i], o[i])
<1>1. PICK E : E = o[j + 1]
  OBVIOUS
<1>2. /\ o[j] \in Nat /\ E \in Nat /\ E <= e /\ rs[j] \in 1 .. Len(sz)
      /\ E = o[j] + Span(sz, rs[j])
      /\ \A c \in 1 .. Span(sz, rs[j]) : m[o[j] + c] = <<rs[j], c>>
  BY <1>1, LaidAt
<1>3. PICK w \in Nat : w = Span(sz, rs[j]) /\ w >= 3
  BY <1>2, SpanBig
<1>4. w \in 1 .. Span(sz, rs[j]) /\ E = o[j] + w
  <2>1. w \in 1 .. w
    BY <1>3
  <2> QED BY <1>2, <1>3, <2>1
<1>5. E <= t
  <2> SUFFICES ASSUME E > t PROVE FALSE
    BY <1>2
  <2>1. PICK c \in 1 .. Len(buf) : E = t + c
    <3>1. PICK l \in Nat : l = Len(buf)
      OBVIOUS
    <3>2. E \in Nat /\ E <= t + l
      BY <1>2, <3>1
    <3>3. E - t \in 1 .. l /\ E = t + (E - t)
      BY <3>2
    <3> QED BY <3>1, <3>3
  <2>2. m[E] = <<rs[j], w>> /\ m[E] = buf[c]
    <3>1. m[E] = <<rs[j], w>>
      BY <1>2, <1>4
    <3> QED BY <2>1, <3>1 DEF Has
  <2>3. ~Has(f, E, <<rs[j], w>>) /\ ~Has(g, E, <<rs[j], w>>)
    BY <2>1, <2>2
  <2> QED BY <1>4, <2>3 DEF Whole
<1>6. /\ o[i] \in Nat /\ o[i + 1] \in Nat /\ rs[i] \in 1 .. Len(sz)
      /\ o[i + 1] = o[i] + Span(sz, rs[i])
      /\ \A c \in 1 .. Span(sz, rs[i]) : m[o[i] + c] = <<rs[i], c>>
  <2>1. i \in 1 .. Len(rs)
    OBVIOUS
  <2> QED BY <2>1, LaidAt
<1>7. o[i + 1] <= E
  <2>1. CASE i = j
    <3>1. o[i + 1] = E
      BY <1>1, <2>1
    <3>2. E <= E
      BY <1>2
    <3> QED BY <3>1, <3>2
  <2>2. CASE i # j
    <3>1. i \in 1 .. Len(rs) /\ j + 1 \in i + 1 .. Len(rs) + 1
      BY <2>2
    <3>2. o[i] + Span(sz, rs[i]) <= o[j + 1]
      BY <3>1, LaidRising
    <3> QED BY <1>1, <1>6, <3>2
  <2> QED BY <2>1, <2>2
<1>8. PICK v \in Nat : v = Span(sz, rs[i])
  BY <1>6, SpanBig
<1>9. ASSUME NEW c \in 1 .. v PROVE Has(f, o[i] + c, <<rs[i], c>>)
  <2>1. o[i] + c \in 1 .. t
    <3>1. PICK a \in Nat : a = o[i]
      BY <1>6
    <3>2. a + v <= E /\ E \in Nat
      BY <1>2, <1>6, <1>7, <1>8, <3>1
    <3>3. a + c \in 1 .. t
      BY <1>5, <3>2
    <3> QED BY <3>1, <3>3
  <2>2. Has(f, o[i] + c, m[o[i] + c])
    BY <2>1
  <2> QED BY <1>6, <1>8, <2>2
<1> QED BY <1>8, <1>9 DEF Whole

(* The same with nothing to write.                                          *)
LEMMA WrittenLaid ==
  ASSUME NEW sz \in Seq(Nat), NEW f, Len(f) \in Nat, NEW rs, Len(rs) \in Nat, NEW o, NEW e,
         Laid(sz, f, rs, o, e), NEW j \in 1 .. Len(rs), NEW i \in 1 .. j
  PROVE  Whole(sz, {f}, rs[i], o[i])
<1>1. PICK F : F = {f}
  OBVIOUS
<1>2. f \in F /\ i \in 1 .. Len(rs)
  BY <1>1
<1>3. Whole(sz, F, rs[i], o[i])
  BY <1>2, LaidWhole
<1> QED BY <1>1, <1>3

(* Where the file and the disk are the same, a loss of power takes nothing. *)
LEMMA NothingLost ==
  ASSUME TypeOK, PowerLoss, file = disk PROVE file' = file
<1>1. /\ file' \in Seq(Cell) /\ Len(disk) <= Len(file')
      /\ \A i \in 1 .. Len(disk) : file'[i] \in {disk[i], file[i]}
  BY PowerLossFile
<1>2. Len(file') <= Len(file)
  BY PowerLossLossy DEF Lossy
<1>3. file \in Seq(Cell) /\ Len(file) \in Nat
  BY Known
<1>4. Len(file') = Len(file) /\ \A i \in 1 .. Len(file') : file'[i] = file[i]
  <2>1. Len(file') \in Nat
    BY <1>1
  <2>2. Len(file') = Len(file)
    BY <1>1, <1>2, <1>3, <2>1
  <2> QED BY <1>1, <2>2
<1> QED BY <1>1, <1>3, <1>4, SameSeq

LEMMA CleanLoss ==
  ASSUME TypeOK, TypeOK', Quiet, Numbered, Clean, Fresh, ~damaged, PowerLoss
  PROVE  Clean' /\ IsPrefix(Entries', Entries)
<1>0. /\ st' = "None" /\ buffer' = <<>> /\ disk' = file' /\ sizes' = sizes /\ Image' = file'
  BY DEF PowerLoss, LoseProcess, Forget, Image
<1>a. ScanFacts' /\ ScanFacts
  BY ScanKnown, ScanKnownNext
<1>1. CASE Stuck
  <2>1. file = disk /\ st = "None" /\ ~Scan(Image).ok
    BY <1>1 DEF Stuck
  <2>2. buffer = <<>> /\ Image = file
    BY <2>1 DEF Quiet, Image
  <2>3. file' = file
    BY <2>1, NothingLost
  <2>4. Image' = Image
    BY <1>0, <2>2, <2>3
  <2>5. Scan(Image)' = Scan(Image)
    BY <1>0, <2>4, ScanSame
  <2>6. Stuck' /\ Entries' = Entries
    BY <1>0, <2>1, <2>5 DEF Stuck, Entries
  <2>7. PICK s \in Seq(Record) : s = Entries
    BY <1>a DEF ScanFacts
  <2>8. IsPrefix(s, s)
    BY ShownPrefix
  <2> QED BY <2>6, <2>7, <2>8 DEF Clean
<1>2. CASE ~Stuck
  <2>1. PICK rs, o, e : Tidy(rs, o, e)
    BY <1>2 DEF Clean
  <2>2. /\ rs \in Seq(Record) /\ Laid(sizes, Image, rs, o, e) /\ StartsAt(o, 0)
        /\ (st # "None" => e = tail + Len(buffer)) /\ Entries = rs
        /\ NoneBut(sizes, Files, rs, o) /\ Downward(sizes, disk, rs, o)
    <3>1. TidyEntries
      BY TidyShown
    <3> QED BY <2>1, <3>1 DEF Tidy, TidyEntries
  <2>3. PICK sz \in Seq(Nat), f \in Seq(Cell), g \in Seq(Cell), m \in Seq(Cell), t \in Nat :
          sz = sizes /\ f = file /\ g = disk /\ m = Image /\ t = tail
    BY Known, ImageType
  <2>4. file' \in Seq(Cell)
    BY DEF TypeOK
  <2>5. PICK h \in Seq(Cell) : h = file'
    BY <2>4
  <2>6. PICK F, G, buf : F = Files /\ G = {h} /\ buf = buffer
    OBVIOUS
  <2>7. Files' = G /\ Image' = h /\ h \in G /\ Len(h) \in Nat /\ Len(f) \in Nat /\ Len(g) \in Nat
        /\ Len(m) \in Nat /\ Len(rs) \in Nat /\ buf \in Seq(Cell) /\ Len(buf) \in Nat
    BY <1>0, <2>2, <2>5, <2>6, Known DEF Files
  <2>8. Lossy(f, g, h)
    BY <2>3, <2>5, PowerLossLossy
  <2>9. /\ NoneBut(sz, F, rs, o) /\ Downward(sz, g, rs, o) /\ Laid(sz, m, rs, o, e)
        /\ f \in F /\ g \in F
    BY <2>2, <2>3, <2>6 DEF Files
  <2>10. NoneBut(sz, G, rs, o)
    <3> SUFFICES ASSUME NEW k \in 1 .. Len(sz), NEW b \in Nat, Whole(sz, G, k, b)
                 PROVE  \E j \in 1 .. Len(rs) : rs[j] = k /\ o[j] = b
      BY DEF NoneBut
    <3>1. PICK w \in Nat : w = Span(sz, k)
      BY SpanBig
    <3>2. ASSUME NEW i \in 1 .. w PROVE \E x \in F : Has(x, b + i, <<k, i>>)
      <4>1. Has(h, b + i, <<k, i>>) /\ i \in Nat \ {0}
        BY <2>6, <3>1 DEF Whole
      <4>2. Has(f, b + i, <<k, i>>) \/ Has(g, b + i, <<k, i>>)
        BY <2>7, <2>8, <4>1, LossyHas
      <4> QED BY <2>9, <4>2
    <3>3. Whole(sz, F, k, b)
      BY <3>1, <3>2 DEF Whole
    <3> QED BY <2>9, <3>3 DEF NoneBut
  <2>11. PICK ts, d : ts = Entries' /\ d = (Scan(Image).pos)'
    OBVIOUS
  <2>12. /\ ts \in Seq(Record) /\ Len(ts) \in Nat
         /\ \E q : Laid(sz, h, ts, q, d) /\ StartsAt(q, 0)
         /\ Scan(Image)'.ok => EndsShort(sz, h, d)
    BY <1>0, <1>a, <2>3, <2>7, <2>11 DEF ScanFacts
  <2>13. PICK q : Laid(sz, h, ts, q, d) /\ StartsAt(q, 0)
    BY <2>12
  <2>14. /\ Len(ts) <= Len(rs) /\ \A k \in 1 .. Len(ts) : ts[k] = rs[k]
         /\ \A k \in 1 .. Len(ts) + 1 : q[k] = o[k]
         /\ Within(sz, G, rs, o, Len(ts)) => NoneBut(sz, G, ts, q)
    BY <2>2, <2>7, <2>9, <2>10, <2>12, <2>13, Settles
  <2>15. IsPrefix(Entries', Entries)
    BY <2>2, <2>11, <2>12, <2>14, ShownPrefix
  <2>16. ASSUME Scan(Image)'.ok PROVE Tidy(ts, q, d)'
    <3>1. ASSUME NEW j \in 1 .. Len(rs), Whole(sz, {f, g}, rs[j], o[j]), NEW i \in 1 .. j
          PROVE  Whole(sz, {f}, rs[i], o[i])
      <4>1. CASE buf = <<>>
        <5>1. m = f
          BY <2>3, <2>6, <4>1 DEF Image
        <5> QED BY <2>7, <2>9, <5>1, WrittenLaid
      <4>2. CASE buf # <<>>
        <5>1. st # "None"
          BY <2>6, <4>2 DEF Quiet
        <5>2. e = t + Len(buf)
          BY <2>2, <2>3, <2>6, <5>1
        <5>3. /\ \A k \in 1 .. t : Has(f, k, m[k])
              /\ \A c \in 1 .. Len(buf) : Has(m, t + c, buf[c])
          <6>1. /\ \A k \in 1 .. t : m[k] = f[k]
                /\ \A k \in 1 .. Len(buf) : m[t + k] = buf[k] /\ t + k <= Len(m)
            BY <2>3, <2>6, ImageCells
          <6>2. t \in 0 .. Len(f)
            BY <2>3, Known
          <6>3. ASSUME NEW k \in 1 .. t PROVE Has(f, k, m[k])
            BY <2>7, <6>1, <6>2 DEF Has
          <6>4. ASSUME NEW c \in 1 .. Len(buf) PROVE Has(m, t + c, buf[c])
            <7>1. t + c \in 1 .. Len(m)
              BY <2>7, <6>1
            <7> QED BY <6>1, <7>1 DEF Has
          <6> QED BY <6>3, <6>4
        <5>4. \A c \in 1 .. Len(buf) : ~Has(f, t + c, buf[c]) /\ ~Has(g, t + c, buf[c])
          BY <2>3, <2>6 DEF Fresh
        <5> QED BY <2>7, <2>9, <3>1, <5>2, <5>3, <5>4, WrittenAll
      <4> QED BY <4>1, <4>2
    <3>2. PICK l \in Nat : l = Len(ts)
      BY <2>12
    <3>3. EndsShort(sz, h, o[l + 1]) /\ l <= Len(rs)
      <4>1. d = q[l + 1] /\ l + 1 \in 1 .. Len(ts) + 1
        BY <2>13, <3>2 DEF Laid
      <4>2. EndsShort(sz, h, d)
        BY <2>12, <2>16
      <4> QED BY <2>14, <3>2, <4>1, <4>2
    <3>4. ASSUME NEW j \in 1 .. Len(rs), Whole(sz, G, rs[j], o[j]) PROVE j <= l
      <4>1. Whole(sz, {h}, rs[j], o[j])
        BY <2>6, <3>4
      <4> QED BY <2>2, <2>7, <2>8, <2>9, <3>1, <3>3, <4>1, LossFound
    <3>5. NoneBut(sz, G, ts, q)
      BY <2>14, <3>2, <3>4 DEF Within
    <3>6. Downward(sz, h, ts, q)
      BY <2>7, <2>12, <2>13, DownwardLaid
    <3> QED BY <1>0, <2>3, <2>5, <2>7, <2>12, <2>13, <3>5, <3>6 DEF Tidy
  <2>17. ASSUME ~Scan(Image)'.ok PROVE Stuck'
    BY <1>0, <2>17 DEF Stuck
  <2> QED BY <2>15, <2>16, <2>17 DEF Clean
<1> QED BY <1>1, <1>2

(* Each cell that records cover is one of a record's.                       *)
LEMMA Tile ==
  ASSUME NEW sz \in Seq(Nat), NEW f, Len(f) \in Nat, NEW rs, Len(rs) \in Nat, NEW o, NEW e,
         Laid(sz, f, rs, o, e), StartsAt(o, 0), NEW i \in 1 .. e
  PROVE  \E j \in 1 .. Len(rs) : o[j] < i /\ i <= o[j + 1]
<1> DEFINE I == {n \in Nat : n <= Len(rs) /\ i <= o[n + 1]
                             => \E j \in 1 .. Len(rs) : o[j] < i /\ i <= o[j + 1]}
<1>0. e \in Nat /\ \A k \in 1 .. Len(rs) + 1 : o[k] \in Nat
  BY LaidOffsets
<1>1. 0 \in I
  <2>1. o[0 + 1] = 0 /\ ~(i <= 0)
    BY <1>0 DEF StartsAt
  <2> QED BY <2>1
<1>2. ASSUME NEW n \in Nat, n \in I PROVE n + 1 \in I
  <2> SUFFICES ASSUME n + 1 <= Len(rs), i <= o[(n + 1) + 1]
               PROVE  \E j \in 1 .. Len(rs) : o[j] < i /\ i <= o[j + 1]
    OBVIOUS
  <2>1. n + 1 \in 1 .. Len(rs) /\ n + 1 \in 1 .. Len(rs) + 1 /\ n <= Len(rs)
    OBVIOUS
  <2>2. CASE i <= o[n + 1]
    BY <1>2, <2>1, <2>2
  <2>3. CASE ~(i <= o[n + 1])
    <3>1. o[n + 1] \in Nat
      BY <1>0, <2>1
    <3>2. o[n + 1] < i
      BY <1>0, <2>3, <3>1
    <3> QED BY <2>1, <3>2
  <2> QED BY <2>2, <2>3
<1> HIDE DEF I
<1>3. Nat \subseteq I
  BY <1>1, <1>2, SetInduction
<1>4. Len(rs) \in I
  BY <1>3
<1>5. i <= o[Len(rs) + 1]
  <2>1. o[Len(rs) + 1] = e
    BY DEF Laid
  <2> QED BY <1>0, <2>1
<1> QED BY <1>4, <1>5 DEF I

(* A file that records cover to its end holds no others.                    *)
LEMMA TiledNone ==
  ASSUME NEW sz \in Seq(Nat), NEW f, Len(f) \in Nat, NEW rs, Len(rs) \in Nat, NEW o,
         Laid(sz, f, rs, o, Len(f)), StartsAt(o, 0)
  PROVE  NoneBut(sz, {f}, rs, o)
<1> SUFFICES ASSUME NEW k \in 1 .. Len(sz), NEW b \in Nat, Whole(sz, {f}, k, b)
             PROVE  \E j \in 1 .. Len(rs) : rs[j] = k /\ o[j] = b
  BY DEF NoneBut
<1>1. Span(sz, k) \in Nat /\ Span(sz, k) >= 3
  BY SpanBig
<1>2. 1 \in 1 .. Span(sz, k)
  BY <1>1
<1>3. b + 1 \in 1 .. Len(f) /\ f[b + 1] = <<k, 1>>
  BY <1>2 DEF Whole, Has
<1>4. PICK j \in 1 .. Len(rs) : o[j] < b + 1 /\ b + 1 <= o[j + 1]
  BY <1>3, Tile
<1>5. /\ o[j] \in Nat /\ o[j + 1] \in Nat /\ rs[j] \in 1 .. Len(sz)
      /\ o[j + 1] = o[j] + Span(sz, rs[j])
      /\ \A i \in 1 .. Span(sz, rs[j]) : f[o[j] + i] = <<rs[j], i>>
  BY LaidAt
<1>6. PICK a \in Nat, w \in Nat : a = o[j] /\ w = Span(sz, rs[j])
  BY <1>5, SpanBig
<1>7. a < b + 1 /\ b + 1 <= a + w
  BY <1>4, <1>5, <1>6
<1>8. (b + 1) - a \in 1 .. w /\ a + ((b + 1) - a) = b + 1
  BY <1>7
<1>9. f[b + 1] = <<rs[j], (b + 1) - a>>
  BY <1>5, <1>6, <1>8
<1>10. rs[j] = k /\ (b + 1) - a = 1
  <2>1. PICK c, r : c = (b + 1) - a /\ r = rs[j]
    OBVIOUS
  <2>2. <<r, c>> = <<k, 1>>
    BY <1>3, <1>9, <2>1
  <2>3. r = k /\ c = 1
    BY <2>2
  <2> QED BY <2>1, <2>3
<1>11. a = b
  BY <1>10
<1> QED BY <1>6, <1>10, <1>11

(* Opening takes the log for what the files hold.                           *)
LEMMA CleanOpen ==
  ASSUME TypeOK, TypeOK', Quiet, Clean, Open PROVE Clean'
<1>0. /\ st = "None" /\ Scan(file).ok /\ log' = Scan(file).recs /\ tail' = Scan(file).pos
      /\ buffer' = <<>> /\ damaged' = (damaged /\ (Scan(file).pos < Len(file) \/ disk # file))
      /\ UNCHANGED <<file, disk, sizes>>
  BY DEF Open
<1>1. buffer = <<>> /\ Image = file /\ Image' = file /\ Files' = Files
  <2>1. buffer = <<>> /\ Image = file
    BY <1>0 DEF Quiet, Image
  <2>2. Image' = file
    BY <1>0 DEF Image
  <2> QED BY <1>0, <2>1, <2>2 DEF Files
<1> SUFFICES ASSUME ~damaged' PROVE \E rs, o, e : Tidy(rs, o, e)'
  BY DEF Clean
<1>2. ScanFacts /\ TidyEntries
  BY ScanKnown, TidyShown
<1>3. PICK ts, d : ts = Entries /\ d = Scan(file).pos
  OBVIOUS
<1>4. ts \in Seq(Record) /\ \E q : Laid(sizes, file, ts, q, d) /\ StartsAt(q, 0)
  BY <1>1, <1>2, <1>3 DEF ScanFacts
<1>5. PICK q : Laid(sizes, file, ts, q, d) /\ StartsAt(q, 0)
  BY <1>4
<1>6. log' = ts /\ d = tail' + Len(buffer')
  <2>1. tail' = d /\ tail' \in 0 .. Len(file') /\ file' \in Seq(Cell)
    BY <1>0, <1>3 DEF TypeOK
  <2>2. Len(buffer') = 0 /\ d \in Nat
    BY <1>0, <2>1
  <2>3. log' = ts
    BY <1>0, <1>1, <1>3 DEF Entries
  <2> QED BY <2>1, <2>2, <2>3
<1>7. NoneBut(sizes, Files, ts, q) /\ Downward(sizes, disk, ts, q)
  <2>1. CASE ~damaged
    <3>1. PICK rs, o, e : Tidy(rs, o, e)
      BY <1>0, <1>1, <2>1 DEF Clean, Stuck
    <3>2. /\ rs = ts /\ Laid(sizes, file, rs, o, e) /\ StartsAt(o, 0)
          /\ NoneBut(sizes, Files, rs, o) /\ Downward(sizes, disk, rs, o)
      BY <1>1, <1>2, <1>3, <3>1 DEF Tidy, TidyEntries
    <3>3. PICK sz : sz = sizes
      OBVIOUS
    <3>4. /\ Laid(sz, file, ts, o, e) /\ Laid(sz, file, ts, q, d) /\ o[1] = q[1]
          /\ \A k \in 1 .. Len(sz) : Span(sz, k) \in Nat
          /\ Len(ts) \in Nat /\ Len(file) \in Nat
      BY <1>4, <1>5, <3>2, <3>3, Known DEF StartsAt
    <3>5. o = q
      BY <1>4, <3>4, LaidUnique
    <3> QED BY <3>2, <3>5
  <2>2. CASE damaged
    <3>1. d = Len(file) /\ disk = file
      <4>1. ~(Scan(file).pos < Len(file)) /\ disk = file
        BY <1>0, <2>2
      <4>2. d \in 0 .. Len(file)
        BY <1>5 DEF Laid
      <4> QED BY <1>3, <4>1, <4>2, Known
    <3>2. PICK sz \in Seq(Nat), f \in Seq(Cell) : sz = sizes /\ f = file
      BY Known
    <3>3. Laid(sz, f, ts, q, Len(f)) /\ Len(f) \in Nat /\ Len(ts) \in Nat
      BY <1>4, <1>5, <3>1, <3>2
    <3>4. NoneBut(sz, {f}, ts, q) /\ Downward(sz, f, ts, q)
      BY <1>5, <3>3, TiledNone, DownwardLaid
    <3>5. Files = {f}
      BY <1>1, <3>1, <3>2 DEF Files
    <3> QED BY <3>1, <3>2, <3>4, <3>5
  <2> QED BY <2>1, <2>2, Known
<1>8. Tidy(ts, q, d)'
  BY <1>0, <1>1, <1>4, <1>5, <1>6, <1>7 DEF Tidy
<1> QED BY <1>8

-------------------------------------------------------------------------------
(* Record numbers.                                                          *)
LEMMA BelowMore ==
  ASSUME NEW F, NEW r \in Nat, NEW s \in Nat, r <= s, Below(F, r) PROVE Below(F, s)
<1> SUFFICES ASSUME NEW f \in F, NEW i \in 1 .. Len(f) PROVE f[i][1] \in Nat /\ f[i][1] < s
  BY DEF Below
<1>1. f[i][1] \in Nat /\ f[i][1] < r
  BY DEF Below
<1> QED BY <1>1

LEMMA GrownLen ==
  ASSUME TypeOK, Grown
  PROVE  /\ Len(sizes) \in Nat /\ Len(sizes') \in Nat /\ Len(sizes) <= Len(sizes')
         /\ Len(sizes) + 1 <= Len(sizes') + 1
<1>0. PICK sz \in Seq(Nat) : sz = sizes
  BY Known
<1>1. PICK szn : sz = sizes /\ szn = sizes'
  BY <1>0
<1>2. Longer(sz, szn)
  BY <1>1 DEF Grown, Longer
<1>3. Len(szn) \in Nat /\ Len(sz) <= Len(szn) /\ Len(sz) \in Nat
  BY <1>2, LongerIs
<1> QED BY <1>1, <1>3

LEMMA NumberedKept ==
  ASSUME TypeOK, Quiet, Numbered, Grown, NEW x, x \in Files \cup {buffer, <<>>}
  PROVE  Below({x}, Len(sizes') + 1)
<1>1. Len(sizes) + 1 \in Nat /\ Len(sizes') + 1 \in Nat /\ Len(sizes) + 1 <= Len(sizes') + 1
  BY GrownLen
<1>2. Below({x}, Len(sizes) + 1)
  <2>1. CASE x \in Files
    BY <2>1, FilesBelow DEF Below
  <2>2. CASE x = buffer
    BY <2>2 DEF Numbered, Below
  <2>3. CASE x = <<>>
    <3>1. 1 .. Len(x) = {}
      BY <2>3
    <3> QED BY <3>1 DEF Below
  <2> QED BY <2>1, <2>2, <2>3
<1> QED BY <1>1, <1>2, BelowMore

LEMMA NumberedParts ==
  ASSUME Below({file'}, Len(sizes') + 1), Below({disk'}, Len(sizes') + 1),
         Below({buffer'}, Len(sizes') + 1)
  PROVE  Numbered'
BY DEF Numbered, Below

(* A step that only moves cells between the buffer, the file and the disk.  *)
LEMMA NumberedMoves ==
  ASSUME TypeOK, Quiet, Numbered, Grown, file' \in Files, disk' \in Files, buffer' \in {buffer, <<>>}
  PROVE  Numbered'
<1>1. Below({file'}, Len(sizes') + 1)
  BY NumberedKept
<1>2. Below({disk'}, Len(sizes') + 1)
  BY NumberedKept
<1>3. Below({buffer'}, Len(sizes') + 1)
  BY NumberedKept
<1> QED BY <1>1, <1>2, <1>3, NumberedParts

LEMMA CellsBelow ==
  ASSUME NEW r \in Nat, NEW p \in Nat PROVE Below({Cells(r, p)}, r + 1)
<1>1. \A i \in 1 .. Len(Cells(r, p)) : Cells(r, p)[i] = <<r, i>>
  BY CellsShape
<1>2. \A i \in 1 .. Len(Cells(r, p)) : Cells(r, p)[i][1] = r
  BY <1>1
<1> QED BY <1>2 DEF Below

LEMMA BelowConcat ==
  ASSUME NEW C, NEW s \in Seq(C), NEW t \in Seq(C), NEW r, Below({s}, r), Below({t}, r)
  PROVE  Below({s \o t}, r)
<1>1. /\ Len(s \o t) = Len(s) + Len(t) /\ Len(s) \in Nat /\ Len(t) \in Nat
      /\ \A k \in 1 .. Len(s) : (s \o t)[k] = s[k]
      /\ \A k \in 1 .. Len(t) : (s \o t)[Len(s) + k] = t[k]
  OBVIOUS
<1>2. PICK u : u = s \o t
  OBVIOUS
<1>3. ASSUME NEW i \in 1 .. Len(u) PROVE u[i][1] \in Nat /\ u[i][1] < r
  <2>1. CASE i <= Len(s)
    <3>1. i \in 1 .. Len(s)
      BY <1>1, <1>2, <2>1
    <3>2. u[i] = s[i]
      BY <1>1, <1>2, <3>1
    <3> QED BY <3>1, <3>2 DEF Below
  <2>2. CASE i > Len(s)
    <3>1. PICK k \in 1 .. Len(t) : i = Len(s) + k
      <4>1. i - Len(s) \in 1 .. Len(t) /\ i = Len(s) + (i - Len(s))
        BY <1>1, <1>2, <2>2
      <4> QED BY <4>1
    <3>2. u[i] = t[k]
      BY <1>1, <1>2, <3>1
    <3> QED BY <3>2 DEF Below
  <2> QED BY <1>1, <1>2, <2>1, <2>2
<1> QED BY <1>2, <1>3 DEF Below

LEMMA BelowWrite ==
  ASSUME NEW C, NEW f \in Seq(C), NEW d \in Seq(C), NEW c \in 0 .. Len(f), NEW r,
         Below({f}, r), Below({d}, r)
  PROVE  Below({Write(f, c, d)}, r)
<1>1. PICK cs : cs = <<>>
  OBVIOUS
<1>2. Len(cs) = 0 /\ Len(d) \in Nat
  BY <1>1
<1>3. Begins(d, d, cs)
  BY DEF Begins
<1>4. PICK h : h = Write(f, c, d)
  OBVIOUS
<1>5. Cut(h, f, c, d, cs, Len(d))
  BY <1>2, <1>3, <1>4, CutShape
<1>6. ASSUME NEW i \in 1 .. Len(h) PROVE h[i][1] \in Nat /\ h[i][1] < r
  <2>1. CASE Has(f, i, h[i])
    BY <2>1 DEF Has, Below
  <2>2. CASE \E k \in 1 .. Len(d) : i = c + k /\ h[i] = d[k]
    BY <2>2 DEF Below
  <2>3. 1 .. Len(cs) = {}
    BY <1>2
  <2> QED BY <1>5, <2>1, <2>2, <2>3 DEF Cut
<1> QED BY <1>4, <1>6 DEF Below

LEMMA NewNowhere ==
  ASSUME NEW F, NEW r, Below(F, r), r \in Nat, NEW x \in F, NEW b, NEW i PROVE ~Has(x, b, <<r, i>>)
<1> SUFFICES ASSUME Has(x, b, <<r, i>>) PROVE FALSE
  OBVIOUS
<1>1. b \in 1 .. Len(x) /\ x[b][1] = r
  BY DEF Has
<1>2. x[b][1] < r
  BY <1>1 DEF Below
<1> QED BY <1>1, <1>2

LEMMA FreshEmpty == ASSUME buffer' = <<>> PROVE Fresh'
<1>1. 1 .. Len(buffer') = {}
  OBVIOUS
<1> QED BY <1>1 DEF Fresh

LEMMA FreshSame ==
  ASSUME Fresh, UNCHANGED <<file, disk, tail, buffer, damaged>> PROVE Fresh'
BY DEF Fresh

LEMMA AppendLogInd ==
  ASSUME ~AppendAfterReplay, LogInd, WalInd', NEW p \in Payloads, AppendBuffered(p) \/ AppendLarge(p)
  PROVE  LogInd' /\ log' = Append(log, Len(sizes) + 1) /\ Len(sizes) + 1 \in Record /\ st = "Open"
         /\ UNCHANGED <<st, acked, damaged, troubles>>
<1>0. TypeOK /\ TypeOK' /\ Quiet /\ Clean /\ Fresh /\ Numbered /\ Idle
  BY DEF LogInd, WalInd
<1>1. /\ NewRecord(p) /\ log' = Append(log, Len(sizes) + 1)
      /\ UNCHANGED <<disk, st, acked, damaged, troubles>>
  BY DEF AppendBuffered, AppendLarge
<1>2. PICK N \in Nat : N = Len(sizes) + 1
  BY <1>0, Known
<1>3. PICK cells : cells = Cells(N, p)
  OBVIOUS
<1>4. p \in Nat /\ cells \in Seq(Cell) /\ Grown /\ st = "Open" /\ sizes' = Append(sizes, p)
  BY <1>0, <1>1, <1>2, <1>3, RecordType, NewGrown DEF NewRecord
<1>5. \A c \in 1 .. Len(cells) : cells[c] = <<N, c>>
  BY <1>3, <1>4, CellsShape
<1>6. Len(sizes') = N /\ N \in Record
  <2>1. Len(sizes') = N
    BY <1>0, <1>2, <1>4, Known
  <2>2. Len(sizes) < MaxRecs /\ MaxRecs \in Nat /\ Len(sizes) \in Nat
    BY <1>0, <1>1, WalAssumption, Known DEF NewRecord
  <2> QED BY <1>2, <2>1, <2>2 DEF Record
<1>7. /\ Image' = Write(Image, tail + Len(buffer), Cells(Len(sizes) + 1, p))
      /\ tail' + Len(buffer') = tail + Len(buffer) + Len(Cells(Len(sizes) + 1, p))
      /\ \/ file' = Image /\ buffer' = cells
         \/ file' = file /\ tail' = tail /\ buffer' = buffer \o cells
         \/ AppendLarge(p) /\ file' = Image' /\ buffer' = <<>>
  <2>1. CASE AppendBuffered(p)
    BY <1>0, <1>2, <1>3, <2>1, AppendBufferedShape
  <2>2. CASE AppendLarge(p)
    BY <1>0, <2>2, AppendLargeShape
  <2> QED BY <2>1, <2>2
<1>8. Clean'
  BY <1>0, <1>1, <1>7, CleanAppend
<1>9. Idle'
  BY <1>1, <1>4 DEF Idle
<1>10. Below(Files, N) /\ file \in Files /\ disk \in Files /\ Image \in Files
  BY <1>0, <1>2, FilesBelow DEF Files
<1>11. Below({cells}, Len(sizes') + 1) /\ Below({disk'}, Len(sizes') + 1)
       /\ Below({buffer}, Len(sizes') + 1)
  <2>1. Below({cells}, Len(sizes') + 1)
    BY <1>3, <1>4, <1>6, CellsBelow
  <2>2. Below({disk'}, Len(sizes') + 1)
    BY <1>0, <1>1, <1>4, <1>10, NumberedKept
  <2>3. Below({buffer}, Len(sizes') + 1)
    BY <1>0, <1>4, NumberedKept
  <2> QED BY <2>1, <2>2, <2>3
<1>12. Below({buffer \o cells}, Len(sizes') + 1)
  BY <1>0, <1>4, <1>11, BelowConcat, Known
<1>13. CASE file' = Image /\ buffer' = cells
  <2>1. ASSUME NEW i \in 1 .. Len(cells)
        PROVE  ~Has(Image, tail' + i, cells[i]) /\ ~Has(disk, tail' + i, cells[i])
    BY <1>5, <1>10, NewNowhere
  <2>2. Fresh'
    BY <1>1, <1>13, <2>1 DEF Fresh
  <2>3. Below({file'}, Len(sizes') + 1)
    BY <1>0, <1>4, <1>10, <1>13, NumberedKept
  <2>4. Numbered'
    BY <1>11, <1>13, <2>3, NumberedParts
  <2> QED BY <1>1, <1>2, <1>4, <1>6, <1>8, <1>9, <2>2, <2>4 DEF LogInd
<1>14. CASE file' = file /\ tail' = tail /\ buffer' = buffer \o cells
  <2>1. ASSUME ~damaged, NEW i \in 1 .. Len(buffer \o cells)
        PROVE  ~Has(file, tail + i, (buffer \o cells)[i]) /\ ~Has(disk, tail + i, (buffer \o cells)[i])
    <3>1. PICK s \in Seq(Cell), t \in Seq(Cell) : s = buffer /\ t = cells
      BY <1>0, <1>4, Known
    <3>2. /\ Len(s \o t) = Len(s) + Len(t) /\ Len(s) \in Nat /\ Len(t) \in Nat
          /\ \A k \in 1 .. Len(s) : (s \o t)[k] = s[k]
          /\ \A k \in 1 .. Len(t) : (s \o t)[Len(s) + k] = t[k]
      OBVIOUS
    <3>3. i \in 1 .. Len(s) + Len(t)
      BY <3>1, <3>2
    <3>4. CASE i <= Len(s)
      <4>1. i \in 1 .. Len(s)
        BY <3>2, <3>3, <3>4
      <4>2. (s \o t)[i] = s[i]
        BY <3>2, <4>1
      <4> QED BY <1>0, <2>1, <3>1, <4>1, <4>2 DEF Fresh
    <3>5. CASE i > Len(s)
      <4>1. PICK k \in 1 .. Len(t) : i = Len(s) + k
        <5>1. i - Len(s) \in 1 .. Len(t) /\ i = Len(s) + (i - Len(s))
          BY <3>2, <3>3, <3>5
        <5> QED BY <5>1
      <4>2. (s \o t)[i] = <<N, k>>
        BY <1>5, <3>1, <3>2, <4>1
      <4> QED BY <1>10, <3>1, <4>2, NewNowhere
    <3> QED BY <3>2, <3>3, <3>4, <3>5
  <2>2. Fresh'
    BY <1>1, <1>14, <2>1 DEF Fresh
  <2>3. Below({file'}, Len(sizes') + 1)
    BY <1>0, <1>4, <1>10, <1>14, NumberedKept
  <2>4. Numbered'
    BY <1>11, <1>12, <1>14, <2>3, NumberedParts
  <2> QED BY <1>1, <1>2, <1>4, <1>6, <1>8, <1>9, <2>2, <2>4 DEF LogInd
<1>15. CASE AppendLarge(p) /\ file' = Image' /\ buffer' = <<>>
  <2>1. Fresh'
    BY <1>15, FreshEmpty
  <2>2. Below({buffer'}, Len(sizes') + 1)
    BY <1>0, <1>4, <1>15, NumberedKept
  <2>3. file' = Write(file, cursor, buffer \o cells)
    BY <1>2, <1>3, <1>15 DEF AppendLarge, FlushAnd
  <2>4. Below({file}, Len(sizes') + 1)
    BY <1>0, <1>4, <1>10, NumberedKept
  <2>5. buffer \o cells \in Seq(Cell)
    BY <1>0, <1>4, Known
  <2>6. PICK f \in Seq(Cell) : f = file
    BY <1>0, Known
  <2>7. PICK c \in 0 .. Len(f), d \in Seq(Cell) : c = cursor /\ d = buffer \o cells
    BY <1>0, <2>5, <2>6, Known
  <2>8. Below({Write(f, c, d)}, Len(sizes') + 1)
    BY <1>12, <2>4, <2>6, <2>7, BelowWrite
  <2>9. Below({file'}, Len(sizes') + 1)
    BY <2>3, <2>6, <2>7, <2>8
  <2>10. Numbered'
    BY <1>11, <2>2, <2>9, NumberedParts
  <2> QED BY <1>1, <1>2, <1>4, <1>6, <1>8, <1>9, <2>1, <2>10 DEF LogInd
<1> QED BY <1>7, <1>13, <1>14, <1>15

(* The file shows the same log, perhaps flushed.                            *)
Still ==
  /\ Image' = Image /\ Grown /\ damaged' = damaged
  /\ disk' = disk \/ disk' = Image
  /\ \/ buffer' = <<>> /\ file' \in {file, Image}
     \/ UNCHANGED <<file, disk, tail, buffer>>
  /\ st' = "Open" => st = "Open"
  /\ st' = "Closed" => buffer' = <<>>
  /\ st' = "None" => buffer' = <<>> /\ sizes' = sizes
  /\ st' # "None" => st # "None" /\ log' = log /\ tail' + Len(buffer') = tail + Len(buffer)
  /\ st = "None" => file' = file /\ disk' = disk /\ st' = "None"

LEMMA StillInd ==
  ASSUME LogInd, WalInd', Still PROVE LogInd'
<1>0. TypeOK /\ TypeOK' /\ Quiet /\ Clean /\ Fresh /\ Numbered /\ Idle
  BY DEF LogInd, WalInd
<1>1. file' \in Files /\ disk' \in Files /\ buffer' \in {buffer, <<>>} /\ Grown
  BY DEF Still, Files
<1>2. ASSUME Stuck PROVE Stuck'
  <2>1. st' = "None" /\ file' = disk' /\ sizes' = sizes /\ Image' = Image
    BY <1>2 DEF Stuck, Still
  <2>2. Scan(Image)' = Scan(Image)
    BY <2>1, ScanSame
  <2> QED BY <1>2, <2>1, <2>2 DEF Stuck
<1>3. Clean'
  BY <1>0, <1>1, <1>2, CleanSame DEF Still
<1>4. Fresh'
  <2>1. CASE buffer' = <<>>
    BY <2>1, FreshEmpty
  <2>2. CASE UNCHANGED <<file, disk, tail, buffer>>
    BY <1>0, <2>2, FreshSame DEF Still
  <2> QED BY <2>1, <2>2 DEF Still
<1>5. Numbered'
  BY <1>0, <1>1, NumberedMoves
<1>6. Idle'
  <2>1. st' \in {"Open", "Closed", "None"}
    BY <1>0 DEF TypeOK
  <2> QED BY <2>1 DEF Still, Idle
<1> QED BY <1>3, <1>4, <1>5, <1>6 DEF LogInd

LEMMA FlushStill ==
  ASSUME LogInd, TypeOK', Sync \/ SyncFails \/ Close PROVE Still /\ sizes' = sizes
<1>0. TypeOK /\ Quiet
  BY DEF LogInd, WalInd
<1>1. /\ st # "None" /\ FlushAnd(<<>>) /\ buffer' = <<>> /\ disk' \in {disk, file'}
      /\ UNCHANGED <<sizes, log, damaged>> /\ (st' = st \/ (Close /\ st' = "Closed"))
  BY DEF Sync, SyncFails, Close
<1>2. file' = Image /\ tail' = tail + Len(buffer) /\ Image' = Image /\ tail' \in Nat
  BY <1>0, <1>1, FlushKeeps
<1>3. tail' + Len(buffer') = tail + Len(buffer)
  <2>1. Len(buffer') = 0
    BY <1>1
  <2> QED BY <1>2, <2>1
<1> QED BY <1>1, <1>2, <1>3 DEF Still, Grown

LEMMA IdleStill ==
  ASSUME LogInd, TypeOK', Drop \/ ReplayRef \/ Replay \/ IterNext \/ IterEnd \/ DropIter \/ UNCHANGED vars
  PROVE  Still /\ UNCHANGED <<sizes, acked, damaged, troubles>>
<1>0. TypeOK /\ Quiet /\ Idle
  BY DEF LogInd, WalInd
<1>1. CASE Drop
  <2>1. /\ buffer = <<>> /\ buffer' = <<>> /\ st' = "None" /\ st = "Closed"
        /\ UNCHANGED <<file, disk, sizes, acked, damaged, troubles>>
    BY <1>0, <1>1 DEF Drop, Forget, Idle
  <2>2. Image' = Image
    BY <2>1 DEF Image
  <2> QED BY <2>1, <2>2 DEF Still, Grown
<1>2. CASE ReplayRef
  <2>1. /\ st # "None" /\ buffer = <<>>
        /\ UNCHANGED <<file, disk, tail, buffer, st, sizes, log, acked, damaged, troubles>>
    BY <1>2 DEF ReplayRef, handleVars, histVars
  <2>2. Image' = Image
    BY <2>1 DEF Image
  <2> QED BY <2>1, <2>2 DEF Still, Grown
<1>3. CASE Replay
  <2>1. /\ st # "None" /\ file' = Write(file, cursor, buffer) /\ buffer' = <<>> /\ st' = "None"
        /\ UNCHANGED <<disk, sizes, acked, damaged, troubles>>
    BY <1>3 DEF Replay, Forget
  <2>2. file' = Image /\ Image' = file'
    BY <1>0, <2>1, ImageIs DEF Image
  <2> QED BY <2>1, <2>2 DEF Still, Grown
<1>4. CASE IterNext \/ IterEnd \/ DropIter
  <2>1. /\ iter.live
        /\ UNCHANGED <<file, disk, tail, buffer, st, sizes, log, acked, damaged, troubles>>
    BY <1>4 DEF IterNext, NextBy, IterEnd, DropIter, fileVars, handleVars, histVars
  <2>2. buffer = <<>> /\ Image' = Image
    BY <1>0, <2>1 DEF Quiet, Image
  <2> QED BY <2>1, <2>2 DEF Still, Grown
<1>5. CASE UNCHANGED vars
  <2>1. UNCHANGED <<file, cursor, disk, tail, buffer, st, sizes, log, acked, damaged, troubles>>
    BY <1>5 DEF vars, fileVars, handleVars, histVars
  <2>2. Image' = Image /\ (st # "Open" => buffer = <<>>)
    BY <1>0, <2>1 DEF Image, Idle
  <2> QED BY <2>1, <2>2 DEF Still, Grown
<1> QED BY <1>1, <1>2, <1>3, <1>4, <1>5

LEMMA WriteFailsStill ==
  ASSUME ~AppendAfterReplay, LogInd, NEW p \in {0} \cup Large, NEW n \in Cuts, WriteFails(p, n),
         ~damaged'
  PROVE  Still /\ st # "None" /\ st' = st
<1>0. TypeOK /\ Quiet
  BY DEF LogInd, WalInd
<1>1. /\ Image' = Image /\ tail' + Len(buffer') = tail + Len(buffer)
      /\ \/ file' = file /\ buffer' = buffer /\ tail' = tail
         \/ file' = Image /\ buffer' = <<>>
  BY <1>0, WriteFailsShape
<1>2. /\ st = "Open" /\ UNCHANGED <<disk, st, log>> /\ n \in Nat
      /\ (IF p = 0 THEN UNCHANGED sizes ELSE NewRecord(p)) /\ n < Len(CutData(p))
      /\ damaged' = (damaged \/ n > (IF p = 0 THEN 0 ELSE Len(buffer)))
  BY WalAssumption DEF WriteFails, CutData
<1>2a. damaged' = damaged
  <2>1. damaged \in BOOLEAN
    BY <1>0 DEF TypeOK
  <2> QED BY <1>2, <2>1, Zenon
<1>3. Grown
  BY <1>0, <1>2, CutQuiet
<1> QED BY <1>1, <1>2, <1>2a, <1>3 DEF Still

(* A cut write leaves the numbers below.                                    *)
LEMMA CutNumbered ==
  ASSUME ~AppendAfterReplay, TypeOK, Quiet, Numbered, NEW p \in {0} \cup Large, NEW n \in Nat,
         n = 0 \/ n < Len(CutData(p)), IF p = 0 THEN UNCHANGED sizes ELSE NewRecord(p),
         file' = Write(file, cursor, SubSeq(CutData(p), 1, n))
  PROVE  Below({file'}, Len(sizes') + 1)
<1>1. PICK cs : /\ Cut(file', file, tail, buffer, cs, n)
                /\ Len(cs) \in Nat /\ \A c \in 1 .. Len(cs) : cs[c] = <<Len(sizes) + 1, c>>
                /\ p = 0 => Len(cs) = 0
  BY CutFile
<1>2. Grown
  BY CutQuiet
<1>3. Below({file}, Len(sizes') + 1) /\ Below({buffer}, Len(sizes') + 1)
  <2>1. file \in Files
    BY DEF Files
  <2> QED BY <1>2, <2>1, NumberedKept
<1>4. Len(sizes) \in Nat /\ (p # 0 => Len(sizes') = Len(sizes) + 1)
  <2>1. sizes \in Seq(Nat)
    BY Known
  <2> QED BY <2>1 DEF NewRecord
<1>5. PICK h, l : h = file' /\ l = Len(sizes') + 1
  OBVIOUS
<1>6. ASSUME NEW i \in 1 .. Len(h) PROVE h[i][1] \in Nat /\ h[i][1] < l
  <2>1. CASE Has(file, i, h[i])
    BY <1>3, <1>5, <2>1 DEF Has, Below
  <2>2. CASE \E c \in 1 .. Len(buffer) : i = tail + c /\ h[i] = buffer[c]
    BY <1>3, <1>5, <2>2 DEF Below
  <2>3. CASE \E c \in 1 .. Len(cs) : i = tail + Len(buffer) + c /\ h[i] = cs[c]
    <3>1. PICK c \in 1 .. Len(cs) : h[i] = cs[c]
      BY <2>3
    <3>2. h[i][1] = Len(sizes) + 1
      BY <1>1, <3>1
    <3>3. p # 0
      BY <1>1, <3>1
    <3>4. l = Len(sizes) + 1 + 1
      BY <1>4, <1>5, <3>3
    <3> QED BY <1>4, <3>2, <3>4
  <2> QED BY <1>1, <1>5, <2>1, <2>2, <2>3 DEF Cut
<1> QED BY <1>5, <1>6 DEF Below

LEMMA WriteFailsLogInd ==
  ASSUME ~AppendAfterReplay, LogInd, WalInd', NEW p \in {0} \cup Large, NEW n \in Cuts, WriteFails(p, n)
  PROVE  LogInd'
<1>1. CASE ~damaged'
  BY <1>1, WriteFailsStill, StillInd
<1>2. CASE damaged'
  <2>0. TypeOK /\ TypeOK' /\ Quiet /\ Numbered
    BY DEF LogInd, WalInd
  <2>1. Clean' /\ Fresh'
    BY <1>2 DEF Clean, Fresh
  <2>2. /\ st' = "Open" /\ disk' = disk /\ buffer' \in {buffer, <<>>} /\ n \in Nat
        /\ (IF p = 0 THEN UNCHANGED sizes ELSE NewRecord(p)) /\ n < Len(CutData(p))
        /\ file' = Write(file, cursor, SubSeq(CutData(p), 1, n))
    BY WalAssumption DEF WriteFails, CutData
  <2>3. Below({file'}, Len(sizes') + 1)
    BY <2>0, <2>2, CutNumbered
  <2>4. Grown
    BY <2>0, <2>2, CutQuiet
  <2>5. Below({disk'}, Len(sizes') + 1)
    <3>1. disk' \in Files
      BY <2>2 DEF Files
    <3> QED BY <2>0, <2>4, <3>1, NumberedKept
  <2>6. Below({buffer'}, Len(sizes') + 1)
    BY <2>0, <2>2, <2>4, NumberedKept
  <2>7. Numbered'
    BY <2>3, <2>5, <2>6, NumberedParts
  <2> QED BY <2>1, <2>2, <2>7 DEF LogInd, Idle
<1> QED BY <1>1, <1>2, Known DEF WalInd, TypeOK

LEMMA OpenLogInd ==
  ASSUME LogInd, WalInd', Open PROVE LogInd'
<1>0. TypeOK /\ TypeOK' /\ Quiet /\ Clean /\ Numbered
  BY DEF LogInd, WalInd
<1>1. buffer' = <<>> /\ st' = "Open" /\ UNCHANGED <<file, disk, sizes>>
  BY DEF Open
<1>2. Clean'
  BY <1>0, CleanOpen
<1>3. Numbered'
  BY <1>0, <1>1, NumberedMoves DEF Grown, Files
<1> QED BY <1>1, <1>2, <1>3, FreshEmpty DEF LogInd, Idle

LEMMA KillLogInd ==
  ASSUME ~AppendAfterReplay, LogInd, WalInd', NEW p \in {0} \cup Large, NEW n \in Cuts, Kill(p, n)
  PROVE  LogInd' /\ (~damaged => IsPrefix(Entries', Entries))
<1>0. TypeOK /\ TypeOK' /\ Quiet /\ Clean /\ Fresh /\ Numbered
  BY DEF LogInd, WalInd
<1>1. /\ disk' = disk /\ n \in Nat
      /\ (IF p = 0 THEN UNCHANGED sizes ELSE NewRecord(p)) /\ (n = 0 \/ n < Len(CutData(p)))
      /\ file' = Write(file, cursor, SubSeq(CutData(p), 1, n)) /\ LoseProcess
  BY WalAssumption DEF Kill, CutData
<1>2. buffer' = <<>> /\ st' = "None" /\ damaged' = damaged
  BY <1>1 DEF LoseProcess, Forget
<1>3. Numbered'
  <2>1. Below({file'}, Len(sizes') + 1)
    BY <1>0, <1>1, CutNumbered
  <2>2. Grown /\ disk' \in Files
    BY <1>0, <1>1, CutQuiet DEF Files
  <2>3. Below({disk'}, Len(sizes') + 1)
    BY <1>0, <2>2, NumberedKept
  <2>4. Below({buffer'}, Len(sizes') + 1)
    BY <1>0, <1>2, <2>2, NumberedKept
  <2> QED BY <2>1, <2>3, <2>4, NumberedParts
<1>4. Fresh' /\ Idle'
  BY <1>2, FreshEmpty DEF Idle
<1>5. CASE damaged
  <2>1. Clean'
    BY <1>2, <1>5 DEF Clean
  <2> QED BY <1>3, <1>4, <1>5, <2>1 DEF LogInd
<1>6. CASE ~damaged /\ st # "None"
  <2>1. Clean' /\ IsPrefix(Entries', Entries)
    BY <1>0, <1>6, CleanKill
  <2> QED BY <1>3, <1>4, <2>1 DEF LogInd
<1>7. CASE ~damaged /\ st = "None"
  <2>1. SubSeq(CutData(p), 1, n) = <<>> /\ sizes' = sizes
    BY <1>0, <1>1, <1>7, CutQuiet
  <2>2. file' = file /\ buffer = <<>>
    <3>1. Write(file, cursor, <<>>) = file
      BY <1>0, Known, WriteNothing
    <3> QED BY <1>0, <1>1, <1>7, <2>1, <3>1 DEF Quiet
  <2>3. Image' = Image
    BY <1>2, <2>2 DEF Image
  <2>4. Still
    BY <1>1, <1>2, <1>7, <2>1, <2>2, <2>3 DEF Still, Grown
  <2>5. LogInd'
    BY <2>4, StillInd
  <2>6. Entries' = Entries
    BY <2>1, <2>3, ScanSame DEF Entries
  <2>7. PICK s \in Seq(Record) : s = Entries
    BY <1>0, ScanKnown DEF ScanFacts
  <2>8. IsPrefix(s, s)
    BY ShownPrefix
  <2> QED BY <2>5, <2>6, <2>7, <2>8
<1> QED BY <1>5, <1>6, <1>7

LEMMA LossLogInd ==
  ASSUME LogInd, WalInd', PowerLoss
  PROVE  LogInd' /\ (~damaged => IsPrefix(Entries', Entries))
<1>0. TypeOK /\ TypeOK' /\ Quiet /\ Clean /\ Fresh /\ Numbered
  BY DEF LogInd, WalInd
<1>1. buffer' = <<>> /\ st' = "None" /\ damaged' = damaged /\ disk' = file' /\ sizes' = sizes
  BY DEF PowerLoss, LoseProcess, Forget
<1>2. Numbered'
  <2>1. PICK h, l : h = file' /\ l = Len(sizes) + 1
    OBVIOUS
  <2>2. Lossy(file, disk, h) /\ Below({file}, l) /\ Below({disk}, l) /\ l \in Nat /\ l > 0
    <3>1. Lossy(file, disk, h)
      BY <1>0, <2>1, PowerLossLossy
    <3>2. Below({file}, l) /\ Below({disk}, l)
      BY <1>0, <2>1 DEF Numbered, Below
    <3>3. l \in Nat /\ l > 0
      BY <1>0, <2>1, Known
    <3> QED BY <3>1, <3>2, <3>3
  <2>3. ASSUME NEW i \in 1 .. Len(h) PROVE h[i][1] \in Nat /\ h[i][1] < l
    <3>1. Len(h) <= Len(file) /\ (h[i] = file[i] \/ h[i] = Older(disk, i)) /\ Len(h) \in Nat
      <4>1. Len(h) \in Nat
        BY <1>0, <2>1 DEF TypeOK
      <4> QED BY <2>2, <4>1 DEF Lossy
    <3>2. CASE h[i] = file[i]
      <4>1. i \in 1 .. Len(file)
        BY <1>0, <3>1, Known
      <4> QED BY <2>2, <3>2, <4>1 DEF Below
    <3>3. CASE h[i] = Older(disk, i) /\ i <= Len(disk)
      <4>1. i \in 1 .. Len(disk) /\ h[i] = disk[i]
        BY <1>0, <3>3, <3>1, Known DEF Older
      <4> QED BY <2>2, <4>1 DEF Below
    <3>4. CASE h[i] = Older(disk, i) /\ ~(i <= Len(disk))
      <4>1. h[i] = <<0, 0>>
        BY <3>4 DEF Older, Hole
      <4>2. h[i][1] = 0
        BY <4>1
      <4> QED BY <2>2, <4>2
    <3> QED BY <3>1, <3>2, <3>3, <3>4
  <2>4. Below({file'}, Len(sizes') + 1)
    BY <1>1, <2>1, <2>3 DEF Below
  <2>5. Below({buffer'}, Len(sizes') + 1)
    BY <1>0, <1>1, NumberedKept DEF Grown
  <2> QED BY <1>1, <2>4, <2>5, NumberedParts
<1>3. Fresh' /\ Idle'
  BY <1>1, FreshEmpty DEF Idle
<1>4. CASE damaged
  BY <1>1, <1>2, <1>3, <1>4 DEF LogInd, Clean
<1>5. CASE ~damaged
  <2>1. Clean' /\ IsPrefix(Entries', Entries)
    BY <1>0, <1>5, CleanLoss
  <2> QED BY <1>2, <1>3, <2>1 DEF LogInd
<1> QED BY <1>4, <1>5

LEMMA LogInit == Init => LogInd
<1> SUFFICES ASSUME Init PROVE LogInd
  OBVIOUS
<1>1. WalInd /\ TypeOK
  BY WalInit, WalInitType
<1>2. /\ file = <<>> /\ disk = <<>> /\ buffer = <<>> /\ log = <<>> /\ tail = 0 /\ st = "Open"
      /\ sizes = <<>>
  BY DEF Init
<1>3. Image = <<>> /\ Len(buffer) = 0 /\ Files = {<<>>} /\ Len(sizes) = 0
  <2>1. Image = <<>>
    BY <1>2 DEF Image
  <2> QED BY <1>2, <2>1 DEF Files
<1>4. PICK f : f = <<>>
  OBVIOUS
<1>5. Len(f) = 0 /\ 1 .. Len(f) = {}
  BY <1>4
<1>6. PICK o : o = [k \in 1 .. 1 |-> 0]
  OBVIOUS
<1>7. Laid(f, f, f, o, 0) /\ StartsAt(o, 0)
  <2>1. 1 .. Len(f) + 1 = 1 .. 1
    BY <1>5
  <2> QED BY <1>5, <1>6, <2>1 DEF Laid, StartsAt
<1>8. NoneBut(f, {f}, f, o) /\ Downward(f, f, f, o)
  BY <1>5 DEF NoneBut, Downward
<1>9. Tidy(f, o, 0)
  <2>1. f \in Seq(Record)
    BY <1>4
  <2> QED BY <1>2, <1>3, <1>4, <1>7, <1>8, <2>1 DEF Tidy
<1>10. Fresh /\ Numbered
  <2>1. 1 .. Len(buffer) = {} /\ 1 .. Len(file) = {} /\ 1 .. Len(disk) = {}
    BY <1>2
  <2> QED BY <2>1 DEF Fresh, Numbered, Below
<1> QED BY <1>1, <1>2, <1>9, <1>10 DEF LogInd, Clean, Idle

LEMMA LogStep ==
  ASSUME ~AppendAfterReplay PROVE LogInd /\ [Next]_vars => LogInd'
<1> SUFFICES ASSUME LogInd, [Next]_vars PROVE LogInd'
  OBVIOUS
<1>0. WalInd' /\ TypeOK'
  <2>1. WalInd'
    BY WalStep DEF LogInd
  <2> QED BY <2>1 DEF WalInd
<1>1. CASE \E p \in Payloads : AppendBuffered(p) \/ AppendLarge(p)
  BY <1>0, <1>1, AppendLogInd
<1>2. CASE Sync \/ SyncFails \/ Close
  BY <1>0, <1>2, FlushStill, StillInd
<1>3. CASE \E p \in {0} \cup Large, n \in Cuts : WriteFails(p, n)
  BY <1>0, <1>3, WriteFailsLogInd
<1>4. CASE Drop \/ ReplayRef \/ Replay \/ IterNext \/ IterEnd \/ DropIter \/ UNCHANGED vars
  BY <1>0, <1>4, IdleStill, StillInd
<1>5. CASE Open
  BY <1>0, <1>5, OpenLogInd
<1>6. CASE \E p \in {0} \cup Large, n \in Cuts : Kill(p, n)
  BY <1>0, <1>6, KillLogInd
<1>7. CASE PowerLoss
  BY <1>0, <1>7, LossLogInd
<1> QED BY <1>1, <1>2, <1>3, <1>4, <1>5, <1>6, <1>7 DEF Next

-------------------------------------------------------------------------------
(* What was acked is shown first.                                           *)
ShownAcked == /\ Entries \in Seq(Record) /\ acked \in Seq(Record)
              /\ Len(acked) <= Len(Entries) /\ \A j \in 1 .. Len(acked) : Entries[j] = acked[j]

LEMMA AckedShown == WalInd => ShownAcked
<1> SUFFICES ASSUME WalInd PROVE ShownAcked
  OBVIOUS
<1>0. TypeOK /\ Quiet /\ AckedLaid
  BY DEF WalInd
<1>1. PICK o, e : AckedAt(o, e)
  BY <1>0 DEF AckedLaid
<1>2. Laid(sizes, file, acked, o, e) /\ StartsAt(o, 0)
  BY <1>1 DEF AckedAt
<1>3. Laid(sizes, Image, acked, o, e)
  <2>1. CASE buffer = <<>>
    BY <1>2, <2>1 DEF Image
  <2>2. CASE buffer # <<>>
    <3>1. st # "None" /\ cursor = tail /\ buffer \in Seq(Cell)
      BY <1>0, <2>2, Known DEF Quiet
    <3>2. Laid(sizes, Write(file, cursor, buffer), acked, o, e)
      BY <1>0, <1>1, <3>1, AckedWrite
    <3> QED BY <2>2, <3>2 DEF Image
  <2> QED BY <2>1, <2>2
<1>4. ScanFacts /\ acked \in Seq(Record)
  BY <1>0, ScanKnown, Known
<1> QED BY <1>2, <1>3, <1>4 DEF ScanFacts, ShownAcked

LEMMA AckedShownNext == WalInd' => ShownAcked'
BY AckedShown, PTL

(* Where the promise is already broken, or breaks, the acked entries stay.  *)
LEMMA DamageStep ==
  ASSUME WalInd, WalInd', damaged \/ damaged', acked' = acked PROVE Durable!Damage
<1>0. ShownAcked /\ ShownAcked' /\ damaged' \in BOOLEAN
  BY AckedShown, AckedShownNext DEF WalInd, TypeOK
<1>1. PICK a \in Seq(Record), s \in Seq(Record), t \in Seq(Record) :
        a = acked /\ s = Entries /\ t = Entries'
  BY <1>0 DEF ShownAcked
<1>2. /\ Len(a) <= Len(s) /\ \A j \in 1 .. Len(a) : s[j] = a[j]
      /\ Len(a) <= Len(t) /\ \A j \in 1 .. Len(a) : t[j] = a[j]
      /\ Len(a) \in Nat /\ Len(s) \in Nat
  BY <1>0, <1>1 DEF ShownAcked
<1>3. PICK u : u = SubSeq(s, 1, Len(a))
  OBVIOUS
<1>4. u \in Seq(Record) /\ Len(u) = Len(a) /\ \A j \in 1 .. Len(a) : u[j] = s[j]
  BY <1>2, <1>3
<1>5. \A j \in 1 .. Len(u) : t[j] = u[j]
  BY <1>2, <1>4
<1>6. IsPrefix(u, t)
  BY <1>2, <1>4, <1>5, PrefixIs
<1>7. IsPrefix(SubSeq(Entries, 1, Len(acked)), Entries') /\ Len(acked') = Len(acked)
  BY <1>1, <1>3, <1>6
<1> QED BY <1>0, <1>7 DEF Durable!Damage, Durable!IsPrefix, IsPrefix, Entries

LEMMA LoseStep ==
  ASSUME WalInd, WalInd', ~damaged, IsPrefix(Entries', Entries), acked' = acked, damaged' = damaged,
         troubles' = troubles + 1
  PROVE  Durable!Lose
<1>0. ShownAcked'
  BY AckedShownNext
<1>1. Len(Entries') >= Len(acked)
  BY <1>0 DEF ShownAcked
<1>2. troubles' > troubles
  BY DEF WalInd, TypeOK
<1> QED BY <1>1, <1>2 DEF Durable!Lose, Durable!IsPrefix, IsPrefix, Entries

LEMMA StutterStep ==
  ASSUME UNCHANGED <<Image, sizes, acked, damaged, troubles>> PROVE UNCHANGED Durable!lvars
<1>1. Entries' = Entries
  BY ScanSame DEF Entries
<1>2. Len(acked') = Len(acked)
  OBVIOUS
<1> QED BY <1>1, <1>2 DEF Durable!lvars, Entries

(* While a handle is open, and nothing is damaged, what is shown is its log. *)
LogShown == st # "None" /\ ~damaged => Entries = log

LEMMA LogIsShown == LogInd => LogShown
<1> SUFFICES ASSUME LogInd, st # "None", ~damaged PROVE Entries = log
  BY DEF LogShown
<1>1. TypeOK /\ Clean
  BY DEF LogInd, WalInd
<1>2. PICK rs, o, e : Tidy(rs, o, e)
  BY <1>1 DEF Clean, Stuck
<1>3. TidyEntries
  BY <1>1, TidyShown
<1> QED BY <1>2, <1>3 DEF TidyEntries, Tidy

LEMMA LogIsShownNext == LogInd' => LogShown'
BY LogIsShown, PTL

LEMMA LogImplements ==
  ASSUME ~AppendAfterReplay PROVE LogInd /\ [Next]_vars => [Durable!Next]_(Durable!lvars)
<1> SUFFICES ASSUME LogInd, [Next]_vars PROVE Durable!Next \/ UNCHANGED Durable!lvars
  OBVIOUS
<1>0. /\ LogInd' /\ WalInd /\ WalInd' /\ TypeOK' /\ damaged \in BOOLEAN /\ damaged' \in BOOLEAN
      /\ LogShown /\ LogShown'
  <2>1. LogInd'
    BY LogStep
  <2>2. LogShown /\ LogShown'
    BY <2>1, LogIsShown, LogIsShownNext
  <2> QED BY <2>1, <2>2 DEF LogInd, WalInd, TypeOK
<1>1. CASE \E p \in Payloads : AppendBuffered(p) \/ AppendLarge(p)
  <2>1. /\ log' = Append(log, Len(sizes) + 1) /\ Len(sizes) + 1 \in Record /\ st = "Open"
        /\ UNCHANGED <<st, acked, damaged, troubles>>
    BY <1>0, <1>1, AppendLogInd
  <2>2. CASE damaged
    BY <1>0, <2>1, <2>2, DamageStep DEF Durable!Next
  <2>3. CASE ~damaged
    <3>1. Entries = log /\ Entries' = log'
      BY <1>0, <2>1, <2>3 DEF LogShown
    <3>2. Entries' = Append(Entries, Len(sizes) + 1) /\ Len(acked') = Len(acked)
      BY <2>1, <3>1
    <3>3. Durable!AppendEntry
      BY <2>1, <2>3, <3>2 DEF Durable!AppendEntry, Entries
    <3> QED BY <3>3 DEF Durable!Next
  <2> QED BY <2>2, <2>3
<1>2. CASE Sync \/ SyncFails \/ Close
  <2>1. Still /\ sizes' = sizes
    BY <1>0, <1>2, FlushStill
  <2>2. Image' = Image /\ damaged' = damaged /\ Entries' = Entries
    <3>1. Image' = Image /\ damaged' = damaged
      BY <2>1 DEF Still
    <3> QED BY <2>1, <3>1, ScanSame DEF Entries
  <2>3. CASE damaged
    <3>1. acked' = acked
      BY <1>2, <2>3 DEF Sync, SyncFails, Close
    <3> QED BY <1>0, <2>3, <3>1, DamageStep DEF Durable!Next
  <2>4. CASE ~damaged /\ Sync
    <3>1. Entries = log /\ acked' = log /\ troubles' = troubles
      BY <1>0, <2>4 DEF Sync, LogShown
    <3>2. Len(acked') = Len(Entries)
      BY <3>1
    <3>3. Durable!Stabilise
      BY <2>2, <2>4, <3>1, <3>2 DEF Durable!Stabilise, Entries
    <3> QED BY <3>3 DEF Durable!Next
  <2>5. CASE ~damaged /\ SyncFails
    <3>1. acked' = acked /\ troubles' = troubles + 1
      BY <2>5 DEF SyncFails
    <3>2. PICK s \in Seq(Record) : s = Entries
      BY <1>0, AckedShown DEF ShownAcked
    <3>3. IsPrefix(s, s)
      BY ShownPrefix
    <3>4. IsPrefix(Entries', Entries)
      BY <2>2, <3>2, <3>3
    <3>5. Durable!Lose
      BY <1>0, <2>2, <2>5, <3>1, <3>4, LoseStep
    <3> QED BY <3>5 DEF Durable!Next
  <2>6. CASE Close
    <3>1. acked' = acked /\ troubles' = troubles
      BY <2>6 DEF Close
    <3> QED BY <2>1, <2>2, <3>1, StutterStep
  <2> QED BY <1>2, <2>3, <2>4, <2>5, <2>6
<1>3. CASE \E p \in {0} \cup Large, n \in Cuts : WriteFails(p, n)
  <2>1. PICK p \in {0} \cup Large, n \in Cuts : WriteFails(p, n)
    BY <1>3
  <2>2. acked' = acked /\ troubles' = troubles + 1
    BY <2>1 DEF WriteFails
  <2>3. CASE damaged'
    BY <1>0, <2>2, <2>3, DamageStep DEF Durable!Next
  <2>4. CASE ~damaged'
    <3>1. Still /\ st # "None" /\ st' = st
      BY <1>0, <2>1, <2>4, WriteFailsStill
    <3>2. damaged' = damaged /\ log' = log
      BY <3>1 DEF Still
    <3>3. Entries = log /\ Entries' = log
      BY <1>0, <2>4, <3>1, <3>2 DEF LogShown
    <3>4. PICK s \in Seq(Record) : s = Entries
      BY <1>0, AckedShown DEF ShownAcked
    <3>5. IsPrefix(s, s)
      BY ShownPrefix
    <3>6. IsPrefix(Entries', Entries)
      BY <3>3, <3>4, <3>5
    <3>7. Durable!Lose
      BY <1>0, <2>2, <2>4, <3>2, <3>6, LoseStep
    <3> QED BY <3>7 DEF Durable!Next
  <2> QED BY <2>3, <2>4
<1>4. CASE Drop \/ ReplayRef \/ Replay \/ IterNext \/ IterEnd \/ DropIter \/ UNCHANGED vars
  <2>1. Still /\ UNCHANGED <<sizes, acked, damaged, troubles>>
    BY <1>0, <1>4, IdleStill
  <2>2. Image' = Image
    BY <2>1 DEF Still
  <2> QED BY <2>1, <2>2, StutterStep
<1>5. CASE Open
  <2>1. UNCHANGED <<file, sizes, acked, troubles>> /\ buffer' = <<>> /\ st = "None"
        /\ (~damaged => ~damaged')
    BY <1>5 DEF Open
  <2>2. CASE damaged
    BY <1>0, <2>1, <2>2, DamageStep DEF Durable!Next
  <2>3. CASE ~damaged
    <3>1. buffer = <<>>
      BY <1>0, <2>1 DEF WalInd, Quiet
    <3>2. Image' = Image /\ damaged' = damaged
      BY <1>0, <2>1, <2>3, <3>1 DEF Image
    <3> QED BY <2>1, <3>2, StutterStep
  <2> QED BY <2>2, <2>3
<1>6. ASSUME LoseProcess, ~damaged => IsPrefix(Entries', Entries) PROVE Durable!Next
  <2>1. acked' = acked /\ damaged' = damaged /\ troubles' = troubles + 1
    BY <1>6 DEF LoseProcess
  <2>2. CASE damaged
    BY <1>0, <2>1, <2>2, DamageStep DEF Durable!Next
  <2>3. CASE ~damaged
    BY <1>0, <1>6, <2>1, <2>3, LoseStep DEF Durable!Next
  <2> QED BY <2>2, <2>3
<1>7. CASE \E p \in {0} \cup Large, n \in Cuts : Kill(p, n)
  <2>1. PICK p \in {0} \cup Large, n \in Cuts : Kill(p, n)
    BY <1>7
  <2>2. LoseProcess
    BY <2>1 DEF Kill
  <2>3. ~damaged => IsPrefix(Entries', Entries)
    BY <1>0, <2>1, KillLogInd
  <2> QED BY <1>6, <2>2, <2>3
<1>8. CASE PowerLoss
  <2>1. LoseProcess
    BY <1>8 DEF PowerLoss
  <2>2. ~damaged => IsPrefix(Entries', Entries)
    BY <1>0, <1>8, LossLogInd
  <2> QED BY <1>6, <2>1, <2>2
<1> QED BY <1>1, <1>2, <1>3, <1>4, <1>5, <1>7, <1>8 DEF Next

(* The log file implements the durable log of the abstract specification:   *)
(* through every flush, cut write, kill, loss of power, close and reopening *)
(* the records a scan finds are neither lost, reordered, doubled nor        *)
(* brought back, as long as no client appends through the offset that       *)
(* replay_ref moved.                                                        *)
THEOREM LogImplementsDurableLog ==
  ASSUME ~AppendAfterReplay PROVE Spec => ImplementsDurableLog
<1>1. Init => Durable!Init
  <2> SUFFICES ASSUME Init PROVE Durable!Init
    OBVIOUS
  <2>1. acked = <<>> /\ damaged = FALSE /\ troubles = 0 /\ st = "Open" /\ log = <<>>
    BY DEF Init
  <2>2. Entries = log
    BY <2>1, LogInit, LogIsShown DEF LogShown
  <2>3. Len(acked) = 0
    BY <2>1
  <2> QED BY <2>1, <2>2, <2>3 DEF Durable!Init, Entries
<1>2. LogInd /\ [Next]_vars => LogInd'
  BY LogStep
<1>3. LogInd /\ [Next]_vars => [Durable!Next]_(Durable!lvars)
  BY LogImplements
<1> QED BY <1>1, <1>2, <1>3, LogInit, PTL DEF Spec, ImplementsDurableLog, Durable!Spec

================================================================================
