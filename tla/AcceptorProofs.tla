---------------------------- MODULE AcceptorProofs ----------------------------
(***************************************************************************)
(* The acceptors of the local proxies and the handshakes they run.         *)
(*                                                                         *)
(* For any connections, any capacity of the channel and any number of      *)
(* errors, and for both kinds of acceptor: a connection is returned once   *)
(* at most, and never when the acceptor closes it.                         *)
(*                                                                         *)
(* For any targets and any amount of data, however the bytes are cut: the  *)
(* two sides of a handshake agree, no byte of it reaches a user, and none  *)
(* of the users' is lost but at the places StreamKept names.               *)
(***************************************************************************)
EXTENDS Acceptor, ProxyHandshake, FiniteSetTheorems, SequenceTheorems, TLAPS

-----------------------------------------------------------------------------
(* Streams: what is read off the front of what is written at the end       *)

Bytes == Seq(Int)

LEMMA DropIs ==
    ASSUME NEW s \in Bytes, NEW n \in 0 .. Len(s)
    PROVE  /\ Drop(s, n) \in Bytes /\ Len(Drop(s, n)) = Len(s) - n
           /\ \A i \in 1 .. Len(s) - n : Drop(s, n)[i] = s[n + i]
<1>1. Len(s) \in Nat /\ n \in Nat /\ n <= Len(s)
  BY DEF Bytes
<1>2. \A i \in n + 1 .. Len(s) : s[i] \in Int
  BY <1>1 DEF Bytes
<1>3. /\ SubSeq(s, n + 1, Len(s)) \in Seq(Int)
      /\ Len(SubSeq(s, n + 1, Len(s))) = IF n + 1 <= Len(s) THEN Len(s) - (n + 1) + 1 ELSE 0
      /\ \A i \in 1 .. Len(s) - (n + 1) + 1 : SubSeq(s, n + 1, Len(s))[i] = s[(n + 1) + i - 1]
  <2>1. n + 1 \in Int /\ Len(s) \in Int
    BY <1>1
  <2> QED BY <1>2, <2>1, SubSeqProperties
<1>4. \A i \in 1 .. Len(s) - n : (n + 1) + i - 1 = n + i /\ i \in 1 .. Len(s) - (n + 1) + 1
  BY <1>1
<1>5. (IF n + 1 <= Len(s) THEN Len(s) - (n + 1) + 1 ELSE 0) = Len(s) - n
  BY <1>1
<1> QED BY <1>3, <1>4, <1>5 DEF Drop, Bytes

LEMMA TakeIs ==
    ASSUME NEW s \in Bytes, NEW n \in 0 .. Len(s)
    PROVE  /\ SubSeq(s, 1, n) \in Bytes /\ Len(SubSeq(s, 1, n)) = n
           /\ \A i \in 1 .. n : SubSeq(s, 1, n)[i] = s[i]
<1>1. Len(s) \in Nat /\ n \in Nat /\ n <= Len(s) /\ n \in Int
  BY DEF Bytes
<1>2. \A i \in 1 .. n : s[i] \in Int
  BY <1>1 DEF Bytes
<1>3. /\ SubSeq(s, 1, n) \in Seq(Int)
      /\ Len(SubSeq(s, 1, n)) = IF 1 <= n THEN n - 1 + 1 ELSE 0
      /\ \A i \in 1 .. n - 1 + 1 : SubSeq(s, 1, n)[i] = s[1 + i - 1]
  BY <1>1, <1>2, SubSeqProperties
<1>4. (IF 1 <= n THEN n - 1 + 1 ELSE 0) = n
  BY <1>1
<1>5. \A i \in 1 .. n : 1 + i - 1 = i /\ i \in 1 .. n - 1 + 1
  BY <1>1
<1> QED BY <1>3, <1>4, <1>5 DEF Bytes

LEMMA CatIs ==
    ASSUME NEW s \in Bytes, NEW t \in Bytes
    PROVE  /\ s \o t \in Bytes /\ Len(s \o t) = Len(s) + Len(t)
           /\ Len(s) \in Nat /\ Len(t) \in Nat
           /\ \A i \in 1 .. Len(s) : (s \o t)[i] = s[i]
           /\ \A i \in 1 .. Len(t) : (s \o t)[Len(s) + i] = t[i]
<1>1. /\ s \o t \in Bytes /\ Len(s \o t) = Len(s) + Len(t)
      /\ \A i \in 1 .. Len(s) + Len(t) :
             (s \o t)[i] = IF i <= Len(s) THEN s[i] ELSE t[i - Len(s)]
  BY ConcatProperties DEF Bytes
<1>2. Len(s) \in Nat /\ Len(t) \in Nat
  BY DEF Bytes
<1>3. \A i \in 1 .. Len(s) : i \in 1 .. Len(s) + Len(t) /\ i <= Len(s)
  BY <1>2
<1>4. \A i \in 1 .. Len(t) : /\ Len(s) + i \in 1 .. Len(s) + Len(t) /\ ~(Len(s) + i <= Len(s))
                             /\ (Len(s) + i) - Len(s) = i
  BY <1>2
<1>5. \A i \in 1 .. Len(s) : (s \o t)[i] = s[i]
  BY <1>1, <1>3
<1>6. \A i \in 1 .. Len(t) : (s \o t)[Len(s) + i] = t[i]
  BY <1>1, <1>4
<1> QED BY <1>1, <1>2, <1>5, <1>6

LEMMA Assoc ==
    ASSUME NEW s \in Bytes, NEW t \in Bytes, NEW u \in Bytes
    PROVE  (s \o t) \o u = s \o (t \o u)
BY ConcatAssociative DEF Bytes

(* The same, for where other facts would make the provers go on for ever   *)
Regroups(s, t, u) == (s \o t) \o u = s \o (t \o u)

LEMMA Regroup ==
    ASSUME NEW s \in Bytes, NEW t \in Bytes, NEW u \in Bytes
    PROVE  Regroups(s, t, u)
BY Assoc DEF Regroups

LEMMA EmptyIs ==
    /\ <<>> \in Bytes /\ Len(<<>>) = 0
    /\ \A s \in Bytes : <<>> \o s = s /\ s \o <<>> = s
BY ConcatEmptySeq DEF Bytes

LEMMA Same ==
    ASSUME NEW s \in Bytes, NEW t \in Bytes, Len(s) = Len(t), \A i \in 1 .. Len(s) : s[i] = t[i]
    PROVE  s = t
BY SeqEqual DEF Bytes

(* A Read moves bytes from the wire behind what was read before.           *)
LEMMA ReadOn ==
    ASSUME NEW s \in Bytes, NEW t \in Bytes, NEW k \in 1 .. Len(t)
    PROVE  /\ SubSeq(t, 1, k) \in Bytes /\ Drop(t, k) \in Bytes /\ s \o SubSeq(t, 1, k) \in Bytes
           /\ (s \o SubSeq(t, 1, k)) \o Drop(t, k) = s \o t
           /\ Len(s \o SubSeq(t, 1, k)) = Len(s) + k
<1> DEFINE x == SubSeq(t, 1, k)
           y == Drop(t, k)
<1>0. k \in 0 .. Len(t) /\ Len(t) \in Nat /\ k \in Nat
  BY DEF Bytes
<1>1. x \in Bytes /\ Len(x) = k /\ \A i \in 1 .. k : x[i] = t[i]
  BY <1>0, TakeIs
<1>2. y \in Bytes /\ Len(y) = Len(t) - k /\ \A i \in 1 .. Len(t) - k : y[i] = t[k + i]
  BY <1>0, DropIs
<1> HIDE DEF x, y
<1>3. x \o y = t
  <2>1. /\ x \o y \in Bytes /\ Len(x \o y) = Len(x) + Len(y)
        /\ \A i \in 1 .. Len(x) : (x \o y)[i] = x[i]
        /\ \A i \in 1 .. Len(y) : (x \o y)[Len(x) + i] = y[i]
    BY <1>1, <1>2, CatIs
  <2>2. Len(x \o y) = Len(t)
    BY <1>0, <1>1, <1>2, <2>1
  <2>3. ASSUME NEW i \in 1 .. Len(t) PROVE (x \o y)[i] = t[i]
    <3>1. CASE i <= k
      <4>1. i \in 1 .. k
        BY <3>1, <1>0
      <4> QED BY <4>1, <2>1, <1>1
    <3>2. CASE ~(i <= k)
      <4>1. i - k \in 1 .. Len(t) - k /\ k + (i - k) = i
        BY <3>2, <1>0
      <4> QED BY <4>1, <2>1, <1>1, <1>2
    <3> QED BY <3>1, <3>2
  <2> QED BY <2>1, <2>2, <2>3, Same
<1>4. s \o x \in Bytes /\ Len(s \o x) = Len(s) + Len(x)
  BY <1>1, CatIs
<1>5. (s \o x) \o y = s \o (x \o y)
  BY <1>1, <1>2, Assoc
<1> QED BY <1>1, <1>2, <1>3, <1>4, <1>5 DEF x, y

(* Two ways to cut a stream in two                                         *)
Joined(a, b, p, q) == a \o b = p \o q

(* What was read of a message that is longer agrees with it.               *)
LEMMA Agree ==
    ASSUME NEW a \in Bytes, NEW b \in Bytes, NEW p \in Bytes, NEW q \in Bytes,
           Joined(a, b, p, q), NEW i \in 1 .. Len(a), i <= Len(p)
    PROVE  a[i] = p[i]
<1>1. Len(p) \in Nat /\ i \in 1 .. Len(p)
  BY DEF Bytes
<1>2. (a \o b)[i] = a[i] /\ (p \o q)[i] = p[i]
  BY <1>1, CatIs
<1> QED BY <1>2 DEF Joined

(* Behind a message that was read whole                                    *)
LEMMA Cut ==
    ASSUME NEW a \in Bytes, NEW b \in Bytes, NEW p \in Bytes, NEW q \in Bytes,
           Joined(a, b, p, q), Len(p) <= Len(a)
    PROVE  /\ Drop(a, Len(p)) \in Bytes
           /\ Drop(a, Len(p)) \o b = q
           /\ \A i \in 1 .. Len(p) : a[i] = p[i]
           /\ Len(a) = Len(p) => a = p /\ b = q
           /\ a = p \o Drop(a, Len(p))
<1> DEFINE n == Len(p)
           d == Drop(a, n)
<1>9. a \o b = p \o q
  BY DEF Joined
<1>0. n \in 0 .. Len(a) /\ n \in Nat /\ Len(a) \in Nat /\ Len(b) \in Nat /\ Len(q) \in Nat
  BY DEF Bytes
<1>1. d \in Bytes /\ Len(d) = Len(a) - n /\ \A i \in 1 .. Len(a) - n : d[i] = a[n + i]
  BY <1>0, DropIs
<1> HIDE DEF d
<1>2. /\ \A i \in 1 .. Len(a) : (a \o b)[i] = a[i]
      /\ \A i \in 1 .. Len(b) : (a \o b)[Len(a) + i] = b[i]
      /\ Len(a \o b) = Len(a) + Len(b)
  BY CatIs
<1>3. /\ \A i \in 1 .. n : (p \o q)[i] = p[i]
      /\ \A i \in 1 .. Len(q) : (p \o q)[n + i] = q[i]
      /\ Len(p \o q) = n + Len(q)
  BY CatIs
<1>4. /\ \A i \in 1 .. Len(d) : (d \o b)[i] = d[i]
      /\ \A i \in 1 .. Len(b) : (d \o b)[Len(d) + i] = b[i]
      /\ Len(d \o b) = Len(d) + Len(b) /\ d \o b \in Bytes
  BY <1>1, CatIs
<1>5. \A i \in 1 .. n : a[i] = p[i]
  <2> TAKE i \in 1 .. n
  <2>1. i \in 1 .. Len(a)
    BY <1>0
  <2> QED BY <2>1, <1>2, <1>3, <1>9
<1>6. d \o b = q
  <2>1. Len(d \o b) = Len(q)
    <3> HIDE DEF n
    <3> QED BY <1>0, <1>1, <1>2, <1>3, <1>4, <1>9
  <2>2. ASSUME NEW i \in 1 .. Len(q) PROVE (d \o b)[i] = q[i]
    <3>1. q[i] = (a \o b)[n + i]
      BY <1>3, <1>9
    <3>2. CASE i <= Len(d)
      <4>1. i \in 1 .. Len(d) /\ i \in 1 .. Len(a) - n /\ n + i \in 1 .. Len(a)
        <5> HIDE DEF n
        <5> QED BY <3>2, <1>0, <1>1
      <4> QED BY <4>1, <3>1, <1>1, <1>2, <1>4
    <3>3. CASE ~(i <= Len(d))
      <4> DEFINE j == i - Len(d)
      <4>1. j \in 1 .. Len(b) /\ Len(d) + j = i /\ n + i = Len(a) + j
        <5> HIDE DEF n
        <5> QED BY <3>3, <1>0, <1>1, <2>1, <1>4
      <4> HIDE DEF j
      <4>2. (d \o b)[i] = b[j]
        BY <4>1, <1>4
      <4> QED BY <4>1, <4>2, <3>1, <1>2
    <3> QED BY <3>2, <3>3
  <2> QED BY <2>1, <2>2, <1>4, Same
<1>7. Len(a) = n => a = p /\ b = q
  <2> SUFFICES ASSUME Len(a) = n PROVE a = p /\ b = q
    OBVIOUS
  <2>1. a = p
    BY <1>5, Same
  <2>2. d = <<>>
    <3>1. Len(d) = 0
      BY <1>0, <1>1
    <3> QED BY <3>1, <1>1, EmptySeq DEF Bytes
  <2> QED BY <2>1, <2>2, <1>6, EmptyIs
<1>8. a = p \o d
  <2>1. /\ p \o d \in Bytes /\ Len(p \o d) = n + Len(d)
        /\ \A i \in 1 .. n : (p \o d)[i] = p[i]
        /\ \A i \in 1 .. Len(d) : (p \o d)[n + i] = d[i]
    BY <1>1, CatIs
  <2>2. Len(p \o d) = Len(a)
    <3> HIDE DEF n
    <3> QED BY <1>0, <1>1, <2>1
  <2>3. ASSUME NEW i \in 1 .. Len(a) PROVE a[i] = (p \o d)[i]
    <3>1. CASE i <= n
      <4>1. i \in 1 .. n
        BY <3>1, <1>0
      <4> QED BY <4>1, <2>1, <1>5
    <3>2. CASE ~(i <= n)
      <4> DEFINE j == i - n
      <4>1. j \in 1 .. Len(d) /\ j \in 1 .. Len(a) - n /\ n + j = i
        <5> HIDE DEF n
        <5> QED BY <3>2, <1>0, <1>1
      <4> HIDE DEF j
      <4> QED BY <4>1, <2>1, <1>1
    <3> QED BY <3>1, <3>2
  <2> QED BY <2>1, <2>2, <2>3, Same
<1> QED BY <1>1, <1>5, <1>6, <1>7, <1>8 DEF d

LEMMA Rest ==
    ASSUME NEW a \in Bytes, NEW b \in Bytes, NEW p \in Bytes, NEW q \in Bytes,
           Joined(a, b, p, q), Len(p) <= Len(a)
    PROVE  /\ Drop(a, Len(p)) \in Bytes /\ Drop(a, Len(p)) \o b = q
           /\ Len(a) = Len(p) => b = q
BY Cut

LEMMA PrefixOf ==
    ASSUME NEW s \in Bytes, NEW t \in Bytes
    PROVE  IsPrefix(s, s \o t)
<1>1. Len(s) \in Nat /\ Len(t) \in Nat /\ Len(s \o t) = Len(s) + Len(t) /\ s \o t \in Bytes
  BY CatIs
<1>2. Len(s) <= Len(s \o t)
  BY <1>1
<1>3. Len(s) \in 0 .. Len(s) /\ Len(s) \in 0 .. Len(s \o t)
  BY <1>1, <1>2
<1>4. SubSeq(s, 1, Len(s)) = SubSeq(s \o t, 1, Len(s))
  <2> DEFINE x == SubSeq(s, 1, Len(s))
             y == SubSeq(s \o t, 1, Len(s))
  <2>1. x \in Bytes /\ Len(x) = Len(s) /\ \A i \in 1 .. Len(s) : x[i] = s[i]
    BY <1>3, TakeIs
  <2>2. y \in Bytes /\ Len(y) = Len(s) /\ \A i \in 1 .. Len(s) : y[i] = (s \o t)[i]
    BY <1>1, <1>3, TakeIs
  <2>3. \A i \in 1 .. Len(s) : (s \o t)[i] = s[i]
    BY CatIs
  <2> HIDE DEF x, y
  <2>4. x = y
    BY <2>1, <2>2, <2>3, Same
  <2> QED BY <2>4 DEF x, y
<1> QED BY <1>2, <1>4 DEF IsPrefix

(* A prefix stays one when the stream grows.                               *)
LEMMA PrefixGrows ==
    ASSUME NEW s \in Bytes, NEW t \in Bytes, NEW u \in Bytes, IsPrefix(s, t)
    PROVE  IsPrefix(s, t \o u)
<1>1. Len(s) \in Nat /\ Len(t) \in Nat /\ Len(s) <= Len(t)
  BY DEF Bytes, IsPrefix
<1>2. /\ t \o u \in Bytes /\ Len(t \o u) = Len(t) + Len(u) /\ Len(u) \in Nat
      /\ \A i \in 1 .. Len(t) : (t \o u)[i] = t[i]
  BY CatIs
<1>3. Len(s) \in 0 .. Len(t) /\ Len(s) \in 0 .. Len(t \o u) /\ Len(s) <= Len(t \o u)
  BY <1>1, <1>2
<1>4. SubSeq(t, 1, Len(s)) = SubSeq(t \o u, 1, Len(s))
  <2> DEFINE x == SubSeq(t, 1, Len(s))
             y == SubSeq(t \o u, 1, Len(s))
  <2>1. x \in Bytes /\ Len(x) = Len(s) /\ \A i \in 1 .. Len(s) : x[i] = t[i]
    BY <1>3, TakeIs
  <2>2. y \in Bytes /\ Len(y) = Len(s) /\ \A i \in 1 .. Len(s) : y[i] = (t \o u)[i]
    BY <1>2, <1>3, TakeIs
  <2>3. \A i \in 1 .. Len(s) : i \in 1 .. Len(t)
    BY <1>1
  <2> HIDE DEF x, y
  <2>4. x = y
    BY <2>1, <2>2, <2>3, <1>2, Same
  <2> QED BY <2>4 DEF x, y
<1> QED BY <1>3, <1>4 DEF IsPrefix

LEMMA ZerosIs == ASSUME NEW n \in Int PROVE Zeros(n) \in Bytes
<1>1. CASE n >= 0
  BY <1>1 DEF Zeros, Bytes
<1>2. CASE ~(n >= 0)
  <2>1. 1 .. n = 1 .. 0
    BY <1>2
  <2>2. Zeros(n) = [i \in 1 .. 0 |-> 0]
    BY <2>1 DEF Zeros
  <2> QED BY <2>2 DEF Bytes
<1> QED BY <1>1, <1>2

-----------------------------------------------------------------------------
(* What the two sides write                                                *)

DataUpTo(e, n) == [i \in 1 .. n |-> Data(e, i)]

LEMMA DataIs ==
    ASSUME NEW e, NEW n \in Nat
    PROVE  /\ DataUpTo(e, n) \in Bytes /\ Len(DataUpTo(e, n)) = n
           /\ \A i \in 1 .. n : DataUpTo(e, n)[i] = Data(e, i)
           /\ DataUpTo(e, n + 1) = DataUpTo(e, n) \o <<Data(e, n + 1)>>
           /\ <<Data(e, n + 1)>> \in Bytes
           /\ n = 0 => DataUpTo(e, n) = <<>>
<1>1. \A m \in Nat : /\ DataUpTo(e, m) \in Bytes /\ Len(DataUpTo(e, m)) = m
                     /\ \A i \in 1 .. m : DataUpTo(e, m)[i] = Data(e, i)
  <2> TAKE m \in Nat
  <2>1. \A i \in 1 .. m : Data(e, i) \in Int
    BY DEF Data
  <2> QED BY <2>1 DEF DataUpTo, Bytes
<1>2. <<Data(e, n + 1)>> \in Bytes /\ Len(<<Data(e, n + 1)>>) = 1
      /\ <<Data(e, n + 1)>>[1] = Data(e, n + 1)
  <2>1. Data(e, n + 1) \in Int
    BY DEF Data
  <2> QED BY <2>1 DEF Bytes
<1> DEFINE s == DataUpTo(e, n)
           o == <<Data(e, n + 1)>>
<1>3. DataUpTo(e, n + 1) = s \o o
  <2> HIDE DEF s, o
  <2>1. s \in Bytes /\ o \in Bytes /\ Len(s) = n /\ Len(o) = 1
    BY <1>1, <1>2 DEF s, o
  <2>2. /\ s \o o \in Bytes /\ Len(s \o o) = Len(s) + Len(o)
        /\ \A i \in 1 .. Len(s) : (s \o o)[i] = s[i]
        /\ \A i \in 1 .. Len(o) : (s \o o)[Len(s) + i] = o[i]
    BY <2>1, CatIs
  <2>3. n + 1 \in Nat /\ Len(s \o o) = n + 1
    BY <2>1, <2>2
  <2>4. ASSUME NEW i \in 1 .. n + 1 PROVE DataUpTo(e, n + 1)[i] = (s \o o)[i]
    <3>1. DataUpTo(e, n + 1)[i] = Data(e, i)
      BY <1>1, <2>3
    <3>2. CASE i = n + 1
      <4>1. (s \o o)[n + 1] = o[1]
        BY <2>1, <2>2
      <4> QED BY <4>1, <3>1, <3>2, <1>2 DEF o
    <3>3. CASE i # n + 1
      <4>1. i \in 1 .. n
        BY <3>3
      <4> QED BY <4>1, <3>1, <2>1, <2>2, <1>1 DEF s
    <3> QED BY <3>2, <3>3
  <2>5. DataUpTo(e, n + 1) \in Bytes /\ Len(DataUpTo(e, n + 1)) = n + 1
    BY <1>1, <2>3
  <2> QED BY <2>2, <2>3, <2>4, <2>5, Same
<1>4. n = 0 => DataUpTo(e, n) = <<>>
  BY <1>1, EmptySeq DEF Bytes
<1> QED BY <1>1, <1>2, <1>3, <1>4

(* The bytes of a request in front of its address                          *)
From(t) == IF t.atyp = Domain THEN 5 ELSE 4
Supported(t) == t.atyp \in {IPv4, Domain, IPv6}

LEMMA RequestIs ==
    ASSUME NEW t \in Targets
    PROVE  LET r == BuildSocks5Req(t)
           IN  /\ r \in Bytes /\ AddrLen(t) \in Nat
               /\ Len(r) = From(t) + AddrLen(t) + 2
               /\ r[2] = 1 /\ r[4] = t.atyp /\ (t.atyp = Domain => r[5] = t.len)
               /\ \A i \in 1 .. AddrLen(t) : r[From(t) + i] = 50 + i
               /\ r[From(t) + AddrLen(t) + 1] = 40 /\ r[From(t) + AddrLen(t) + 2] = 41
<1> DEFINE a == AddrLen(t)
           f == From(t)
           h == <<Version, 1, 0, t.atyp>> \o (IF t.atyp = Domain THEN <<t.len>> ELSE <<>>)
           r == BuildSocks5Req(t)
<1>1. t.atyp \in Nat /\ t.len \in Nat
  BY TargetAssumption
<1>2. a \in Nat
  BY <1>1 DEF AddrLen
<1>3. f \in {4, 5}
  BY DEF From
<1>4. /\ h \in Bytes /\ Len(h) = f /\ h[2] = 1 /\ h[4] = t.atyp
      /\ t.atyp = Domain => h[5] = t.len
  <2>1. CASE t.atyp = Domain
    <3> DEFINE u == <<Version, 1, 0, t.atyp>>
               v == <<t.len>>
    <3>1. h = u \o v
      BY <2>1
    <3>2. /\ u \in Bytes /\ Len(u) = 4 /\ u[2] = 1 /\ u[4] = t.atyp
          /\ v \in Bytes /\ Len(v) = 1 /\ v[1] = t.len
      BY <1>1 DEF Bytes, Version
    <3> HIDE DEF u, v, h
    <3>3. /\ h \in Bytes /\ Len(h) = Len(u) + Len(v)
          /\ \A i \in 1 .. Len(u) : h[i] = u[i]
          /\ \A i \in 1 .. Len(v) : h[Len(u) + i] = v[i]
      BY <3>1, <3>2, CatIs
    <3>4. Len(h) = 5 /\ h[2] = u[2] /\ h[4] = u[4] /\ h[5] = v[1]
      <4>1. 2 \in 1 .. Len(u) /\ 4 \in 1 .. Len(u) /\ 1 \in 1 .. Len(v) /\ Len(u) + 1 = 5
        BY <3>2
      <4> QED BY <4>1, <3>2, <3>3
    <3>5. f = 5
      BY <2>1 DEF From
    <3> QED BY <3>2, <3>3, <3>4, <3>5
  <2>2. CASE t.atyp # Domain
    <3>1. h = <<Version, 1, 0, t.atyp>> \o <<>>
      BY <2>2
    <3>2. h = <<Version, 1, 0, t.atyp>>
      BY <3>1
    <3> QED BY <3>2, <2>2, <1>1 DEF Version, From, Bytes
  <2> QED BY <2>1, <2>2
<1>5. /\ Address(t) \in Bytes /\ Len(Address(t)) = a
      /\ \A i \in 1 .. a : Address(t)[i] = 50 + i
  <2>1. Address(t) = [i \in 1 .. a |-> 50 + i]
    BY DEF Address
  <2> HIDE DEF a
  <2> QED BY <2>1, <1>2 DEF Bytes
<1>6. Port \in Bytes /\ Len(Port) = 2 /\ Port[1] = 40 /\ Port[2] = 41
  BY DEF Port, Bytes
<1>7. r = (h \o Address(t)) \o Port
  BY DEF BuildSocks5Req
<1> HIDE DEF h, a, f, r
<1> DEFINE g == h \o Address(t)
<1>8. /\ g \in Bytes /\ Len(g) = f + a /\ \A i \in 1 .. f : g[i] = h[i]
      /\ \A i \in 1 .. a : g[f + i] = 50 + i
  BY <1>4, <1>5, CatIs
<1> HIDE DEF g
<1>9. /\ r \in Bytes /\ Len(r) = Len(g) + Len(Port)
      /\ \A i \in 1 .. Len(g) : r[i] = g[i]
      /\ \A i \in 1 .. Len(Port) : r[Len(g) + i] = Port[i]
  <2>1. g \in Bytes /\ Port \in Bytes
    BY <1>6, <1>8
  <2>2. r = g \o Port
    BY <1>7 DEF g
  <2>3. /\ g \o Port \in Bytes /\ Len(g \o Port) = Len(g) + Len(Port)
        /\ \A i \in 1 .. Len(g) : (g \o Port)[i] = g[i]
        /\ \A i \in 1 .. Len(Port) : (g \o Port)[Len(g) + i] = Port[i]
    BY <2>1, CatIs
  <2> QED BY <2>2, <2>3
<1>10. Len(r) = f + a + 2 /\ r[f + a + 1] = 40 /\ r[f + a + 2] = 41
  BY <1>2, <1>3, <1>6, <1>8, <1>9
<1>11. \A i \in 1 .. f : r[i] = h[i]
  <2> TAKE i \in 1 .. f
  <2>1. i \in 1 .. Len(g)
    BY <1>2, <1>3, <1>8
  <2> QED BY <2>1, <1>8, <1>9
<1>12. \A i \in 1 .. a : r[f + i] = 50 + i
  <2> TAKE i \in 1 .. a
  <2>1. f + i \in 1 .. Len(g)
    BY <1>2, <1>3, <1>8
  <2> QED BY <2>1, <1>8, <1>9
<1>13. r[2] = 1 /\ r[4] = t.atyp /\ (t.atyp = Domain => r[5] = t.len)
  <2>1. 2 \in 1 .. f /\ 4 \in 1 .. f /\ (t.atyp = Domain => 5 \in 1 .. f)
    BY <1>3 DEF f, From
  <2> QED BY <2>1, <1>4, <1>11
<1> QED BY <1>2, <1>9, <1>10, <1>12, <1>13 DEF r, a, f

LEMMA RequestLen ==
    ASSUME NEW t \in Targets
    PROVE  /\ Len(BuildSocks5Req(t)) \in Nat /\ Len(BuildSocks5Req(t)) >= 6
           /\ t.atyp = Domain => Len(BuildSocks5Req(t)) = 7 + t.len
           /\ t.atyp = IPv4 => Len(BuildSocks5Req(t)) = 10
           /\ t.atyp = IPv6 => Len(BuildSocks5Req(t)) = 22
           /\ t.len \in Nat /\ t.atyp \in Nat
<1>1. t.atyp \in Nat /\ t.len \in Nat
  BY TargetAssumption
<1>2. Len(BuildSocks5Req(t)) = From(t) + AddrLen(t) + 2 /\ AddrLen(t) \in Nat
  BY RequestIs
<1>3. From(t) \in {4, 5}
  BY DEF From
<1> QED BY <1>1, <1>2, <1>3 DEF From, AddrLen, Domain, IPv4, IPv6

(* The length that is read off a request, or off the answer made of it, is *)
(* the request's.                                                          *)
LEMMA TotalIs ==
    ASSUME NEW t \in Targets, NEW b, b[4] = t.atyp, t.atyp = Domain => b[5] = t.len
    PROVE  Total(b) = IF Supported(t) THEN Len(BuildSocks5Req(t)) ELSE 0
BY RequestLen DEF Total, Supported, Domain, IPv4, IPv6

LEMMA RequestRead ==
    ASSUME NEW t \in Targets, NEW b \in Bytes, NEW w \in Bytes, NEW x \in Bytes,
           Joined(b, w, BuildSocks5Req(t), x), Len(b) >= 7
    PROVE  Total(b) = IF Supported(t) THEN Len(BuildSocks5Req(t)) ELSE 0
<1> DEFINE r == BuildSocks5Req(t)
<1>1. r \in Bytes /\ r[4] = t.atyp /\ (t.atyp = Domain => r[5] = t.len)
  BY RequestIs
<1>2. Len(r) \in Nat /\ Len(r) >= 6 /\ (t.atyp = Domain => Len(r) >= 7)
  BY RequestLen
<1>3. Len(b) \in Nat
  BY DEF Bytes
<1> HIDE DEF r
<1>4. Joined(b, w, r, x)
  BY DEF r
<1>5. \A i \in 1 .. Len(b) : i <= Len(r) => b[i] = r[i]
  BY <1>1, <1>4, Agree
<1>6. b[4] = r[4]
  <2>1. 4 \in 1 .. Len(b) /\ 4 <= Len(r)
    BY <1>2, <1>3
  <2> QED BY <2>1, <1>5
<1>7. t.atyp = Domain => b[5] = r[5]
  <2>1. 5 \in 1 .. Len(b) /\ (t.atyp = Domain => 5 <= Len(r))
    BY <1>2, <1>3
  <2> QED BY <2>1, <1>5
<1> QED BY <1>1, <1>6, <1>7, TotalIs

(* The answer of a request that was read is the request with the code.     *)
LEMMA AnswerIs ==
    ASSUME NEW b \in Bytes, NEW r \in Bytes, NEW c \in Int, 2 <= Len(r), Len(r) <= Len(b),
           \A i \in 1 .. Len(r) : b[i] = r[i]
    PROVE  /\ SubSeq([b EXCEPT ![2] = c], 1, Len(r)) = [r EXCEPT ![2] = c]
           /\ [r EXCEPT ![2] = c] \in Bytes /\ Len([r EXCEPT ![2] = c]) = Len(r)
           /\ \A i \in 1 .. Len(r) : [r EXCEPT ![2] = c][i] = IF i = 2 THEN c ELSE r[i]
<1>1. Len(r) \in Nat /\ Len(b) \in Nat
  BY DEF Bytes
<1>2. 2 \in 1 .. Len(r) /\ 2 \in 1 .. Len(b) /\ Len(r) \in 0 .. Len(b)
  BY <1>1
<1> DEFINE u == [r EXCEPT ![2] = c]
           v == [b EXCEPT ![2] = c]
<1>3. /\ u \in Bytes /\ Len(u) = Len(r)
      /\ \A i \in 1 .. Len(r) : u[i] = IF i = 2 THEN c ELSE r[i]
  BY <1>2, ExceptSeq DEF Bytes
<1>4. /\ v \in Bytes /\ Len(v) = Len(b)
      /\ \A i \in 1 .. Len(b) : v[i] = IF i = 2 THEN c ELSE b[i]
  BY <1>2, ExceptSeq DEF Bytes
<1> HIDE DEF u, v
<1> DEFINE x == SubSeq(v, 1, Len(r))
<1>5. x \in Bytes /\ Len(x) = Len(r) /\ \A i \in 1 .. Len(r) : x[i] = v[i]
  BY <1>2, <1>4, TakeIs
<1> HIDE DEF x
<1>6. \A i \in 1 .. Len(r) : i \in 1 .. Len(b)
  BY <1>1
<1>7. x = u
  BY <1>3, <1>4, <1>5, <1>6, Same
<1> QED BY <1>3, <1>7 DEF x, u, v

LEMMA ParsedIs ==
    ASSUME NEW t \in Targets, NEW b \in Bytes, Supported(t), Total(b) = Len(BuildSocks5Req(t)),
           Len(BuildSocks5Req(t)) <= Len(b),
           \A i \in 1 .. Len(BuildSocks5Req(t)) : b[i] = BuildSocks5Req(t)[i]
    PROVE  ParsedFrom(b) = [atyp |-> t.atyp, addr |-> Address(t), port |-> Port]
<1> DEFINE r == BuildSocks5Req(t)
           f == From(t)
           a == AddrLen(t)
           n == Len(r)
<1>1. /\ r \in Bytes /\ a \in Nat /\ n = f + a + 2 /\ r[4] = t.atyp
      /\ \A i \in 1 .. a : r[f + i] = 50 + i
      /\ r[f + a + 1] = 40 /\ r[f + a + 2] = 41
  BY RequestIs
<1>2. f \in {4, 5} /\ Len(b) \in Nat
  BY DEF From, Bytes
<1>3. Address(t) = [i \in 1 .. a |-> 50 + i] /\ Port = <<40, 41>>
  BY DEF Address, Port
<1>4. n <= Len(b) /\ \A i \in 1 .. n : b[i] = r[i]
  OBVIOUS
<1>5. Total(b) = n
  OBVIOUS
<1> HIDE DEF r, f, a, n
<1>6. b[4] = t.atyp
  <2>1. 4 \in 1 .. n
    BY <1>1, <1>2
  <2> QED BY <2>1, <1>1, <1>4
<1>7. \A i \in 1 .. n : b[i] \in Int
  <2> TAKE i \in 1 .. n
  <2>1. i \in 1 .. Len(b)
    BY <1>1, <1>2, <1>4
  <2> QED BY <2>1 DEF Bytes
<1>8. SubSeq(b, f + 1, n - 2) = Address(t)
  <2> DEFINE x == SubSeq(b, f + 1, n - 2)
  <2>1. f + 1 \in Int /\ n - 2 \in Int /\ (n - 2) - (f + 1) + 1 = a /\ n - 2 = f + a
    BY <1>1, <1>2
  <2>2. \A i \in f + 1 .. n - 2 : b[i] \in Int
    <3> TAKE i \in f + 1 .. n - 2
    <3>1. i \in 1 .. n
      BY <1>1, <1>2
    <3> QED BY <3>1, <1>7
  <2>3. /\ x \in Seq(Int)
        /\ Len(x) = IF f + 1 <= n - 2 THEN (n - 2) - (f + 1) + 1 ELSE 0
        /\ \A i \in 1 .. (n - 2) - (f + 1) + 1 : x[i] = b[(f + 1) + i - 1]
    BY <2>1, <2>2, SubSeqProperties
  <2> HIDE DEF x
  <2>4. Len(x) = a
    BY <2>1, <2>3, <1>1, <1>2
  <2>5. ASSUME NEW i \in 1 .. a PROVE x[i] = 50 + i
    <3>1. i \in 1 .. (n - 2) - (f + 1) + 1 /\ (f + 1) + i - 1 = f + i /\ f + i \in 1 .. n
      BY <2>1, <1>1, <1>2
    <3>2. x[i] = b[(f + 1) + i - 1]
      BY <3>1, <2>3
    <3>3. b[f + i] = r[f + i]
      BY <3>1, <1>4
    <3>4. r[f + i] = 50 + i
      BY <1>1
    <3> QED BY <3>1, <3>2, <3>3, <3>4
  <2> DEFINE y == [i \in 1 .. a |-> 50 + i]
  <2>6. y \in Bytes /\ Len(y) = a /\ \A i \in 1 .. a : y[i] = 50 + i
    BY <1>1 DEF Bytes
  <2> HIDE DEF y
  <2>7. x \in Bytes
    BY <2>3 DEF Bytes
  <2>8. x = y
    BY <2>4, <2>5, <2>6, <2>7, Same
  <2> QED BY <2>8, <1>3 DEF x, y
<1>9. SubSeq(b, n - 1, n) = Port
  <2> DEFINE x == SubSeq(b, n - 1, n)
  <2>1. n - 1 \in Int /\ n \in Int /\ n - (n - 1) + 1 = 2 /\ n - 1 <= n
    BY <1>1, <1>2
  <2>2. \A i \in n - 1 .. n : b[i] \in Int
    <3> TAKE i \in n - 1 .. n
    <3>1. i \in 1 .. n
      BY <1>1, <1>2
    <3> QED BY <3>1, <1>7
  <2>3. /\ x \in Seq(Int)
        /\ Len(x) = IF n - 1 <= n THEN n - (n - 1) + 1 ELSE 0
        /\ \A i \in 1 .. n - (n - 1) + 1 : x[i] = b[(n - 1) + i - 1]
    BY <2>1, <2>2, SubSeqProperties
  <2> HIDE DEF x
  <2>4. Len(x) = 2
    BY <2>1, <2>3
  <2>5. x[1] = 40
    <3>1. 1 \in 1 .. n - (n - 1) + 1 /\ (n - 1) + 1 - 1 = f + a + 1 /\ f + a + 1 \in 1 .. n
      BY <1>1, <1>2
    <3>2. x[1] = b[(n - 1) + 1 - 1]
      BY <3>1, <2>3
    <3>3. b[f + a + 1] = r[f + a + 1]
      BY <3>1, <1>4
    <3>4. r[f + a + 1] = 40
      BY <1>1
    <3> QED BY <3>1, <3>2, <3>3, <3>4
  <2>6. x[2] = 41
    <3>1. 2 \in 1 .. n - (n - 1) + 1 /\ (n - 1) + 2 - 1 = f + a + 2 /\ f + a + 2 \in 1 .. n
      BY <1>1, <1>2
    <3>2. x[2] = b[(n - 1) + 2 - 1]
      BY <3>1, <2>3
    <3>3. b[f + a + 2] = r[f + a + 2]
      BY <3>1, <1>4
    <3>4. r[f + a + 2] = 41
      BY <1>1
    <3> QED BY <3>1, <3>2, <3>3, <3>4
  <2>7. x \in Bytes /\ Port \in Bytes /\ Len(Port) = 2 /\ Port[1] = 40 /\ Port[2] = 41
    BY <2>3, <1>3 DEF Bytes
  <2>8. \A i \in 1 .. 2 : x[i] = Port[i]
    BY <2>5, <2>6, <2>7
  <2>9. x = Port
    BY <2>4, <2>7, <2>8, Same
  <2> QED BY <2>9 DEF x
<1>10. (IF b[4] = Domain THEN 5 ELSE 4) = f
  BY <1>6 DEF f, From
<1> QED BY <1>5, <1>6, <1>8, <1>9, <1>10 DEF ParsedFrom

(* A greeting is as long as its second byte says.  A Read that does not    *)
(* bring all of it never passes the acceptor's judgement.                  *)
LEMMA GreetingIs ==
    ASSUME NEW g \in Greetings
    PROVE  g \in Bytes /\ Len(g) \in {3, 4} /\ g[2] + 2 = Len(g)
<1>1. CASE g = <<Version, 1, 0>>
  BY <1>1 DEF Version, Bytes
<1>2. CASE g = <<Version, 2, 2, 0>>
  BY <1>2 DEF Version, Bytes
<1>3. CASE g = <<Version, 1, 2>>
  BY <1>3 DEF Version, Bytes
<1>4. CASE g = <<4, 1, 0>>
  BY <1>4 DEF Bytes
<1> QED BY <1>1, <1>2, <1>3, <1>4 DEF Greetings

LEMMA Judged ==
    ASSUME NEW g \in Greetings, NEW a \in Bytes, NEW w \in Bytes, NEW x \in Bytes,
           Joined(a, w, g, x), Len(a) >= 1
    PROVE  /\ Judgement(a) = "fine" => Len(g) <= Len(a) /\ GreetingLen(a) = Len(g)
           /\ Len(g) <= Len(a) /\ g[1] = Version /\ (\E i \in 3 .. Len(g) : g[i] = 0)
                  => Judgement(a) = "fine"
           /\ Judgement(a) \in {"fine", "refused", "panic"}
<1>1. g \in Bytes /\ Len(g) \in {3, 4} /\ g[2] + 2 = Len(g) /\ Len(a) \in Nat
  BY GreetingIs DEF Bytes
<1>2. \A i \in 1 .. Len(a) : i <= Len(g) => a[i] = g[i]
  BY <1>1, Agree
<1>3. Len(a) >= 2 => GreetingLen(a) = Len(g)
  <2> SUFFICES ASSUME Len(a) >= 2 PROVE GreetingLen(a) = Len(g)
    OBVIOUS
  <2>1. 2 \in 1 .. Len(a) /\ 2 <= Len(g)
    BY <1>1
  <2>2. a[2] = g[2]
    BY <2>1, <1>2
  <2> QED BY <2>1, <2>2, <1>1 DEF GreetingLen, InBuffer
<1>4. Len(a) = 1 => GreetingLen(a) = 2
  BY DEF GreetingLen, InBuffer
<1>5. Judgement(a) = "fine" => Len(g) <= Len(a) /\ GreetingLen(a) = Len(g)
  <2> SUFFICES ASSUME Judgement(a) = "fine" PROVE Len(g) <= Len(a) /\ GreetingLen(a) = Len(g)
    OBVIOUS
  <2>1. GreetingLen(a) <= Len(a)
    BY DEF Judgement
  <2>2. Len(a) >= 2
    <3>1. CASE Len(a) = 1
      <4>1. GreetingLen(a) = 2
        BY <3>1, <1>4
      <4> QED BY <3>1, <4>1, <2>1
    <3>2. CASE Len(a) # 1
      <4>1. Len(a) \in Nat
        BY <1>1
      <4>2. \A m \in Nat : m >= 1 /\ m # 1 => m >= 2
        OBVIOUS
      <4> QED BY <3>2, <4>1, <4>2
    <3> QED BY <3>1, <3>2
  <2>3. GreetingLen(a) = Len(g)
    BY <2>2, <1>3
  <2> QED BY <2>1, <2>3
<1>6. ASSUME Len(g) <= Len(a), g[1] = Version, \E i \in 3 .. Len(g) : g[i] = 0
      PROVE  Judgement(a) = "fine"
  <2>1. GreetingLen(a) = Len(g) /\ GreetingLen(a) <= Len(a)
    BY <1>1, <1>3, <1>6
  <2>2. a[1] = Version
    <3>1. 1 \in 1 .. Len(a) /\ 1 <= Len(g)
      BY <1>1
    <3> QED BY <3>1, <1>2, <1>6
  <2>3. HasMethod(a)
    <3>1. PICK i \in 3 .. Len(g) : g[i] = 0
      BY <1>6
    <3>2. i \in 1 .. Len(a) /\ i <= Len(g) /\ i <= Len(a)
      BY <1>1, <1>6
    <3>3. InBuffer(a, i) = 0
      BY <3>1, <3>2, <1>2 DEF InBuffer
    <3> QED BY <3>1, <3>3, <2>1 DEF HasMethod
  <2> QED BY <2>1, <2>2, <2>3 DEF Judgement
<1>7. Judgement(a) \in {"fine", "refused", "panic"}
  BY DEF Judgement
<1> QED BY <1>5, <1>6, <1>7

(* The requests of an http client                                          *)
GetRequest == Header(GET) \o Body

LEMMA OpeningIs ==
    /\ Header(CONNECT) \in Bytes /\ Len(Header(CONNECT)) = 3 /\ Header(CONNECT)[1] = CONNECT
    /\ GetRequest \in Bytes /\ Len(GetRequest) = 4 /\ GetRequest[1] = GET
    /\ Requests = {Header(CONNECT), GetRequest} /\ CONNECT # GET
    /\ GetRequest # Header(CONNECT)
<1>1. Header(CONNECT) = <<70, 71, 79>> /\ Header(GET) = <<72, 71, 79>> /\ Body = <<75>>
  BY DEF Header, CONNECT, GET, Body
<1>2. /\ <<72, 71, 79>> \in Bytes /\ Len(<<72, 71, 79>>) = 3 /\ <<72, 71, 79>>[1] = 72
      /\ <<75>> \in Bytes /\ Len(<<75>>) = 1
  BY DEF Bytes
<1> DEFINE u == <<72, 71, 79>>
           v == <<75>>
<1> HIDE DEF u, v
<1>3. u \o v \in Bytes /\ Len(u \o v) = Len(u) + Len(v) /\ \A i \in 1 .. Len(u) : (u \o v)[i] = u[i]
  <2>1. u \in Bytes /\ v \in Bytes
    BY <1>2 DEF u, v
  <2> QED BY <2>1, CatIs
<1>4. GetRequest = u \o v
  BY <1>1 DEF GetRequest, u, v
<1>5. Len(u) = 3 /\ Len(v) = 1 /\ u[1] = 72
  BY <1>2 DEF u, v
<1>6. GetRequest \in Bytes /\ Len(GetRequest) = 4 /\ GetRequest[1] = 72
  BY <1>3, <1>4, <1>5
<1>7. Header(CONNECT) \in Bytes /\ Len(Header(CONNECT)) = 3 /\ Header(CONNECT)[1] = 70
  BY <1>1 DEF Bytes
<1>8. Requests = {Header(CONNECT), GetRequest}
  BY DEF Requests, GetRequest
<1> QED BY <1>6, <1>7, <1>8 DEF CONNECT, GET

LEMMA NoGreetingIsRequest == \A g \in Greetings : g # GetRequest
<1>1. \A g \in Greetings : g[1] # 72
  BY DEF Greetings, Version
<1> QED BY <1>1, OpeningIs DEF GET

Whole(b) == Len(b) >= HeaderLen /\ Len(b) >= HeaderLen + BodyLen(b)

LEMMA WholeRead ==
    ASSUME NEW o \in Requests, NEW b \in Bytes, NEW w \in Bytes, NEW x \in Bytes,
           Joined(b, w, o, x), Len(b) >= 1
    PROVE  /\ o \in Bytes /\ Len(o) = HeaderLen + BodyLen(o) /\ b[1] = o[1] /\ BodyLen(b) = BodyLen(o)
           /\ o[1] = CONNECT <=> o = Header(CONNECT)
           /\ Whole(b) => Len(o) <= Len(b)
<1>1. /\ o \in Bytes /\ Len(o) = HeaderLen + BodyLen(o) /\ Len(o) >= 1
      /\ (o[1] = CONNECT <=> o = Header(CONNECT))
  <2>1. CASE o = Header(CONNECT)
    BY <2>1, OpeningIs DEF HeaderLen, BodyLen
  <2>2. CASE o = GetRequest
    BY <2>2, OpeningIs DEF HeaderLen, BodyLen
  <2> QED BY <2>1, <2>2, OpeningIs
<1>2. b[1] = o[1]
  <2>1. 1 \in 1 .. Len(b)
    BY DEF Bytes
  <2> QED BY <2>1, <1>1, Agree
<1>3. BodyLen(b) = BodyLen(o)
  BY <1>2 DEF BodyLen
<1> QED BY <1>1, <1>2, <1>3 DEF Whole

LEMMA TailIs ==
    ASSUME NEW s \in Bytes, Len(s) >= 1
    PROVE  /\ Tail(s) = Drop(s, 1) /\ Tail(s) \in Bytes
           /\ <<s[1]>> \in Bytes /\ Len(<<s[1]>>) = 1 /\ s = <<s[1]>> \o Tail(s)
<1>1. s # <<>> /\ Len(s) \in Nat /\ 1 \in 1 .. Len(s)
  BY DEF Bytes
<1>2. Tail(s) = SubSeq(s, 2, Len(s))
  BY <1>1, TailIsSubSeq DEF Bytes
<1>3. Tail(s) = Drop(s, 1)
  BY <1>2 DEF Drop
<1>4. 1 \in 0 .. Len(s)
  BY <1>1
<1>5. Tail(s) \in Bytes /\ Len(Tail(s)) = Len(s) - 1 /\ \A i \in 1 .. Len(s) - 1 : Tail(s)[i] = s[1 + i]
  BY <1>3, <1>4, DropIs
<1> DEFINE h == <<s[1]>>
           t == Tail(s)
<1>6. h \in Bytes /\ Len(h) = 1 /\ h[1] = s[1]
  <2>1. s[1] \in Int
    BY <1>1 DEF Bytes
  <2> QED BY <2>1 DEF Bytes
<1> HIDE DEF h, t
<1>7. t \in Bytes /\ Len(t) = Len(s) - 1 /\ \A i \in 1 .. Len(s) - 1 : t[i] = s[1 + i]
  BY <1>5 DEF t
<1>8. /\ h \o t \in Bytes /\ Len(h \o t) = Len(h) + Len(t)
      /\ \A i \in 1 .. Len(h) : (h \o t)[i] = h[i]
      /\ \A i \in 1 .. Len(t) : (h \o t)[Len(h) + i] = t[i]
  BY <1>6, <1>7, CatIs
<1>9. Len(h \o t) = Len(s)
  BY <1>1, <1>6, <1>7, <1>8
<1>10. ASSUME NEW i \in 1 .. Len(s) PROVE s[i] = (h \o t)[i]
  <2>1. CASE i = 1
    <3>1. 1 \in 1 .. Len(h)
      BY <1>6
    <3> QED BY <2>1, <3>1, <1>6, <1>8
  <2>2. CASE i # 1
    <3> DEFINE j == i - 1
    <3>1. j \in 1 .. Len(t) /\ j \in 1 .. Len(s) - 1 /\ 1 + j = i
      BY <2>2, <1>1, <1>7
    <3> HIDE DEF j
    <3>2. (h \o t)[Len(h) + j] = t[j]
      BY <3>1, <1>8
    <3>3. Len(h) + j = i
      BY <3>1, <1>6
    <3> QED BY <3>1, <3>2, <3>3, <1>7
  <2> QED BY <2>1, <2>2
<1>11. s = h \o t
  BY <1>8, <1>9, <1>10, Same
<1> QED BY <1>3, <1>5, <1>6, <1>11 DEF h, t

(* The connection of a GET begins with the request, rewritten.             *)
Rewrite(s) == <<Rewritten>> \o Tail(s)

LEMMA RewrittenIs ==
    ASSUME NEW o \in Bytes, NEW b \in Bytes, NEW w \in Bytes, NEW x \in Bytes,
           Len(o) >= 1, Len(b) >= 1, Joined(b, w, o, x)
    PROVE  Rewrite(b) \in Bytes /\ Joined(Rewrite(b), w, Rewrite(o), x)
<1> DEFINE h == <<o[1]>>
           u == Tail(o)
           v == Tail(b)
           c == <<Rewritten>>
<1>1. h \in Bytes /\ Len(h) = 1 /\ u \in Bytes /\ o = h \o u
  BY TailIs
<1>2. v \in Bytes /\ v = Drop(b, 1)
  BY TailIs
<1>3. c \in Bytes
  BY DEF Rewritten, Bytes
<1> HIDE DEF h, u, v, c
<1>4. u \o x \in Bytes /\ o \o x = h \o (u \o x)
  <2>1. u \o x \in Bytes
    BY <1>1, CatIs
  <2>2. h \in Bytes /\ u \in Bytes
    BY <1>1
  <2>3. (h \o u) \o x = h \o (u \o x)
    <3>1. Regroups(h, u, x)
      BY <2>2, Regroup
    <3> QED BY <3>1 DEF Regroups
  <2>4. o = h \o u
    BY <1>1
  <2> QED BY <2>1, <2>3, <2>4
<1>5. Drop(b, Len(h)) \o w = u \o x
  <2>1. Len(h) <= Len(b) /\ b \o w = h \o (u \o x)
    BY <1>1, <1>4 DEF Joined
  <2> DEFINE ux == u \o x
  <2>2. ux \in Bytes /\ Joined(b, w, h, ux)
    BY <2>1, <1>4 DEF Joined
  <2> HIDE DEF ux
  <2>3. h \in Bytes /\ Len(h) <= Len(b)
    BY <1>1, <2>1
  <2>4. Drop(b, Len(h)) \o w = ux
    BY <2>2, <2>3, Cut
  <2> QED BY <2>4 DEF ux
<1>6. v \o w = u \o x
  BY <1>1, <1>2, <1>5
<1>7. (c \o v) \o w = c \o (v \o w) /\ (c \o u) \o x = c \o (u \o x)
  <2>1. (c \o v) \o w = c \o (v \o w)
    <3>1. c \in Bytes /\ v \in Bytes
      BY <1>2, <1>3
    <3>2. Regroups(c, v, w)
      BY <3>1, Regroup
    <3> QED BY <3>2 DEF Regroups
  <2>2. (c \o u) \o x = c \o (u \o x)
    <3>1. c \in Bytes /\ u \in Bytes
      BY <1>1, <1>3
    <3>2. Regroups(c, u, x)
      BY <3>1, Regroup
    <3> QED BY <3>2 DEF Regroups
  <2> QED BY <2>1, <2>2
<1>8. c \o v \in Bytes /\ c \o u \in Bytes
  BY <1>1, <1>2, <1>3, CatIs
<1>9. Rewrite(b) = c \o v /\ Rewrite(o) = c \o u
  BY DEF Rewrite, c, u, v
<1> QED BY <1>6, <1>7, <1>8, <1>9 DEF Joined

(* The end of the proxy's response is found where it is.                   *)
LEMMA EndIs ==
    ASSUME NEW n \in Nat, NEW b \in Bytes, NEW w \in Bytes,
           Joined(b, w, PROXY_RSP_SUCC, DataUpTo("server", n)), NEW i \in DOMAIN b, b[i] = HTTP_END
    PROVE  i = 2 /\ 2 <= Len(b)
<1> DEFINE y == DataUpTo("server", n)
           r == PROXY_RSP_SUCC
<1>1. r \in Bytes /\ Len(r) = 2 /\ r[1] = 80
  BY DEF PROXY_RSP_SUCC, HTTP_END, Bytes
<1>2. y \in Bytes /\ Len(y) = n /\ \A j \in 1 .. n : y[j] = 200 + j
  <2>1. y \in Bytes /\ Len(y) = n /\ \A j \in 1 .. n : y[j] = Data("server", j)
    BY DataIs
  <2> QED BY <2>1 DEF Data
<1>3. Joined(b, w, r, y)
  OBVIOUS
<1> HIDE DEF r, y
<1>4. i \in 1 .. Len(b) /\ Len(b) \in Nat /\ Len(w) \in Nat
  BY DEF Bytes
<1>5. i # 1
  <2> SUFFICES ASSUME i = 1 PROVE FALSE
    OBVIOUS
  <2>1. 1 \in 1 .. Len(b) /\ 1 <= Len(r)
    BY <1>1, <1>4
  <2>2. r \in Bytes /\ y \in Bytes
    BY <1>1, <1>2
  <2>3. b[1] = r[1]
    BY <2>1, <2>2, <1>3, Agree
  <2> QED BY <2>3, <1>1 DEF HTTP_END
<1>6. ~(i > 2)
  <2> SUFFICES ASSUME i > 2 PROVE FALSE
    OBVIOUS
  <2> DEFINE j == i - 2
  <2>1. (b \o w)[i] = b[i] /\ Len(b \o w) = Len(b) + Len(w)
    BY <1>4, CatIs
  <2>2. Len(r \o y) = 2 + n /\ \A m \in 1 .. n : (r \o y)[2 + m] = y[m]
    <3>1. /\ Len(r \o y) = Len(r) + Len(y)
          /\ \A m \in 1 .. Len(y) : (r \o y)[Len(r) + m] = y[m]
      <4>1. r \in Bytes /\ y \in Bytes
        BY <1>1, <1>2
      <4> QED BY <4>1, CatIs
    <3> QED BY <3>1, <1>1, <1>2
  <2>3. j \in 1 .. n /\ 2 + j = i
    BY <1>3, <1>4, <2>1, <2>2 DEF Joined
  <2> HIDE DEF j
  <2>4. b[i] = 200 + j
    BY <2>1, <2>2, <2>3, <1>2, <1>3 DEF Joined
  <2> QED BY <2>3, <2>4 DEF HTTP_END
<1> QED BY <1>4, <1>5, <1>6

-----------------------------------------------------------------------------
(* The invariant                                                           *)

Sent(e) == DataUpTo(e, sent[e])
Request == BuildSocks5Req(target)

(* What e has read but not used, and what is on its way to e               *)
In(e) == buf[e] \o wire[Peer(e)]

Stages == {"start", "method", "answer", "response", "greeting", "request", "hook", "header", "host",
           "open", "closed", "crashed"}

Typed ==
    /\ proto \in {"socks", "http"} /\ kind \in {"connector", "browser", "optimist"}
    /\ target \in Targets
    /\ opening \in IF proto = "http" THEN Requests ELSE Greetings
    /\ wire \in [Ends -> Bytes] /\ buf \in [Ends -> Bytes]
    /\ held \in [Ends -> Bytes] /\ got \in [Ends -> Bytes]
    /\ fin \in [Ends -> BOOLEAN] /\ glued \in [Ends -> BOOLEAN]
    /\ sent \in [Ends -> Nat] /\ first \in Nat
    /\ vetoed \in BOOLEAN /\ returned \in BOOLEAN
    /\ pc \in [Ends -> Stages]

(* Each protocol has its own places.                                       *)
Placed ==
    /\ pc["client"] \in {"start", "open", "closed"}
                        \cup IF proto = "socks" THEN {"method", "answer"} ELSE {"response"}
    /\ pc["server"] \in {"start", "open", "closed"}
                        \cup IF proto = "socks" THEN {"greeting", "request", "hook", "crashed"}
                                                ELSE {"header", "host"}

(* Who goes first, and what a connection has before it is open             *)
Ordered ==
    /\ fin["client"] => pc["client"] = "closed"
    /\ pc["client"] = "start" => /\ pc["server"] = "start" /\ sent["client"] = 0
                                 /\ wire["client"] = <<>> /\ buf["client"] = <<>>
    /\ pc["server"] = "start" => wire["server"] = <<>> /\ buf["server"] = <<>>
    /\ pc["server"] = "open" => returned
    /\ returned => pc["server"] \in {"open", "closed"} /\ ~vetoed
    /\ vetoed => pc["server"] = "closed"
    /\ ~returned => sent["server"] = 0
    /\ kind # "optimist" /\ pc["client"] = "method" => sent["client"] = 0

Unopened == \A e \in Ends : pc[e] \notin {"open", "closed"} => got[e] = <<>> /\ held[e] = <<>>

(* A socks client that has not asked yet: a browser waits for the answer   *)
(* to its greeting.                                                        *)
Waits == kind = "browser" /\ pc["client"] = "method"
AsksLater == kind = "browser" /\ pc["client"] \in {"method", "closed"}

SocksServerIn ==
    /\ pc["server"] \in {"start", "greeting"} =>
           /\ buf["server"] = <<>>
           /\ pc["client"] # "start" =>
                  wire["client"] = opening \o IF kind = "browser" THEN <<>>
                                              ELSE Request \o Sent("client")
    /\ pc["server"] \in {"request", "hook"} =>
           \/ In("server") = Request \o Sent("client") /\ ~Waits
           \/ In("server") = <<>> /\ AsksLater
    /\ pc["server"] = "hook" => RequestState(buf["server"]) = "hook"

(* What the acceptor wrote behind the answer to the greeting               *)
Answered ==
    IF returned THEN [Request EXCEPT ![2] = 0]
    ELSE IF vetoed THEN [Request EXCEPT ![2] = 2] ELSE <<>>

SocksClientIn ==
    /\ returned \/ vetoed => Supported(target) /\ ~Waits
    /\ pc["server"] \in {"start", "greeting"} =>
           /\ pc["client"] \in {"start", "method", "closed"}
           /\ pc["client"] = "method" => In("client") = <<>>
    /\ pc["client"] = "method" /\ pc["server"] \notin {"start", "greeting"} =>
           \/ In("client") = <<Version, 0>> \o (Answered \o Sent("server"))
           \/ In("client") = <<Version, 255>> /\ pc["server"] = "closed" /\ ~returned
    /\ pc["client"] = "answer" => In("client") = Answered \o Sent("server")

HttpServerIn ==
    /\ pc["server"] \in {"start", "header", "host"} /\ pc["client"] # "start" =>
           In("server") = opening \o Sent("client")
    /\ pc["server"] = "host" => Whole(buf["server"])

HttpClientIn ==
    /\ pc["client"] = "response" => opening = Header(CONNECT)
    /\ opening = Header(CONNECT) /\ pc["server"] \in {"start", "header"} =>
           pc["client"] # "open" /\ In("client") = <<>>
    /\ pc["client"] = "response" /\ pc["server"] \notin {"start", "header"} =>
           /\ In("client") = PROXY_RSP_SUCC \o Sent("server")
           /\ pc["server"] = "host" \/ returned \/ target.high

(* What is due to e before what its peer sends                             *)
Ahead(e) ==
    IF e = "server" /\ opening = GetRequest THEN <<Rewritten>> \o Tail(opening) ELSE <<>>

(* What an open connection will read is what is due.                       *)
Streaming(e) ==
    /\ pc[e] = "open" => got[e] \o (held[e] \o wire[Peer(e)]) = Due(e)
    /\ IsPrefix(got[e] \o held[e], Due(e))

Carried(e) == Spoilt(e) \/ Streaming(e)

Streams == \A e \in Ends : Carried(e)

SocksInv == proto = "socks" => SocksServerIn /\ SocksClientIn
HttpInv == proto = "http" => HttpServerIn /\ HttpClientIn

ShakeInv == /\ Typed /\ Placed /\ Ordered /\ Unopened /\ SocksInv /\ HttpInv /\ Streams
            /\ HandshakeAgrees /\ ServedUnlessCut

-----------------------------------------------------------------------------
(* What a step leaves alone                                                *)

LEMMA EndsAre == Ends = {"client", "server"} /\ Peer("client") = "server" /\ Peer("server") = "client"
BY DEF Ends, Peer

LEMMA ConfigKept ==
    ASSUME UNCHANGED config
    PROVE  /\ proto' = proto /\ kind' = kind /\ opening' = opening /\ target' = target
           /\ Request' = Request /\ WellFormed' = WellFormed
BY DEF config, Request, WellFormed

LEMMA InKept ==
    ASSUME NEW e \in Ends, buf'[e] = buf[e], wire'[Peer(e)] = wire[Peer(e)]
    PROVE  In(e)' = In(e)
BY DEF In, Peer

LEMMA SentKept ==
    ASSUME NEW e \in Ends, sent'[e] = sent[e]
    PROVE  Sent(e)' = Sent(e)
BY DEF Sent

LEMMA AnsweredKept ==
    ASSUME UNCHANGED <<config, returned, vetoed>>
    PROVE  Answered' = Answered
BY ConfigKept DEF Answered

LEMMA DueKept ==
    ASSUME NEW e \in Ends, UNCHANGED <<config, userVars>>
    PROVE  Due(e)' = Due(e) /\ Sent(e)' = Sent(e)
BY ConfigKept DEF Due, Sent, userVars

LEMMA StreamRest ==
    ASSUME NEW e \in Ends, Carried(e), UNCHANGED <<config, userVars>>,
           glued'[e] = glued[e], held'[e] = held[e],
           pc'[e] = "open" => pc[e] = "open" /\ wire'[Peer(e)] = wire[Peer(e)]
    PROVE  Carried(e)'
<1>1. Due(e)' = Due(e)
  BY DueKept
<1>2. Spoilt(e)' = Spoilt(e)
  BY ConfigKept DEF Spoilt
<1>3. got' = got
  BY DEF userVars
<1> QED BY <1>1, <1>2, <1>3 DEF Carried, Streaming

LEMMA StreamOpens ==
    ASSUME NEW e \in Ends, got'[e] = <<>>, held'[e] \in Bytes, wire'[Peer(e)] \in Bytes,
           Spoilt(e)' \/ held'[e] \o wire'[Peer(e)] = Due(e)'
    PROVE  Carried(e)'
<1>1. CASE Spoilt(e)'
  BY <1>1 DEF Carried
<1>2. CASE held'[e] \o wire'[Peer(e)] = Due(e)'
  <2>1. IsPrefix(held'[e], Due(e)')
    BY <1>2, PrefixOf
  <2>2. held'[e] \o wire'[Peer(e)] \in Bytes
    BY CatIs
  <2>3. got'[e] \o held'[e] = held'[e]
    BY EmptyIs
  <2>4. got'[e] \o (held'[e] \o wire'[Peer(e)]) = Due(e)'
    BY <2>2, <1>2, EmptyIs
  <2>5. Streaming(e)'
    BY <2>1, <2>3, <2>4 DEF Streaming
  <2> QED BY <2>5 DEF Carried
<1> QED BY <1>1, <1>2

LEMMA StreamsAre ==
    /\ Streams = (Carried("client") /\ Carried("server"))
    /\ Streams' = (Carried("client")' /\ Carried("server")')
BY EndsAre DEF Streams, Carried


(* What the invariant says of either end                                   *)
LEMMA EndIn ==
    ASSUME Typed, NEW e \in Ends
    PROVE  /\ wire[e] \in Bytes /\ wire[Peer(e)] \in Bytes /\ buf[e] \in Bytes
           /\ held[e] \in Bytes /\ got[e] \in Bytes /\ sent[e] \in Nat
           /\ In(e) \in Bytes /\ Sent(e) \in Bytes /\ Request \in Bytes /\ opening \in Bytes
<1>1. /\ wire[e] \in Bytes /\ wire[Peer(e)] \in Bytes /\ buf[e] \in Bytes
      /\ held[e] \in Bytes /\ got[e] \in Bytes /\ sent[e] \in Nat
  BY DEF Typed, Ends, Peer
<1>2. In(e) \in Bytes
  BY <1>1, CatIs DEF In
<1>3. Sent(e) \in Bytes
  BY <1>1, DataIs DEF Sent
<1>4. Request \in Bytes
  BY RequestIs DEF Typed, Request
<1>5. opening \in Bytes
  BY OpeningIs, GreetingIs DEF Typed
<1> QED BY <1>1, <1>2, <1>3, <1>4, <1>5

LEMMA DueIs ==
    ASSUME Typed, NEW e \in Ends
    PROVE  /\ Due(e) \in Bytes /\ Ahead(e) \in Bytes /\ Due(e) = Ahead(e) \o Sent(Peer(e))
           /\ e = "client" \/ opening # GetRequest => Due(e) = Sent(Peer(e))
<1>1. Sent(Peer(e)) \in Bytes
  BY EndsAre, EndIn
<1>2. Tail(GetRequest) \in Bytes
  <2>1. GetRequest \in Bytes /\ Len(GetRequest) >= 1
    BY OpeningIs
  <2> QED BY <2>1, TailIs
<1>3. <<Rewritten>> \in Bytes
  BY DEF Rewritten, Bytes
<1>4. <<Rewritten>> \o Tail(GetRequest) \in Bytes
  BY <1>2, <1>3, CatIs
<1>5. Ahead(e) \in Bytes
  BY <1>4, EmptyIs DEF Ahead
<1>6. Due(e) = Ahead(e) \o Sent(Peer(e))
  BY DEF Due, Ahead, Sent, DataUpTo, GetRequest
<1>7. Due(e) \in Bytes
  BY <1>1, <1>5, <1>6, CatIs
<1>8. e = "client" \/ opening # GetRequest => Ahead(e) = <<>>
  BY DEF Ahead
<1> QED BY <1>1, <1>5, <1>6, <1>7, <1>8, EmptyIs

LEMMA SocksOpening ==
    ASSUME Typed, proto = "socks"
    PROVE  opening \in Greetings /\ opening # GetRequest
BY NoGreetingIsRequest DEF Typed

LEMMA HttpOpening ==
    ASSUME Typed, proto # "socks"
    PROVE  proto = "http" /\ opening \in Requests /\ opening \in {Header(CONNECT), GetRequest}
BY OpeningIs DEF Typed

(* A client of socks that is open was answered.                            *)
LEMMA OpenClient ==
    ASSUME ShakeInv, pc["client"] = "open", proto = "socks"
    PROVE  returned
BY SocksOpening DEF ShakeInv, HandshakeAgrees, Placed, GetRequest

-----------------------------------------------------------------------------
(* One lemma for each action                                               *)

LEMMA InitStep == ShakeInit => ShakeInv
<1> SUFFICES ASSUME ShakeInit PROVE ShakeInv
  OBVIOUS
<1>1. /\ wire = [e \in Ends |-> <<>>] /\ buf = [e \in Ends |-> <<>>] /\ held = [e \in Ends |-> <<>>]
      /\ got = [e \in Ends |-> <<>>] /\ pc = [e \in Ends |-> "start"] /\ fin = [e \in Ends |-> FALSE]
      /\ sent = [e \in Ends |-> 0] /\ first = 0 /\ vetoed = FALSE /\ returned = FALSE
      /\ glued = [e \in Ends |-> FALSE]
  BY DEF ShakeInit, ConnInit
<1>2. <<>> \in Bytes
  BY EmptyIs
<1>3. opening \in IF proto = "http" THEN Requests ELSE Greetings
  BY DEF ShakeInit, Requests, Greetings, Version
<1>4. Typed
  BY <1>1, <1>2, <1>3 DEF Typed, ShakeInit, Stages
<1>5. Placed /\ Ordered /\ Unopened
  BY <1>1, EndsAre DEF Placed, Ordered, Unopened
<1>6. SocksInv
  BY <1>1, EndsAre DEF SocksInv, SocksServerIn, SocksClientIn
<1>7. HttpInv
  <2>1. In("client") = <<>>
    BY <1>1, EndsAre, EmptyIs DEF In
  <2> QED BY <1>1, <2>1, EndsAre DEF HttpInv, HttpServerIn, HttpClientIn
<1>8. Streams
  <2>1. ASSUME NEW e \in Ends PROVE Streaming(e)
    <3>1. got[e] \o held[e] = <<>> /\ pc[e] # "open"
      BY <1>1, <1>2, EmptyIs
    <3>2. Due(e) \in Bytes
      BY <1>4, DueIs
    <3>3. IsPrefix(<<>>, Due(e))
      BY <3>2, <1>2, PrefixOf, EmptyIs
    <3> QED BY <3>1, <3>3 DEF Streaming
  <2> QED BY <2>1 DEF Streams, Carried
<1>9. HandshakeAgrees /\ ServedUnlessCut
  BY <1>1, EndsAre DEF HandshakeAgrees, ServedUnlessCut
<1> QED BY <1>4, <1>5, <1>6, <1>7, <1>8, <1>9 DEF ShakeInv

LEMMA AcceptSocksStep ==
    ASSUME ShakeInv, SocksAccept
    PROVE  ShakeInv'
<1>1. /\ UNCHANGED <<config, wire, fin, buf, held, parsed, userVars, history>>
      /\ proto = "socks" /\ pc["server"] = "start" /\ pc["client"] # "start"
      /\ pc' = [pc EXCEPT !["server"] = "greeting"]
  BY DEF SocksAccept, Goes
<1>2. /\ pc'["server"] = "greeting" /\ pc'["client"] = pc["client"]
      /\ pc' \in [Ends -> Stages]
  BY <1>1 DEF ShakeInv, Typed, Ends, Stages
<1>3. /\ wire' = wire /\ buf' = buf /\ held' = held /\ got' = got /\ fin' = fin /\ glued' = glued
      /\ sent' = sent /\ first' = first /\ vetoed' = vetoed /\ returned' = returned /\ parsed' = parsed
  BY <1>1 DEF userVars, history
<1>4. /\ proto' = proto /\ kind' = kind /\ opening' = opening /\ target' = target
      /\ Request' = Request /\ WellFormed' = WellFormed
  BY <1>1, ConfigKept
<1>5. /\ \A e \in Ends : In(e)' = In(e) /\ Sent(e)' = Sent(e)
      /\ Answered' = Answered
  BY <1>1, <1>3, InKept, SentKept, AnsweredKept
<1>6. Typed' /\ Placed' /\ Ordered' /\ Unopened'
  BY <1>1, <1>2, <1>3, <1>4, EndsAre DEF ShakeInv, Typed, Placed, Ordered, Unopened
<1>7. SocksInv'
  <2>1. SocksServerIn'
    BY <1>1, <1>2, <1>3, <1>4, <1>5, EndsAre DEF ShakeInv, SocksInv, SocksServerIn
  <2>2. SocksClientIn'
    BY <1>1, <1>2, <1>3, <1>4, <1>5, EndsAre
       DEF ShakeInv, SocksInv, SocksClientIn, Waits, Ordered
  <2> QED BY <2>1, <2>2 DEF SocksInv
<1>8. HttpInv'
  BY <1>1, <1>4 DEF HttpInv
<1>9. Streams'
  BY <1>1, <1>2, <1>3, StreamRest, StreamsAre, EndsAre DEF ShakeInv
<1>10. HandshakeAgrees' /\ ServedUnlessCut'
  BY <1>1, <1>2, <1>3, <1>4 DEF ShakeInv, HandshakeAgrees, ServedUnlessCut
<1> QED BY <1>6, <1>7, <1>8, <1>9, <1>10 DEF ShakeInv

LEMMA AcceptHttpStep ==
    ASSUME ShakeInv, HttpAccept
    PROVE  ShakeInv'
<1>1. /\ UNCHANGED <<config, wire, fin, buf, held, parsed, userVars, history>>
      /\ proto = "http" /\ pc["server"] = "start" /\ pc["client"] # "start"
      /\ pc' = [pc EXCEPT !["server"] = "header"]
  BY DEF HttpAccept, Goes
<1>2. /\ pc'["server"] = "header" /\ pc'["client"] = pc["client"]
      /\ pc' \in [Ends -> Stages]
  BY <1>1 DEF ShakeInv, Typed, Ends, Stages
<1>3. /\ wire' = wire /\ buf' = buf /\ held' = held /\ got' = got /\ fin' = fin /\ glued' = glued
      /\ sent' = sent /\ first' = first /\ vetoed' = vetoed /\ returned' = returned /\ parsed' = parsed
  BY <1>1 DEF userVars, history
<1>4. /\ proto' = proto /\ kind' = kind /\ opening' = opening /\ target' = target
      /\ Request' = Request /\ WellFormed' = WellFormed
  BY <1>1, ConfigKept
<1>5. \A e \in Ends : In(e)' = In(e) /\ Sent(e)' = Sent(e)
  BY <1>1, <1>3, InKept, SentKept
<1>6. Typed' /\ Placed' /\ Ordered' /\ Unopened'
  BY <1>1, <1>2, <1>3, <1>4, EndsAre DEF ShakeInv, Typed, Placed, Ordered, Unopened
<1>7. SocksInv'
  BY <1>1, <1>4 DEF SocksInv
<1>8. HttpInv'
  BY <1>1, <1>2, <1>3, <1>4, <1>5, EndsAre DEF ShakeInv, HttpInv, HttpServerIn, HttpClientIn
<1>9. Streams'
  BY <1>1, <1>2, <1>3, StreamRest, StreamsAre, EndsAre DEF ShakeInv
<1>10. HandshakeAgrees' /\ ServedUnlessCut'
  BY <1>1, <1>2, <1>3, <1>4 DEF ShakeInv, HandshakeAgrees, ServedUnlessCut
<1> QED BY <1>6, <1>7, <1>8, <1>9, <1>10 DEF ShakeInv

(* An end closes its connection: the acceptor only when it had returned it *)
(* or when the client is gone.                                             *)
LEMMA ClosingStep ==
    ASSUME ShakeInv, NEW e \in Ends, Closes(e),
           UNCHANGED <<config, wire, buf, held, parsed, userVars, history>>,
           pc[e] # "start", e = "server" => pc["server"] = "open" \/ fin["client"]
    PROVE  ShakeInv'
<1>1. /\ pc' = [pc EXCEPT ![e] = "closed"] /\ fin' = [fin EXCEPT ![e] = TRUE]
      /\ wire' = wire /\ buf' = buf /\ held' = held /\ got' = got /\ glued' = glued
      /\ sent' = sent /\ first' = first /\ vetoed' = vetoed /\ returned' = returned /\ parsed' = parsed
  BY DEF Closes, Goes, userVars, history
<1>2. /\ proto' = proto /\ kind' = kind /\ opening' = opening /\ target' = target
      /\ Request' = Request /\ WellFormed' = WellFormed
  BY ConfigKept
<1>3. /\ \A d \in Ends : In(d)' = In(d) /\ Sent(d)' = Sent(d)
      /\ Answered' = Answered
  BY <1>1, InKept, SentKept, AnsweredKept
<1>4. /\ Typed' /\ pc'[e] = "closed" /\ fin'[e]
      /\ \A d \in Ends : d # e => pc'[d] = pc[d] /\ fin'[d] = fin[d]
  BY <1>1, <1>2 DEF ShakeInv, Typed, Stages
<1>5. \A d \in Ends : Carried(d)'
  BY <1>1, <1>4, StreamRest DEF ShakeInv, Streams
<1>6. Streams'
  BY <1>5, StreamsAre, EndsAre
<1>7. CASE e = "client"
  <2>1. pc'["client"] = "closed" /\ fin'["client"] /\ pc'["server"] = pc["server"]
    BY <1>4, <1>7, EndsAre
  <2>2. Placed' /\ Ordered' /\ Unopened'
    BY <1>1, <1>2, <1>7, <2>1, EndsAre DEF ShakeInv, Placed, Ordered, Unopened
  <2>3. SocksServerIn' \/ proto # "socks"
    <3>1. CASE proto = "socks"
      BY <1>1, <1>2, <1>3, <1>7, <2>1, <3>1, EndsAre
         DEF ShakeInv, SocksInv, SocksServerIn, Waits, AsksLater
    <3> QED BY <3>1
  <2>4. SocksClientIn' \/ proto # "socks"
    BY <1>1, <1>2, <2>1 DEF ShakeInv, SocksInv, SocksClientIn, Waits
  <2>5. HttpInv'
    BY <1>1, <1>2, <1>3, <1>7, <2>1, EndsAre DEF ShakeInv, HttpInv, HttpServerIn, HttpClientIn
  <2>6. HandshakeAgrees' /\ ServedUnlessCut'
    BY <1>1, <1>2, <2>1 DEF ShakeInv, HandshakeAgrees, ServedUnlessCut
  <2> QED BY <1>2, <1>4, <1>6, <2>2, <2>3, <2>4, <2>5, <2>6 DEF ShakeInv, SocksInv
<1>8. CASE e = "server"
  <2>1. /\ pc'["server"] = "closed" /\ pc'["client"] = pc["client"] /\ fin'["client"] = fin["client"]
        /\ pc["server"] = "open" \/ pc["client"] = "closed"
        /\ returned \/ fin["client"]
    BY <1>4, <1>8, EndsAre DEF ShakeInv, Ordered
  <2>2. Placed' /\ Ordered' /\ Unopened'
    BY <1>1, <1>2, <1>8, <2>1, EndsAre DEF ShakeInv, Placed, Ordered, Unopened
  <2>3. SocksServerIn'
    BY <2>1 DEF SocksServerIn
  <2>4. SocksClientIn' \/ proto # "socks"
    BY <1>1, <1>2, <1>3, <2>1, EndsAre DEF ShakeInv, SocksInv, SocksClientIn, Waits
  <2>5. HttpInv'
    BY <1>1, <1>2, <1>3, <2>1, EndsAre DEF ShakeInv, HttpInv, HttpServerIn, HttpClientIn, Ordered
  <2>6. HandshakeAgrees' /\ ServedUnlessCut'
    BY <1>1, <1>2, <2>1 DEF ShakeInv, HandshakeAgrees, ServedUnlessCut, Ordered
  <2> QED BY <1>2, <1>4, <1>6, <2>2, <2>3, <2>4, <2>5, <2>6 DEF ShakeInv, SocksInv
<1> QED BY <1>7, <1>8, EndsAre

LEMMA EndingStep ==
    ASSUME ShakeInv, NEW e \in Ends, Timeout \/ Leave(e) \/ Fails(e)
    PROVE  ShakeInv'
<1>1. CASE Timeout
  BY <1>1, ClosingStep, EndsAre DEF Timeout, Shaking
<1>2. CASE Leave(e)
  BY <1>2, ClosingStep, EndsAre DEF Leave, Shaking
<1>3. CASE Fails(e)
  BY <1>3, ClosingStep, EndsAre DEF Fails, Shaking
<1> QED BY <1>1, <1>2, <1>3

LEMMA StutterStep ==
    ASSUME ShakeInv, UNCHANGED proxyVars
    PROVE  ShakeInv'
<1>1. /\ wire' = wire /\ buf' = buf /\ held' = held /\ got' = got /\ fin' = fin /\ glued' = glued
      /\ sent' = sent /\ first' = first /\ vetoed' = vetoed /\ returned' = returned /\ parsed' = parsed
      /\ pc' = pc /\ UNCHANGED <<config, userVars>>
  BY DEF proxyVars, config, userVars, history
<1>2. /\ proto' = proto /\ kind' = kind /\ opening' = opening /\ target' = target
      /\ Request' = Request /\ WellFormed' = WellFormed
  BY <1>1, ConfigKept
<1>3. /\ \A d \in Ends : In(d)' = In(d) /\ Sent(d)' = Sent(d)
      /\ Answered' = Answered
  BY <1>1, InKept, SentKept, AnsweredKept
<1>4. Typed' /\ Placed' /\ Ordered' /\ Unopened'
  BY <1>1, <1>2 DEF ShakeInv, Typed, Placed, Ordered, Unopened
<1>5. SocksServerIn' = SocksServerIn /\ SocksClientIn' = SocksClientIn
  BY <1>1, <1>2, <1>3, EndsAre DEF SocksServerIn, SocksClientIn, Waits, AsksLater
<1>6. HttpServerIn' = HttpServerIn /\ HttpClientIn' = HttpClientIn
  BY <1>1, <1>2, <1>3, EndsAre DEF HttpServerIn, HttpClientIn
<1>7. SocksInv' /\ HttpInv'
  BY <1>2, <1>5, <1>6 DEF ShakeInv, SocksInv, HttpInv
<1>8. Streams'
  BY <1>1, StreamRest, StreamsAre, EndsAre DEF ShakeInv
<1>9. HandshakeAgrees' /\ ServedUnlessCut'
  BY <1>1, <1>2 DEF ShakeInv, HandshakeAgrees, ServedUnlessCut
<1> QED BY <1>4, <1>7, <1>8, <1>9 DEF ShakeInv

(* HttpDial sends the request.                                             *)
LEMMA DialHttpStep ==
    ASSUME ShakeInv, HttpDial
    PROVE  ShakeInv'
<1>0. /\ proto = "http" /\ pc["client"] = "start" /\ pc["server"] = "start"
      /\ wire["client"] = <<>> /\ buf["client"] = <<>> /\ sent["client"] = 0 /\ sent["server"] = 0
      /\ wire["server"] = <<>> /\ buf["server"] = <<>> /\ got["client"] = <<>> /\ held["client"] = <<>>
      /\ ~returned /\ ~vetoed
  BY EndsAre DEF HttpDial, ShakeInv, Ordered, Unopened
<1>1. /\ UNCHANGED <<config, userVars>>
      /\ pc' = [pc EXCEPT !["client"] = IF opening[1] = GET THEN "open" ELSE "response"]
      /\ wire' = [wire EXCEPT !["client"] = @ \o opening]
      /\ buf' = buf /\ held' = held /\ got' = got /\ glued' = glued /\ fin' = fin
      /\ sent' = sent /\ first' = first /\ vetoed' = vetoed /\ returned' = returned /\ parsed' = parsed
  BY DEF HttpDial, Goes, Put, userVars, history
<1>2. /\ proto' = proto /\ kind' = kind /\ opening' = opening /\ target' = target
      /\ Request' = Request /\ WellFormed' = WellFormed
  BY <1>1, ConfigKept
<1>3. opening \in Bytes /\ opening \in {Header(CONNECT), GetRequest} /\ Typed
  BY <1>0, HttpOpening, EndIn, EndsAre DEF ShakeInv
<1>4. /\ wire'["client"] = opening /\ wire'["server"] = wire["server"]
      /\ wire' = [wire EXCEPT !["client"] = opening]
  BY <1>0, <1>1, <1>3, EndsAre, EmptyIs DEF Typed
<1>5. /\ opening = Header(CONNECT) => pc'["client"] = "response"
      /\ opening = GetRequest => pc'["client"] = "open"
      /\ pc'["server"] = "start"
  BY <1>0, <1>1, <1>3, OpeningIs, EndsAre DEF Typed
<1>6. Typed'
  <2>1. wire' \in [Ends -> Bytes]
    BY <1>3, <1>4, EndsAre DEF Typed
  <2>2. pc' \in [Ends -> Stages]
    BY <1>1, <1>3, EndsAre DEF Typed, Stages
  <2> QED BY <1>1, <1>2, <1>3, <2>1, <2>2 DEF Typed
<1>7. Placed' /\ Ordered' /\ Unopened'
  BY <1>0, <1>1, <1>2, <1>3, <1>4, <1>5, EndsAre DEF ShakeInv, Placed, Ordered, Unopened
<1>8. SocksInv'
  BY <1>0, <1>2 DEF SocksInv
<1>9. HttpInv'
  <2>1. In("client")' = <<>>
    BY <1>0, <1>1, <1>4, EndsAre, EmptyIs DEF In
  <2>2. In("server")' = opening \o Sent("client")'
    <3>1. Sent("client")' = <<>>
      BY <1>0, <1>1, DataIs DEF Sent
    <3>2. In("server")' = opening
      BY <1>0, <1>1, <1>3, <1>4, EndsAre, EmptyIs DEF In
    <3> QED BY <3>1, <3>2, <1>3, EmptyIs
  <2> QED BY <2>1, <2>2, <1>2, <1>3, <1>5, OpeningIs DEF HttpInv, HttpServerIn, HttpClientIn
<1>10. Streams'
  <2>1. Carried("server")'
    BY <1>0, <1>1, <1>5, StreamRest, StreamsAre, EndsAre DEF ShakeInv
  <2>2. Carried("client")'
    <3>1. Due("client")' = Sent("server")'
      BY <1>1, <1>3, DueKept, DueIs, EndsAre
    <3>2. Sent("server")' = <<>>
      BY <1>0, <1>1, DataIs DEF Sent
    <3>3. held'["client"] \o wire'["server"] = <<>>
      BY <1>0, <1>1, <1>4, EmptyIs
    <3> QED BY <3>1, <3>2, <3>3, <1>0, <1>1, <1>4, StreamOpens, EndsAre, EmptyIs
  <2> QED BY <2>1, <2>2, StreamsAre
<1>11. HandshakeAgrees' /\ ServedUnlessCut'
  BY <1>0, <1>1, <1>2, <1>3, <1>5 DEF ShakeInv, HandshakeAgrees, ServedUnlessCut, GetRequest
<1> QED BY <1>6, <1>7, <1>8, <1>9, <1>10, <1>11 DEF ShakeInv

(* SocksDial sends the greeting and, but for a browser, the request.       *)
LEMMA DialSocksStep ==
    ASSUME ShakeInv, SocksDial
    PROVE  ShakeInv'
<1> DEFINE q == IF kind = "browser" THEN <<>> ELSE Request
<1>0. /\ proto = "socks" /\ pc["client"] = "start" /\ pc["server"] = "start"
      /\ wire["client"] = <<>> /\ buf["client"] = <<>> /\ sent["client"] = 0 /\ sent["server"] = 0
      /\ wire["server"] = <<>> /\ buf["server"] = <<>> /\ got["client"] = <<>> /\ held["client"] = <<>>
      /\ ~returned /\ ~vetoed
  BY EndsAre DEF SocksDial, ShakeInv, Ordered, Unopened
<1>1. /\ UNCHANGED <<config, userVars>>
      /\ pc' = [pc EXCEPT !["client"] = "method"]
      /\ wire' = [wire EXCEPT !["client"] = @ \o (opening \o q)]
      /\ buf' = buf /\ held' = held /\ got' = got /\ glued' = glued /\ fin' = fin
      /\ sent' = sent /\ first' = first /\ vetoed' = vetoed /\ returned' = returned /\ parsed' = parsed
  BY DEF SocksDial, Goes, Put, userVars, history, Request
<1>2. /\ proto' = proto /\ kind' = kind /\ opening' = opening /\ target' = target
      /\ Request' = Request /\ WellFormed' = WellFormed
  BY <1>1, ConfigKept
<1>3. opening \in Bytes /\ Request \in Bytes /\ Typed
  BY <1>0, EndIn, EndsAre DEF ShakeInv
<1>4. q \in Bytes /\ opening \o q \in Bytes
  BY <1>3, EmptyIs, CatIs
<1>5. /\ wire'["client"] = opening \o q /\ wire'["server"] = wire["server"]
      /\ wire' = [wire EXCEPT !["client"] = opening \o q]
  <2> HIDE DEF q
  <2>1. wire["client"] \o (opening \o q) = opening \o q
    BY <1>0, <1>4, EmptyIs
  <2> QED BY <2>1, <1>1, <1>3, EndsAre DEF Typed
<1>6. pc'["client"] = "method" /\ pc'["server"] = "start"
  BY <1>0, <1>1, <1>3, EndsAre DEF Typed
<1>7. Typed'
  <2> HIDE DEF q
  <2>1. wire' \in [Ends -> Bytes]
    BY <1>3, <1>4, <1>5, EndsAre DEF Typed
  <2>2. pc' \in [Ends -> Stages]
    BY <1>1, <1>3, EndsAre DEF Typed, Stages
  <2> QED BY <1>1, <1>2, <1>3, <2>1, <2>2 DEF Typed
<1>8. Placed' /\ Ordered' /\ Unopened'
  BY <1>0, <1>1, <1>2, <1>5, <1>6, EndsAre DEF ShakeInv, Placed, Ordered, Unopened
<1>9. HttpInv'
  BY <1>0, <1>2 DEF HttpInv
<1>10. SocksInv'
  <2>1. In("client")' = <<>>
    BY <1>0, <1>1, <1>5, EndsAre, EmptyIs DEF In
  <2>2. Sent("client")' = <<>>
    BY <1>0, <1>1, DataIs DEF Sent
  <2>3. Request \o Sent("client")' = Request
    BY <2>2, <1>3, EmptyIs
  <2>4. wire'["client"] = opening \o IF kind = "browser" THEN <<>> ELSE Request \o Sent("client")'
    BY <2>3, <1>5
  <2>5. SocksServerIn'
    BY <2>4, <1>0, <1>1, <1>2, <1>6 DEF SocksServerIn
  <2>6. SocksClientIn'
    BY <2>1, <1>0, <1>1, <1>6 DEF SocksClientIn
  <2> QED BY <2>5, <2>6 DEF SocksInv
<1>11. Streams'
  BY <1>0, <1>1, <1>6, StreamRest, StreamsAre, EndsAre DEF ShakeInv
<1>12. HandshakeAgrees' /\ ServedUnlessCut'
  BY <1>0, <1>1, <1>2, <1>6 DEF ShakeInv, HandshakeAgrees, ServedUnlessCut
<1> QED BY <1>7, <1>8, <1>9, <1>10, <1>11, <1>12 DEF ShakeInv

(* A Read of the handshake, and what it answers                            *)
LEMMA Exchanged ==
    ASSUME Typed, NEW e \in Ends, NEW k \in 1 .. Len(wire[Peer(e)]), NEW answer \in Bytes,
           Exchange(e, k, answer)
    PROVE  /\ wire' \in [Ends -> Bytes]
           /\ wire'[Peer(e)] \in Bytes /\ wire'[e] = wire[e] \o answer
           /\ buf[e] \o SubSeq(wire[Peer(e)], 1, k) \in Bytes
           /\ Len(buf[e] \o SubSeq(wire[Peer(e)], 1, k)) = Len(buf[e]) + k
           /\ Len(buf[e] \o SubSeq(wire[Peer(e)], 1, k)) >= 1
           /\ (buf[e] \o SubSeq(wire[Peer(e)], 1, k)) \o wire'[Peer(e)] = In(e)
           /\ In(e) # <<>>
           /\ buf'[Peer(e)] = buf[Peer(e)] => In(Peer(e))' = In(Peer(e)) \o answer
<1> DEFINE r == buf[e] \o SubSeq(wire[Peer(e)], 1, k)
<1>1. /\ wire[e] \in Bytes /\ wire[Peer(e)] \in Bytes /\ buf[e] \in Bytes /\ buf[Peer(e)] \in Bytes
      /\ Peer(e) \in Ends /\ Peer(e) # e /\ Peer(Peer(e)) = e
  BY EndIn, EndsAre
<1>2. /\ Drop(wire[Peer(e)], k) \in Bytes /\ r \in Bytes
      /\ r \o Drop(wire[Peer(e)], k) = In(e) /\ Len(r) = Len(buf[e]) + k
  BY <1>1, ReadOn DEF In
<1> HIDE DEF r
<1>3. wire[e] \o answer \in Bytes
  BY <1>1, CatIs
<1>4. /\ wire' = [wire EXCEPT ![Peer(e)] = Drop(@, k), ![e] = @ \o answer]
      /\ wire \in [Ends -> Bytes]
  BY DEF Exchange, Typed
<1>5. /\ wire'[Peer(e)] = Drop(wire[Peer(e)], k) /\ wire'[e] = wire[e] \o answer
      /\ wire' \in [Ends -> Bytes]
  BY <1>1, <1>2, <1>3, <1>4
<1>6. Len(r) >= 1
  <2>1. Len(buf[e]) \in Nat
    BY <1>1 DEF Bytes
  <2> QED BY <2>1, <1>2
<1>7. In(e) # <<>>
  <2>1. Len(r \o Drop(wire[Peer(e)], k)) = Len(r) + Len(Drop(wire[Peer(e)], k))
        /\ Len(Drop(wire[Peer(e)], k)) \in Nat /\ Len(r) \in Nat
    BY <1>2, CatIs
  <2>2. Len(In(e)) >= 1
    BY <2>1, <1>2, <1>6
  <2> QED BY <2>2, EmptyIs
<1>8. buf'[Peer(e)] = buf[Peer(e)] => In(Peer(e))' = In(Peer(e)) \o answer
  <2>1. (buf[Peer(e)] \o wire[e]) \o answer = buf[Peer(e)] \o (wire[e] \o answer)
    BY <1>1, Assoc
  <2> QED BY <2>1, <1>1, <1>5 DEF In
<1> QED BY <1>2, <1>5, <1>6, <1>7, <1>8 DEF r

(* What is in front of the acceptor of an http proxy                       *)
LEMMA ReadHttpStep ==
    ASSUME ShakeInv, HttpRead
    PROVE  ShakeInv'
<1>0. /\ pc["server"] = "header" /\ proto = "http" /\ Typed /\ pc["client"] # "start"
      /\ ~returned /\ ~vetoed /\ sent["server"] = 0
  <2>1. pc["server"] = "header"
    BY DEF HttpRead
  <2>2. Typed /\ proto \in {"socks", "http"}
    BY DEF ShakeInv, Typed
  <2> QED BY <2>1, <2>2 DEF ShakeInv, Placed, Ordered
<1>1. PICK k \in 1 .. Len(wire["client"]) :
          LET read == buf["server"] \o SubSeq(wire["client"], 1, k)
          IN  /\ Exchange("server", k,
                          IF Whole(read) /\ read[1] = CONNECT THEN PROXY_RSP_SUCC ELSE <<>>)
              /\ buf' = [buf EXCEPT !["server"] = read]
              /\ Goes("server", IF Whole(read) THEN "host" ELSE "header")
  BY DEF HttpRead, Whole
<1> DEFINE read == buf["server"] \o SubSeq(wire["client"], 1, k)
           answer == IF Whole(read) /\ read[1] = CONNECT THEN PROXY_RSP_SUCC ELSE <<>>
<1>2. /\ UNCHANGED <<config, userVars>>
      /\ held' = held /\ got' = got /\ glued' = glued /\ fin' = fin
      /\ sent' = sent /\ first' = first /\ vetoed' = vetoed /\ returned' = returned /\ parsed' = parsed
  BY DEF HttpRead, userVars, history
<1>3. /\ proto' = proto /\ kind' = kind /\ opening' = opening /\ target' = target
      /\ Request' = Request /\ WellFormed' = WellFormed
  BY <1>2, ConfigKept
<1>4. answer \in Bytes /\ PROXY_RSP_SUCC \in Bytes
  BY EmptyIs DEF PROXY_RSP_SUCC, HTTP_END, Bytes
<1>5. /\ wire' \in [Ends -> Bytes] /\ wire'["client"] \in Bytes
      /\ wire'["server"] = wire["server"] \o answer
      /\ read \in Bytes /\ Len(read) >= 1 /\ read \o wire'["client"] = In("server")
      /\ buf'["client"] = buf["client"] => In("client")' = In("client") \o answer
  <2> HIDE DEF read, answer
  <2>1. Exchange("server", k, answer) /\ k \in 1 .. Len(wire[Peer("server")]) /\ "server" \in Ends
    BY <1>1, EndsAre DEF read, answer
  <2>2. /\ wire' \in [Ends -> Bytes] /\ wire'[Peer("server")] \in Bytes
        /\ wire'["server"] = wire["server"] \o answer
        /\ buf["server"] \o SubSeq(wire[Peer("server")], 1, k) \in Bytes
        /\ Len(buf["server"] \o SubSeq(wire[Peer("server")], 1, k)) >= 1
        /\ (buf["server"] \o SubSeq(wire[Peer("server")], 1, k)) \o wire'[Peer("server")] = In("server")
        /\ buf'[Peer("server")] = buf[Peer("server")]
               => In(Peer("server"))' = In(Peer("server")) \o answer
    BY <2>1, <1>0, <1>4, Exchanged
  <2> QED BY <2>2, EndsAre DEF read
<1>6. /\ buf' = [buf EXCEPT !["server"] = read]
      /\ pc' = [pc EXCEPT !["server"] = IF Whole(read) THEN "host" ELSE "header"]
  BY <1>1 DEF Goes
<1> HIDE DEF read, answer
<1>7. /\ buf'["client"] = buf["client"] /\ buf'["server"] = read /\ buf' \in [Ends -> Bytes]
      /\ pc'["client"] = pc["client"] /\ pc'["server"] = IF Whole(read) THEN "host" ELSE "header"
      /\ pc' \in [Ends -> Stages]
  BY <1>0, <1>5, <1>6, EndsAre DEF Typed, Stages
<1>8. /\ In("server")' = In("server") /\ In("client")' = In("client") \o answer
      /\ Sent("client")' = Sent("client") /\ Sent("server")' = Sent("server")
  <2>1. In("server")' = read \o wire'["client"]
    BY <1>7, EndsAre DEF In
  <2> QED BY <2>1, <1>2, <1>5, <1>7, SentKept, EndsAre
<1>9. /\ read[1] = CONNECT <=> opening = Header(CONNECT)
      /\ opening \in {Header(CONNECT), GetRequest}
  <2>1. opening \in Requests /\ opening \in {Header(CONNECT), GetRequest}
    BY <1>0, HttpOpening
  <2>2. In("server") = opening \o Sent("client") /\ Sent("client") \in Bytes
    BY <1>0, EndIn, EndsAre DEF ShakeInv, HttpInv, HttpServerIn
  <2>3. Joined(read, wire'["client"], opening, Sent("client"))
    BY <2>2, <1>5 DEF Joined
  <2>4. read[1] = opening[1] /\ (opening[1] = CONNECT <=> opening = Header(CONNECT))
    BY <2>1, <2>2, <2>3, <1>5, WholeRead
  <2> QED BY <2>1, <2>4
<1>10. Typed' /\ Placed' /\ Ordered' /\ Unopened'
  <2>1. Typed'
    BY <1>0, <1>2, <1>3, <1>5, <1>7 DEF Typed
  <2>2. Placed' /\ Ordered' /\ Unopened'
    BY <1>0, <1>2, <1>3, <1>7, EndsAre DEF ShakeInv, Placed, Ordered, Unopened
  <2> QED BY <2>1, <2>2
<1>11. SocksInv'
  BY <1>0, <1>3 DEF SocksInv
<1>12. HttpServerIn'
  BY <1>0, <1>3, <1>7, <1>8 DEF ShakeInv, HttpInv, HttpServerIn
<1>13. HttpClientIn'
  <2>1. CASE opening = GetRequest
    BY <2>1, <1>0, <1>3, <1>7, OpeningIs DEF ShakeInv, HttpInv, HttpClientIn
  <2>2. CASE opening = Header(CONNECT)
    <3>1. pc["client"] # "open" /\ In("client") = <<>>
      BY <2>2, <1>0 DEF ShakeInv, HttpInv, HttpClientIn
    <3>2. In("client")' = answer
      BY <3>1, <1>4, <1>8, EmptyIs DEF answer
    <3>3. CASE Whole(read)
      <4>1. answer = PROXY_RSP_SUCC
        BY <2>2, <3>3, <1>9 DEF answer
      <4>2. Sent("server")' = <<>>
        <5>1. DataUpTo("server", 0) = <<>>
          BY DataIs
        <5> QED BY <5>1, <1>0, <1>8 DEF Sent
      <4>3. In("client")' = PROXY_RSP_SUCC \o Sent("server")'
        BY <4>1, <4>2, <3>2, <1>4, EmptyIs
      <4> QED BY <4>3, <3>1, <3>3, <2>2, <1>3, <1>7 DEF HttpClientIn
    <3>4. CASE ~Whole(read)
      <4>1. answer = <<>>
        BY <3>4 DEF answer
      <4> QED BY <4>1, <3>1, <3>2, <3>4, <2>2, <1>3, <1>7 DEF HttpClientIn
    <3> QED BY <3>3, <3>4
  <2> QED BY <2>1, <2>2, <1>9
<1>14. Streams'
  <2>1. Carried("server")'
    BY <1>0, <1>2, <1>7, StreamRest, StreamsAre, EndsAre DEF ShakeInv
  <2>2. pc["client"] = "open" => wire'["server"] = wire["server"]
    <3>1. pc["client"] = "open" => opening # Header(CONNECT)
      BY <1>0 DEF ShakeInv, HttpInv, HttpClientIn
    <3>2. pc["client"] = "open" => answer = <<>>
      BY <3>1, <1>9 DEF answer
    <3>3. wire["server"] \in Bytes
      BY <1>0, EndIn, EndsAre
    <3> QED BY <3>2, <3>3, <1>5, EmptyIs
  <2>3. Carried("client")'
    BY <2>2, <1>0, <1>2, <1>7, StreamRest, StreamsAre, EndsAre DEF ShakeInv
  <2> QED BY <2>1, <2>3, StreamsAre
<1>15. HandshakeAgrees' /\ ServedUnlessCut'
  <2>1. pc["client"] = "open" => opening = GetRequest
    BY <1>0, <1>9 DEF ShakeInv, HttpInv, HttpClientIn
  <2> QED BY <2>1, <1>0, <1>2, <1>3, <1>7 DEF HandshakeAgrees, ServedUnlessCut, GetRequest
<1> QED BY <1>10, <1>11, <1>12, <1>13, <1>14, <1>15, <1>0, <1>3 DEF ShakeInv, HttpInv

(* The acceptor of an http proxy looks at the host and returns.            *)
LEMMA ReturnHttpStep ==
    ASSUME ShakeInv, HttpReturn
    PROVE  ShakeInv'
<1> DEFINE b == buf["server"]
<1>0. /\ pc["server"] = "host" /\ proto = "http" /\ Typed /\ pc["client"] # "start"
      /\ ~returned /\ ~vetoed /\ sent["server"] = 0 /\ got["server"] = <<>>
      /\ fin["client"] => pc["client"] = "closed"
  <2>1. pc["server"] = "host"
    BY DEF HttpReturn
  <2>2. Typed /\ proto \in {"socks", "http"}
    BY DEF ShakeInv, Typed
  <2> QED BY <2>1, <2>2, EndsAre DEF ShakeInv, Placed, Ordered, Unopened
<1>1. /\ UNCHANGED <<config, userVars>> /\ wire' = wire /\ got' = got
      /\ sent' = sent /\ first' = first /\ vetoed' = vetoed
  BY DEF HttpReturn, userVars
<1>2. /\ proto' = proto /\ kind' = kind /\ opening' = opening /\ target' = target
      /\ Request' = Request /\ WellFormed' = WellFormed
  BY <1>1, ConfigKept
<1>3. /\ \A e \in Ends : Sent(e)' = Sent(e)
      /\ buf'["client"] = buf["client"] => In("client")' = In("client")
  BY <1>1, DueKept, InKept, EndsAre
<1>4. /\ In("server") = opening \o Sent("client") /\ Whole(b)
      /\ opening \in {Header(CONNECT), GetRequest} /\ opening \in Requests
      /\ b \in Bytes /\ wire["client"] \in Bytes /\ Sent("client") \in Bytes
  BY <1>0, HttpOpening, EndIn, EndsAre DEF ShakeInv, HttpInv, HttpServerIn
<1>5. /\ Joined(b, wire["client"], opening, Sent("client")) /\ Len(b) >= 1
      /\ opening \in Bytes
  <2>1. In("server") = b \o wire["client"]
    BY EndsAre DEF In
  <2> HIDE DEF b
  <2>2. Len(b) \in Nat
    BY <1>4 DEF Bytes
  <2>3. Len(b) >= 1
    BY <1>4, <2>2 DEF Whole, HeaderLen
  <2>4. opening \in Bytes
    BY <1>4, OpeningIs
  <2> QED BY <1>4, <2>1, <2>3, <2>4 DEF Joined
<1> HIDE DEF b
<1>6. CASE target.high
  <2>1. /\ pc' = [pc EXCEPT !["server"] = "closed"] /\ fin' = [fin EXCEPT !["server"] = TRUE]
        /\ buf' = buf /\ held' = held /\ glued' = glued /\ parsed' = parsed /\ returned' = returned
    BY <1>6 DEF HttpReturn, GetUrlInfoFails, Closes, Goes
  <2>2. /\ pc'["server"] = "closed" /\ pc'["client"] = pc["client"] /\ fin'["client"] = fin["client"]
        /\ pc' \in [Ends -> Stages] /\ fin' \in [Ends -> BOOLEAN]
    BY <1>0, <2>1, EndsAre DEF Typed, Stages
  <2>3. Typed'
    BY <1>0, <1>1, <1>2, <2>1, <2>2 DEF Typed
  <2>4. Placed' /\ Ordered' /\ Unopened'
    BY <1>0, <1>1, <1>2, <2>1, <2>2, EndsAre DEF ShakeInv, Placed, Ordered, Unopened
  <2>5. SocksInv' /\ HttpServerIn'
    BY <1>0, <1>2, <2>2 DEF SocksInv, HttpServerIn
  <2>6. HttpClientIn'
    BY <1>0, <1>2, <1>3, <1>6, <2>1, <2>2, EndsAre DEF ShakeInv, HttpInv, HttpClientIn
  <2>7. Streams'
    BY <1>1, <2>1, <2>2, StreamRest, StreamsAre, EndsAre DEF ShakeInv
  <2>8. HandshakeAgrees' /\ ServedUnlessCut'
    BY <1>0, <1>2, <1>6, <2>2 DEF HandshakeAgrees, ServedUnlessCut, WellFormed
  <2> QED BY <2>3, <2>4, <2>5, <2>6, <2>7, <2>8 DEF ShakeInv, HttpInv
<1>7. CASE ~target.high
  <2>1. /\ pc' = [pc EXCEPT !["server"] = "open"] /\ fin' = fin /\ returned' = TRUE
        /\ buf' = [buf EXCEPT !["server"] = <<>>]
        /\ held' = [held EXCEPT !["server"] = Kept(b)]
        /\ glued' = [glued EXCEPT !["server"] = Len(b) > HeaderLen + BodyLen(b)]
    BY <1>7 DEF HttpReturn, GetUrlInfoFails, Opens, Goes, b
  <2>2. /\ Kept(b) \in Bytes /\ Kept(b) \o wire["client"] = Due("server")
    <3>1. /\ b[1] = opening[1] /\ BodyLen(b) = BodyLen(opening)
          /\ opening \in Bytes /\ Len(opening) = HeaderLen + BodyLen(opening)
          /\ opening[1] = CONNECT <=> opening = Header(CONNECT)
          /\ Len(opening) <= Len(b)
      BY <1>4, <1>5, WholeRead
    <3>2. /\ Due("server") = Ahead("server") \o Sent("client")
          /\ opening # GetRequest => Due("server") = Sent("client")
      BY <1>0, DueIs, EndsAre
    <3>3. CASE opening = Header(CONNECT)
      <4>1. b[1] = CONNECT /\ Len(opening) = HeaderLen /\ opening # GetRequest
        BY <3>1, <3>3, OpeningIs DEF HeaderLen
      <4>2. /\ Drop(b, Len(opening)) \in Bytes
            /\ Drop(b, Len(opening)) \o wire["client"] = Sent("client")
        <5>1. /\ b \in Bytes /\ wire["client"] \in Bytes /\ opening \in Bytes
              /\ Sent("client") \in Bytes /\ Len(opening) <= Len(b)
          BY <1>4, <3>1
        <5>2. Joined(b, wire["client"], opening, Sent("client"))
          BY <1>5
        <5> QED BY <5>1, <5>2, Rest
      <4> QED BY <4>1, <4>2, <3>2 DEF Kept
    <3>4. CASE opening = GetRequest
      <4>1. b[1] # CONNECT /\ Ahead("server") = <<Rewritten>> \o Tail(opening) /\ Len(opening) >= 1
        BY <3>1, <3>4, OpeningIs DEF Ahead
      <4>2. /\ <<Rewritten>> \o Tail(b) \in Bytes
            /\ (<<Rewritten>> \o Tail(b)) \o wire["client"]
                   = (<<Rewritten>> \o Tail(opening)) \o Sent("client")
        <5>1. /\ b \in Bytes /\ wire["client"] \in Bytes /\ opening \in Bytes
              /\ Sent("client") \in Bytes /\ Len(opening) >= 1 /\ Len(b) >= 1
          BY <1>4, <1>5, <4>1
        <5>2. Joined(b, wire["client"], opening, Sent("client"))
          BY <1>5
        <5>3. /\ Rewrite(b) \in Bytes
              /\ Joined(Rewrite(b), wire["client"], Rewrite(opening), Sent("client"))
          BY <5>1, <5>2, RewrittenIs
        <5> QED BY <5>3 DEF Rewrite, Joined
      <4> QED BY <4>1, <4>2, <3>2 DEF Kept
    <3> QED BY <1>4, <3>3, <3>4
  <2>3. /\ pc'["server"] = "open" /\ pc'["client"] = pc["client"] /\ buf'["client"] = buf["client"]
        /\ held'["server"] = Kept(b) /\ held'["client"] = held["client"]
        /\ glued'["client"] = glued["client"]
    BY <1>0, <2>1, EndsAre DEF Typed
  <2>4. Typed'
    <3>1. pc' \in [Ends -> Stages]
      BY <1>0, <2>1, EndsAre DEF Typed, Stages
    <3>2. buf' \in [Ends -> Bytes] /\ held' \in [Ends -> Bytes] /\ glued' \in [Ends -> BOOLEAN]
      <4>1. (Len(b) > HeaderLen + BodyLen(b)) \in BOOLEAN
        OBVIOUS
      <4> QED BY <1>0, <2>1, <2>2, <4>1, EndsAre, EmptyIs DEF Typed
    <3> QED BY <1>0, <1>1, <1>2, <2>1, <3>1, <3>2 DEF Typed
  <2>5. Placed' /\ Ordered' /\ Unopened'
    BY <1>0, <1>1, <1>2, <2>1, <2>3, EndsAre DEF ShakeInv, Placed, Ordered, Unopened
  <2>6. SocksInv' /\ HttpServerIn'
    BY <1>0, <1>2, <2>3 DEF SocksInv, HttpServerIn
  <2>7. HttpClientIn'
    BY <1>0, <1>2, <1>3, <2>1, <2>3, EndsAre DEF ShakeInv, HttpInv, HttpClientIn
  <2>8. Streams'
    <3>1. Carried("client")'
      BY <1>0, <1>1, <2>3, StreamRest, StreamsAre, EndsAre DEF ShakeInv
    <3>2. Due("server")' = Due("server")
      BY <1>1, DueKept, EndsAre
    <3>3. Carried("server")'
      BY <1>0, <1>1, <1>4, <2>2, <2>3, <3>2, StreamOpens, EndsAre
    <3> QED BY <3>1, <3>3, StreamsAre
  <2>9. HandshakeAgrees' /\ ServedUnlessCut'
    BY <1>0, <1>2, <2>1, <2>3 DEF HandshakeAgrees, ServedUnlessCut
  <2> QED BY <2>4, <2>5, <2>6, <2>7, <2>8, <2>9 DEF ShakeInv, HttpInv
<1> QED BY <1>6, <1>7

(* A client reads the answer of an http proxy.                             *)
LEMMA ClientHttpStep ==
    ASSUME ShakeInv, HttpClientRead
    PROVE  ShakeInv'
<1>0. /\ pc["client"] = "response" /\ proto = "http" /\ Typed /\ opening = Header(CONNECT)
      /\ ~fin["client"] /\ got["client"] = <<>>
  <2>1. pc["client"] = "response"
    BY DEF HttpClientRead
  <2>2. Typed /\ proto \in {"socks", "http"}
    BY DEF ShakeInv, Typed
  <2> QED BY <2>1, <2>2, EndsAre DEF ShakeInv, Placed, Ordered, Unopened, HttpInv, HttpClientIn
<1>1. PICK k \in 1 .. Len(wire["server"]) :
           LET read == buf["client"] \o SubSeq(wire["server"], 1, k)
               loc  == {i \in DOMAIN read : read[i] = HTTP_END}
           IN  /\ Exchange("client", k, <<>>)
               /\ IF loc = {}
                  THEN /\ buf' = [buf EXCEPT !["client"] = read]
                       /\ UNCHANGED <<pc, held, glued>>
                  ELSE \E n \in loc : Opens("client", Behind(read, n), n < Len(read))
  BY DEF HttpClientRead
<1> DEFINE read == buf["client"] \o SubSeq(wire["server"], 1, k)
<1>2. /\ UNCHANGED <<config, userVars>> /\ got' = got /\ fin' = fin
      /\ sent' = sent /\ first' = first /\ vetoed' = vetoed /\ returned' = returned /\ parsed' = parsed
  BY DEF HttpClientRead, userVars
<1>3. /\ proto' = proto /\ kind' = kind /\ opening' = opening /\ target' = target
      /\ Request' = Request /\ WellFormed' = WellFormed
  BY <1>2, ConfigKept
<1>4. /\ wire' \in [Ends -> Bytes] /\ wire'["server"] \in Bytes /\ wire'["client"] = wire["client"]
      /\ read \in Bytes /\ Len(read) >= 1 /\ read \o wire'["server"] = In("client")
      /\ In("client") # <<>>
  <2> HIDE DEF read
  <2>1. /\ Exchange("client", k, <<>>) /\ k \in 1 .. Len(wire[Peer("client")])
        /\ "client" \in Ends /\ <<>> \in Bytes
    BY <1>1, EndsAre, EmptyIs
  <2>2. /\ wire' \in [Ends -> Bytes] /\ wire'[Peer("client")] \in Bytes
        /\ wire'["client"] = wire["client"] \o <<>>
        /\ buf["client"] \o SubSeq(wire[Peer("client")], 1, k) \in Bytes
        /\ Len(buf["client"] \o SubSeq(wire[Peer("client")], 1, k)) >= 1
        /\ (buf["client"] \o SubSeq(wire[Peer("client")], 1, k)) \o wire'[Peer("client")] = In("client")
        /\ In("client") # <<>>
    BY <2>1, <1>0, Exchanged
  <2>3. wire["client"] \o <<>> = wire["client"]
    BY <1>0, EndIn, EndsAre, EmptyIs
  <2> QED BY <2>2, <2>3, EndsAre DEF read
<1>5. \/ buf' = [buf EXCEPT !["client"] = read] /\ pc' = pc /\ held' = held /\ glued' = glued
      \/ \E n \in DOMAIN read : /\ read[n] = HTTP_END
                                /\ pc' = [pc EXCEPT !["client"] = "open"]
                                /\ held' = [held EXCEPT !["client"] = Behind(read, n)]
                                /\ glued' = [glued EXCEPT !["client"] = n < Len(read)]
                                /\ buf' = [buf EXCEPT !["client"] = <<>>]
  BY <1>1 DEF Opens, Goes
<1> HIDE DEF read
<1>6. /\ pc["server"] \notin {"start", "header"}
      /\ In("client") = PROXY_RSP_SUCC \o Sent("server")
      /\ pc["server"] = "host" \/ returned \/ target.high
  BY <1>0, <1>4 DEF ShakeInv, HttpInv, HttpClientIn
<1>7. /\ buf'["server"] = buf["server"] => In("server")' = In("server")
      /\ \A e \in Ends : Sent(e)' = Sent(e)
  BY <1>2, <1>4, InKept, DueKept, EndsAre
<1>8. CASE buf' = [buf EXCEPT !["client"] = read] /\ pc' = pc /\ held' = held /\ glued' = glued
  <2>1. buf'["client"] = read /\ buf'["server"] = buf["server"] /\ buf' \in [Ends -> Bytes]
    BY <1>0, <1>4, <1>8, EndsAre DEF Typed
  <2>2. In("client")' = In("client")
    <3>1. In("client")' = read \o wire'["server"]
      BY <2>1, EndsAre DEF In
    <3> QED BY <3>1, <1>4
  <2>3. Typed'
    BY <1>0, <1>2, <1>3, <1>4, <1>8, <2>1 DEF Typed
  <2>4. Placed' /\ Ordered' /\ Unopened'
    BY <1>0, <1>2, <1>3, <1>6, <1>8, <2>1, EndsAre DEF ShakeInv, Placed, Ordered, Unopened
  <2>5. SocksInv' /\ HttpServerIn' /\ HttpClientIn'
    BY <1>0, <1>2, <1>3, <1>6, <1>7, <1>8, <2>1, <2>2, EndsAre
       DEF ShakeInv, SocksInv, HttpInv, HttpServerIn, HttpClientIn
  <2>6. Streams'
    BY <1>0, <1>2, <1>4, <1>8, StreamRest, StreamsAre, EndsAre DEF ShakeInv
  <2>7. HandshakeAgrees' /\ ServedUnlessCut'
    BY <1>0, <1>2, <1>3, <1>8 DEF ShakeInv, HandshakeAgrees, ServedUnlessCut
  <2> QED BY <2>3, <2>4, <2>5, <2>6, <2>7 DEF ShakeInv, HttpInv
<1>9. ASSUME NEW n \in DOMAIN read, read[n] = HTTP_END,
             pc' = [pc EXCEPT !["client"] = "open"],
             held' = [held EXCEPT !["client"] = Behind(read, n)],
             glued' = [glued EXCEPT !["client"] = n < Len(read)],
             buf' = [buf EXCEPT !["client"] = <<>>]
      PROVE  ShakeInv'
  <2>1. sent["server"] \in Nat /\ Sent("server") \in Bytes
    BY <1>0, EndIn, EndsAre
  <2>2. Joined(read, wire'["server"], PROXY_RSP_SUCC, Sent("server"))
    BY <1>4, <1>6 DEF Joined
  <2>3. n = 2 /\ 2 <= Len(read)
    BY <1>4, <1>9, <2>1, <2>2, EndIs DEF Sent
  <2>4. PROXY_RSP_SUCC \in Bytes /\ Len(PROXY_RSP_SUCC) = 2
    BY DEF PROXY_RSP_SUCC, HTTP_END, Bytes
  <2>5. /\ Drop(read, 2) \in Bytes /\ Drop(read, 2) \o wire'["server"] = Sent("server")
        /\ Len(read) = 2 => wire'["server"] = Sent("server")
    <3>1. /\ read \in Bytes /\ wire'["server"] \in Bytes /\ PROXY_RSP_SUCC \in Bytes
          /\ Sent("server") \in Bytes /\ Len(PROXY_RSP_SUCC) <= Len(read)
      BY <1>4, <2>1, <2>3, <2>4
    <3>2. /\ Drop(read, Len(PROXY_RSP_SUCC)) \in Bytes
          /\ Drop(read, Len(PROXY_RSP_SUCC)) \o wire'["server"] = Sent("server")
          /\ Len(read) = Len(PROXY_RSP_SUCC) => wire'["server"] = Sent("server")
      BY <2>2, <3>1, Rest
    <3> QED BY <3>2, <2>4
  <2>6. /\ Behind(read, 2) \in Bytes
        /\ \/ kind = "connector" /\ 2 < Len(read)
           \/ Behind(read, 2) \o wire'["server"] = Sent("server")
    <3>1. CASE Len(read) = 2
      <4>1. Behind(read, 2) = <<>>
        BY <3>1 DEF Behind
      <4> QED BY <4>1, <3>1, <2>5, <1>4, EmptyIs
    <3>2. CASE Len(read) # 2
      <4> DEFINE z == IF kind = "connector" THEN Zeros(BufSize - Len(read)) ELSE <<>>
      <4>1. Behind(read, 2) = Drop(read, 2) \o z
        BY <3>2 DEF Behind
      <4>2. z \in Bytes
        <5>1. BufSize - Len(read) \in Int
          BY <1>4, DataAssumption DEF Bytes
        <5>2. Zeros(BufSize - Len(read)) \in Bytes
          BY <5>1, ZerosIs
        <5> QED BY <5>2, EmptyIs
      <4>3. kind # "connector" => Behind(read, 2) = Drop(read, 2)
        BY <4>1, <2>5, EmptyIs
      <4>4. 2 < Len(read)
        <5>1. Len(read) \in Nat
          BY <1>4 DEF Bytes
        <5>2. \A m \in Nat : m # 2 /\ 2 <= m => 2 < m
          OBVIOUS
        <5> QED BY <5>1, <5>2, <3>2, <2>3
      <4> HIDE DEF z
      <4>5. Behind(read, 2) \in Bytes
        BY <4>1, <4>2, <2>5, CatIs
      <4> QED BY <4>3, <4>4, <4>5, <2>5
    <3> QED BY <3>1, <3>2
  <2>7. /\ pc'["client"] = "open" /\ pc'["server"] = pc["server"] /\ buf'["server"] = buf["server"]
        /\ held'["client"] = Behind(read, 2) /\ held'["server"] = held["server"]
        /\ glued'["client"] = (2 < Len(read)) /\ glued'["server"] = glued["server"]
    BY <1>0, <1>9, <2>3, EndsAre DEF Typed
  <2>8. Typed'
    <3>1. pc' \in [Ends -> Stages]
      BY <1>0, <1>9, EndsAre DEF Typed, Stages
    <3>2. buf' \in [Ends -> Bytes] /\ held' \in [Ends -> Bytes] /\ glued' \in [Ends -> BOOLEAN]
      <4>1. (2 < Len(read)) \in BOOLEAN
        OBVIOUS
      <4> QED BY <1>0, <1>9, <2>3, <2>6, <4>1, EndsAre, EmptyIs DEF Typed
    <3> QED BY <1>0, <1>2, <1>3, <1>4, <3>1, <3>2 DEF Typed
  <2>9. Placed' /\ Ordered' /\ Unopened'
    BY <1>0, <1>2, <1>3, <1>6, <2>7, EndsAre DEF ShakeInv, Placed, Ordered, Unopened
  <2>10. SocksInv' /\ HttpServerIn' /\ HttpClientIn'
    BY <1>0, <1>2, <1>3, <1>6, <1>7, <2>7, EndsAre
       DEF ShakeInv, SocksInv, HttpInv, HttpServerIn, HttpClientIn
  <2>11. Streams'
    <3>1. Carried("server")'
      BY <1>0, <1>2, <1>4, <2>7, StreamRest, StreamsAre, EndsAre DEF ShakeInv
    <3>2. Due("client")' = Sent("server")
      BY <1>0, <1>2, DueKept, DueIs, EndsAre
    <3>3. Spoilt("client")' \/ held'["client"] \o wire'["server"] = Due("client")'
      BY <1>0, <1>3, <2>6, <2>7, <3>2 DEF Spoilt
    <3>4. held'["client"] \in Bytes /\ got'["client"] = <<>>
      BY <1>0, <1>2, <2>6, <2>7
    <3>5. Carried("client")'
      BY <1>4, <3>3, <3>4, StreamOpens, EndsAre
    <3> QED BY <3>1, <3>5, StreamsAre
  <2>12. HandshakeAgrees' /\ ServedUnlessCut'
    BY <1>0, <1>2, <1>3, <1>6, <2>7 DEF HandshakeAgrees, ServedUnlessCut, WellFormed
  <2> QED BY <2>8, <2>9, <2>10, <2>11, <2>12 DEF ShakeInv, HttpInv
<1> QED BY <1>5, <1>8, <1>9

LEMMA StateIs ==
    ASSUME NEW b \in Bytes
    PROVE  /\ RequestState(b) \in {"request", "closed", "hook"}
           /\ RequestState(b) = "hook" => Len(b) >= 7 /\ Total(b) # 0 /\ ~(Len(b) < Total(b))
           /\ RequestState(b) = "closed" => Len(b) >= 7 /\ Total(b) = 0
<1>1. Len(b) \in Nat
  BY DEF Bytes
<1>2. CASE Len(b) < 7
  <2>1. RequestState(b) = "request"
    BY <1>2 DEF RequestState
  <2> QED BY <2>1
<1>3. CASE ~(Len(b) < 7)
  <2>1. Len(b) >= 7
    BY <1>1, <1>3
  <2>2. RequestState(b) = IF Total(b) = 0 THEN "closed"
                          ELSE IF Len(b) < Total(b) THEN "request" ELSE "hook"
    BY <1>3 DEF RequestState
  <2> HIDE DEF Total
  <2> QED BY <2>1, <2>2
<1> QED BY <1>2, <1>3

(* Bytes that were read are not nothing.                                   *)
LEMMA NotEmpty ==
    ASSUME NEW b \in Bytes, NEW w \in Bytes, Len(b) >= 1
    PROVE  b \o w # <<>>
<1>1. Len(b \o w) = Len(b) + Len(w) /\ Len(w) \in Nat /\ Len(b) \in Nat
  BY CatIs
<1>2. Len(b \o w) >= 1
  BY <1>1
<1> QED BY <1>2, EmptyIs

(* The acceptor of a socks proxy asks the hook and answers.                *)
LEMMA AnswerSocksStep ==
    ASSUME ShakeInv, SocksAnswer
    PROVE  ShakeInv'
<1> DEFINE b == buf["server"]
<1>0. /\ pc["server"] = "hook" /\ proto = "socks" /\ Typed
      /\ ~returned /\ ~vetoed /\ sent["server"] = 0 /\ got["server"] = <<>>
      /\ pc["client"] # "start" /\ pc["client"] # "open"
      /\ fin["client"] => pc["client"] = "closed"
      /\ opening # GetRequest
  <2>1. pc["server"] = "hook"
    BY DEF SocksAnswer
  <2>2. Typed /\ proto \in {"socks", "http"}
    BY DEF ShakeInv, Typed
  <2>3. proto = "socks" /\ ~returned
    BY <2>1, <2>2 DEF ShakeInv, Placed, Ordered
  <2>4. pc["client"] # "open" /\ opening # GetRequest
    BY <2>2, <2>3, OpenClient, SocksOpening
  <2> QED BY <2>1, <2>2, <2>3, <2>4, EndsAre DEF ShakeInv, Ordered, Unopened
<1>1. /\ UNCHANGED <<config, userVars>> /\ got' = got /\ sent' = sent /\ first' = first
  BY DEF SocksAnswer, userVars
<1>2. /\ proto' = proto /\ kind' = kind /\ opening' = opening /\ target' = target
      /\ Request' = Request /\ WellFormed' = WellFormed
  BY <1>1, ConfigKept
<1>3. \A e \in Ends : Sent(e)' = Sent(e)
  BY <1>1, DueKept
<1>4. /\ b \in Bytes /\ wire["client"] \in Bytes /\ wire["server"] \in Bytes
      /\ Sent("client") \in Bytes /\ Sent("server") \in Bytes /\ Request \in Bytes
      /\ In("client") \in Bytes /\ target \in Targets
  BY <1>0, EndIn, EndsAre DEF Typed
<1>5. /\ Len(b) >= 7 /\ Total(b) # 0 /\ ~(Len(b) < Total(b)) /\ Len(b) \in Nat
  <2>1. RequestState(b) = "hook"
    BY <1>0 DEF ShakeInv, SocksInv, SocksServerIn
  <2>2. Len(b) \in Nat
    BY <1>4 DEF Bytes
  <2> HIDE DEF b
  <2> QED BY <1>4, <2>1, <2>2, StateIs
<1>6. In("server") = b \o wire["client"]
  BY EndsAre DEF In
<1> HIDE DEF b
<1>7. In("server") = Request \o Sent("client") /\ ~Waits
  <2>1. Len(b) >= 1
    BY <1>5
  <2>2. In("server") # <<>>
    BY <2>1, <1>4, <1>6, NotEmpty
  <2> QED BY <2>2, <1>0 DEF ShakeInv, SocksInv, SocksServerIn
<1>8. Joined(b, wire["client"], Request, Sent("client"))
  BY <1>6, <1>7 DEF Joined
<1>9. Supported(target) /\ Total(b) = Len(Request) /\ Len(Request) <= Len(b) /\ Len(Request) >= 6
  <2>1. Total(b) = IF Supported(target) THEN Len(BuildSocks5Req(target)) ELSE 0
    BY <1>4, <1>5, <1>8, RequestRead DEF Request
  <2>2. Len(Request) \in Nat /\ Len(Request) >= 6
    BY <1>4, RequestLen DEF Request
  <2>3. Supported(target) /\ Total(b) = Len(Request)
    BY <2>1, <1>5 DEF Request
  <2>4. Len(Request) <= Len(b)
    BY <2>2, <2>3, <1>5
  <2> QED BY <2>2, <2>3, <2>4
<1>10. PICK ck \in BOOLEAN :
               /\ Put("server", SubSeq([b EXCEPT ![2] = Code(ck)], 1, Total(b)))
               /\ parsed' = ParsedFrom(b)
               /\ vetoed' = ~ck /\ returned' = ck
               /\ IF ck THEN /\ Opens("server", Spare(b), Total(b) < Len(b))
                             /\ UNCHANGED fin
                        ELSE Closes("server") /\ UNCHANGED <<held, glued, buf>>
  BY DEF SocksAnswer, b
<1> DEFINE c == Code(ck)
           answer == [Request EXCEPT ![2] = c]
<1>11. \A i \in 1 .. Len(Request) : b[i] = Request[i]
  <2> TAKE i \in 1 .. Len(Request)
  <2>1. i \in 1 .. Len(b) /\ i <= Len(Request)
    <3>1. Len(Request) \in Nat
      BY <1>4, RequestLen DEF Request
    <3> QED BY <3>1, <1>5, <1>9
  <2>2. b \in Bytes /\ wire["client"] \in Bytes /\ Request \in Bytes /\ Sent("client") \in Bytes
    BY <1>4
  <2> QED BY <2>1, <2>2, <1>8, Agree
<1>12. /\ SubSeq([b EXCEPT ![2] = c], 1, Total(b)) = answer /\ answer \in Bytes
  <2>1. c \in Int
    BY DEF Code
  <2>2. 2 <= Len(Request) /\ Len(Request) <= Len(b)
    BY <1>9
  <2> HIDE DEF c
  <2>3. /\ SubSeq([b EXCEPT ![2] = c], 1, Len(Request)) = [Request EXCEPT ![2] = c]
        /\ [Request EXCEPT ![2] = c] \in Bytes
    BY <1>4, <1>11, <2>1, <2>2, AnswerIs
  <2> QED BY <2>3, <1>9
<1>13. wire' = [wire EXCEPT !["server"] = @ \o answer] /\ Answered' = answer
  <2>1. wire' = [wire EXCEPT !["server"] = @ \o answer]
    BY <1>10, <1>12 DEF Put
  <2>2. Answered' = answer
    BY <1>2, <1>10 DEF Answered, Code
  <2> QED BY <2>1, <2>2
<1> HIDE DEF c, answer
<1>14. /\ wire' \in [Ends -> Bytes] /\ wire'["client"] = wire["client"]
       /\ wire'["server"] = wire["server"] \o answer
  <2>1. wire["server"] \o answer \in Bytes
    BY <1>4, <1>12, CatIs
  <2> QED BY <2>1, <1>0, <1>13, EndsAre DEF Typed
<1>15. buf'["client"] = buf["client"] => In("client")' = In("client") \o answer
  <2>1. buf["client"] \in Bytes
    BY <1>0, EndIn, EndsAre
  <2>2. (buf["client"] \o wire["server"]) \o answer = buf["client"] \o (wire["server"] \o answer)
    <3>1. buf["client"] \in Bytes /\ wire["server"] \in Bytes /\ answer \in Bytes
      BY <2>1, <1>4, <1>12
    <3> QED BY <3>1, Assoc
  <2> QED BY <2>2, <1>14, EndsAre DEF In
<1>16. buf'["client"] = buf["client"] /\ pc'["client"] = pc["client"]
           /\ pc'["server"] \in {"open", "closed"} => SocksClientIn'
  <2> SUFFICES ASSUME buf'["client"] = buf["client"], pc'["client"] = pc["client"],
                      pc'["server"] \in {"open", "closed"}
               PROVE  SocksClientIn'
    OBVIOUS
  <2>1. Supported(target)' /\ ~Waits'
    BY <1>2, <1>7, <1>9 DEF Supported, Waits
  <2>2. Answered = <<>> /\ Sent("server") = <<>>
    BY <1>0, DataIs DEF Answered, Sent
  <2>3. Answered \o Sent("server") = <<>> /\ answer \o Sent("server") = answer
    BY <2>2, <1>12, EmptyIs
  <2>4. In("client")' = In("client") \o answer
    BY <1>15
  <2>5. SocksClientIn
    BY <1>0 DEF ShakeInv, SocksInv
  <2>6. CASE pc["client"] = "answer"
    <3>1. In("client") = <<>>
      BY <2>3, <2>5, <2>6 DEF SocksClientIn
    <3>2. In("client")' = Answered' \o Sent("server")'
      BY <3>1, <2>3, <2>4, <1>3, <1>12, <1>13, EmptyIs, EndsAre
    <3> QED BY <3>2, <2>1, <2>6 DEF SocksClientIn
  <2>7. CASE pc["client"] = "method"
    <3>1. In("client") = <<Version, 0>> \o <<>>
      BY <2>3, <2>5, <2>7, <1>0 DEF SocksClientIn
    <3>2. <<Version, 0>> \in Bytes
      BY DEF Version, Bytes
    <3>3. In("client") = <<Version, 0>>
      BY <3>1, <3>2, EmptyIs
    <3>4. In("client")' = <<Version, 0>> \o (Answered' \o Sent("server")')
      BY <3>3, <2>3, <2>4, <1>3, <1>13, EndsAre
    <3> QED BY <3>4, <2>1, <2>7 DEF SocksClientIn
  <2>8. CASE pc["client"] \notin {"method", "answer"}
    BY <2>1, <2>8 DEF SocksClientIn
  <2> QED BY <2>6, <2>7, <2>8
<1>17. HttpInv'
  BY <1>0, <1>2 DEF HttpInv
<1>18. CASE ck
  <2>1. /\ pc' = [pc EXCEPT !["server"] = "open"] /\ fin' = fin /\ returned' = TRUE /\ vetoed' = FALSE
        /\ buf' = [buf EXCEPT !["server"] = <<>>]
        /\ held' = [held EXCEPT !["server"] = Spare(b)]
        /\ glued' = [glued EXCEPT !["server"] = Total(b) < Len(b)]
    BY <1>10, <1>18 DEF Opens, Goes
  <2>2. Spare(b) \in Bytes
    <3>1. BufSize - Len(b) \in Int
      BY <1>5, DataAssumption
    <3> QED BY <3>1, ZerosIs, EmptyIs DEF Spare
  <2>3. (Total(b) < Len(b)) \in BOOLEAN
    OBVIOUS
  <2>4. /\ pc'["server"] = "open" /\ pc'["client"] = pc["client"] /\ buf'["client"] = buf["client"]
        /\ held'["server"] = Spare(b) /\ held'["client"] = held["client"]
        /\ glued'["client"] = glued["client"] /\ glued'["server"] = (Total(b) < Len(b))
    BY <1>0, <2>1, EndsAre DEF Typed
  <2>5. Typed'
    <3>1. pc' \in [Ends -> Stages]
      BY <1>0, <2>1, EndsAre DEF Typed, Stages
    <3>2. buf' \in [Ends -> Bytes] /\ held' \in [Ends -> Bytes] /\ glued' \in [Ends -> BOOLEAN]
      BY <1>0, <2>1, <2>2, <2>3, EndsAre, EmptyIs DEF Typed
    <3> QED BY <1>0, <1>1, <1>2, <1>14, <2>1, <3>1, <3>2 DEF Typed
  <2>6. Placed' /\ Ordered' /\ Unopened'
    BY <1>0, <1>1, <1>2, <2>1, <2>4, EndsAre DEF ShakeInv, Placed, Ordered, Unopened
  <2>7. SocksServerIn'
    BY <2>4 DEF SocksServerIn
  <2>8. SocksClientIn'
    BY <2>4, <1>16
  <2>9. Streams'
    <3>1. Carried("client")'
      BY <1>0, <1>1, <2>4, StreamRest, StreamsAre, EndsAre DEF ShakeInv
    <3>2. Due("server")' = Sent("client")
      BY <1>0, <1>1, DueKept, DueIs, EndsAre
    <3>3. Spoilt("server")' \/ held'["server"] \o wire'["client"] = Due("server")'
      <4>1. CASE Total(b) < Len(b)
        BY <4>1, <1>0, <1>2, <2>4 DEF Spoilt
      <4>2. CASE ~(Total(b) < Len(b))
        <5>1. Len(Request) \in Nat /\ Len(b) = Len(Request) /\ Spare(b) = <<>>
          <6>1. Len(Request) \in Nat
            BY <1>4, RequestLen DEF Request
          <6> QED BY <6>1, <4>2, <1>5, <1>9 DEF Spare
        <5>2. wire["client"] = Sent("client")
          BY <5>1, <1>4, <1>8, <1>9, Rest
        <5>3. <<>> \o wire["client"] = wire["client"]
          BY <1>4, EmptyIs
        <5> QED BY <5>1, <5>2, <5>3, <3>2, <1>14, <2>4
      <4> QED BY <4>1, <4>2
    <3>4. held'["server"] \in Bytes /\ got'["server"] = <<>> /\ wire'["client"] \in Bytes
      BY <1>0, <1>1, <1>4, <1>14, <2>2, <2>4
    <3>5. Carried("server")'
      BY <3>3, <3>4, StreamOpens, EndsAre
    <3> QED BY <3>1, <3>5, StreamsAre
  <2>10. HandshakeAgrees' /\ ServedUnlessCut'
    <3>1. parsed' = [atyp |-> target.atyp, addr |-> Address(target), port |-> Port]
      BY <1>4, <1>9, <1>10, <1>11, ParsedIs DEF Request
    <3> QED BY <3>1, <1>0, <1>2, <2>1, <2>4 DEF HandshakeAgrees, ServedUnlessCut
  <2> QED BY <1>17, <2>5, <2>6, <2>7, <2>8, <2>9, <2>10 DEF ShakeInv, SocksInv
<1>19. CASE ~ck
  <2>1. /\ pc' = [pc EXCEPT !["server"] = "closed"] /\ fin' = [fin EXCEPT !["server"] = TRUE]
        /\ returned' = FALSE /\ vetoed' = TRUE /\ buf' = buf /\ held' = held /\ glued' = glued
    BY <1>10, <1>19 DEF Closes, Goes
  <2>2. /\ pc'["server"] = "closed" /\ pc'["client"] = pc["client"] /\ fin'["client"] = fin["client"]
        /\ pc' \in [Ends -> Stages] /\ fin' \in [Ends -> BOOLEAN]
    BY <1>0, <2>1, EndsAre DEF Typed, Stages
  <2>3. Typed'
    BY <1>0, <1>1, <1>2, <1>14, <2>1, <2>2 DEF Typed
  <2>4. Placed' /\ Ordered' /\ Unopened'
    BY <1>0, <1>1, <1>2, <2>1, <2>2, EndsAre DEF ShakeInv, Placed, Ordered, Unopened
  <2>5. SocksServerIn' /\ SocksClientIn'
    BY <1>16, <2>1, <2>2 DEF SocksServerIn
  <2>6. Streams'
    BY <1>0, <1>1, <2>1, <2>2, StreamRest, StreamsAre, EndsAre DEF ShakeInv
  <2>7. HandshakeAgrees' /\ ServedUnlessCut'
    BY <1>0, <2>1, <2>2 DEF HandshakeAgrees, ServedUnlessCut
  <2> QED BY <1>17, <2>3, <2>4, <2>5, <2>6, <2>7 DEF ShakeInv, SocksInv
<1> QED BY <1>18, <1>19

(* The acceptor of a socks proxy reads on in a request.                    *)
LEMMA RequestStep ==
    ASSUME ShakeInv, SocksRead, pc["server"] = "request"
    PROVE  ShakeInv'
<1>0. /\ pc["server"] = "request" /\ proto = "socks" /\ Typed
      /\ ~returned /\ ~vetoed /\ sent["server"] = 0
      /\ pc["client"] # "start" /\ pc["client"] # "open"
  <2>1. proto = "socks" /\ Typed
    BY DEF SocksRead, ShakeInv
  <2>2. ~returned
    BY DEF ShakeInv, Ordered
  <2>3. pc["client"] # "open"
    BY <2>1, <2>2, OpenClient
  <2> QED BY <2>1, <2>2, <2>3 DEF ShakeInv, Ordered
<1>1. PICK k \in 1 .. Len(wire["client"]) :
          LET read == buf["server"] \o SubSeq(wire["client"], 1, k)
          IN  /\ Exchange("server", k, <<>>)
              /\ first' = first
              /\ buf' = [buf EXCEPT !["server"] = read]
              /\ IF RequestState(read) = "closed"
                 THEN Closes("server")
                 ELSE Goes("server", RequestState(read)) /\ UNCHANGED fin
  BY DEF SocksRead
<1> DEFINE read == buf["server"] \o SubSeq(wire["client"], 1, k)
<1>2. /\ UNCHANGED <<config, userVars>>
      /\ held' = held /\ got' = got /\ glued' = glued
      /\ sent' = sent /\ vetoed' = vetoed /\ returned' = returned /\ parsed' = parsed
  BY DEF SocksRead, userVars
<1>3. /\ proto' = proto /\ kind' = kind /\ opening' = opening /\ target' = target
      /\ Request' = Request /\ WellFormed' = WellFormed /\ Answered' = Answered
  BY <1>2, ConfigKept, AnsweredKept
<1>4. /\ wire' \in [Ends -> Bytes] /\ wire'["client"] \in Bytes /\ wire'["server"] = wire["server"]
      /\ read \in Bytes /\ Len(read) >= 1 /\ read \o wire'["client"] = In("server")
      /\ In("server") # <<>>
  <2> HIDE DEF read
  <2>1. /\ Exchange("server", k, <<>>) /\ k \in 1 .. Len(wire[Peer("server")])
        /\ "server" \in Ends /\ <<>> \in Bytes
    BY <1>1, EndsAre, EmptyIs
  <2>2. /\ wire' \in [Ends -> Bytes] /\ wire'[Peer("server")] \in Bytes
        /\ wire'["server"] = wire["server"] \o <<>>
        /\ buf["server"] \o SubSeq(wire[Peer("server")], 1, k) \in Bytes
        /\ Len(buf["server"] \o SubSeq(wire[Peer("server")], 1, k)) >= 1
        /\ (buf["server"] \o SubSeq(wire[Peer("server")], 1, k)) \o wire'[Peer("server")] = In("server")
        /\ In("server") # <<>>
    BY <2>1, <1>0, Exchanged
  <2>3. wire["server"] \o <<>> = wire["server"]
    BY <1>0, EndIn, EndsAre, EmptyIs
  <2> QED BY <2>2, <2>3, EndsAre DEF read
<1>5. /\ buf' = [buf EXCEPT !["server"] = read] /\ first' = first
      /\ pc' = [pc EXCEPT !["server"] = RequestState(read)]
      /\ RequestState(read) # "closed" => fin' = fin
      /\ RequestState(read) = "closed" => fin' = [fin EXCEPT !["server"] = TRUE]
  BY <1>1 DEF Closes, Goes
<1> HIDE DEF read
<1>6. /\ RequestState(read) \in {"request", "closed", "hook"}
      /\ RequestState(read) = "closed" => Len(read) >= 7 /\ Total(read) = 0
  BY <1>4, StateIs
<1>7. /\ In("server") = Request \o Sent("client") /\ ~Waits
  BY <1>0, <1>4 DEF ShakeInv, SocksInv, SocksServerIn
<1>8. RequestState(read) = "closed" => ~Supported(target)
  <2> SUFFICES ASSUME RequestState(read) = "closed" PROVE ~Supported(target)
    OBVIOUS
  <2>1. Joined(read, wire'["client"], Request, Sent("client"))
    BY <1>4, <1>7 DEF Joined
  <2>2. Sent("client") \in Bytes /\ target \in Targets /\ read \in Bytes /\ wire'["client"] \in Bytes
    BY <1>0, <1>4, EndIn, EndsAre DEF Typed
  <2>3. Len(read) >= 7 /\ Total(read) = 0
    BY <1>6
  <2>4. Total(read) = IF Supported(target) THEN Len(BuildSocks5Req(target)) ELSE 0
    BY <2>1, <2>2, <2>3, RequestRead DEF Request
  <2>5. Len(BuildSocks5Req(target)) >= 6
    BY <2>2, RequestLen
  <2> QED BY <2>3, <2>4, <2>5
<1>9. /\ buf'["client"] = buf["client"] /\ buf'["server"] = read /\ buf' \in [Ends -> Bytes]
      /\ pc'["client"] = pc["client"] /\ pc'["server"] = RequestState(read) /\ pc' \in [Ends -> Stages]
      /\ fin'["client"] = fin["client"] /\ fin' \in [Ends -> BOOLEAN]
  BY <1>0, <1>4, <1>5, <1>6, EndsAre DEF Typed, Stages
<1>10. /\ In("server")' = In("server") /\ In("client")' = In("client")
       /\ Sent("client")' = Sent("client") /\ Sent("server")' = Sent("server")
  <2>1. In("server")' = read \o wire'["client"]
    BY <1>9, EndsAre DEF In
  <2> QED BY <2>1, <1>2, <1>4, <1>9, InKept, SentKept, EndsAre
<1>11. Typed' /\ Placed' /\ Ordered' /\ Unopened'
  <2>1. Typed'
    BY <1>0, <1>2, <1>3, <1>4, <1>5, <1>9 DEF Typed
  <2>2. Placed' /\ Ordered' /\ Unopened'
    BY <1>0, <1>2, <1>3, <1>4, <1>6, <1>9, EndsAre DEF ShakeInv, Placed, Ordered, Unopened
  <2> QED BY <2>1, <2>2
<1>12. SocksServerIn'
  BY <1>3, <1>6, <1>7, <1>9, <1>10 DEF SocksServerIn, Waits
<1>13. SocksClientIn'
  <2>1. SocksClientIn
    BY <1>0 DEF ShakeInv, SocksInv
  <2> QED BY <2>1, <1>0, <1>2, <1>3, <1>6, <1>9, <1>10 DEF SocksClientIn
<1>14. HttpInv'
  BY <1>0, <1>3 DEF HttpInv
<1>15. Streams'
  BY <1>0, <1>2, <1>6, <1>9, StreamRest, StreamsAre, EndsAre DEF ShakeInv
<1>16. HandshakeAgrees' /\ ServedUnlessCut'
  <2>1. WellFormed => Supported(target)
    BY DEF WellFormed, Supported
  <2> QED BY <2>1, <1>0, <1>3, <1>6, <1>8, <1>9 DEF HandshakeAgrees, ServedUnlessCut
<1> QED BY <1>11, <1>12, <1>13, <1>14, <1>15, <1>16 DEF ShakeInv, SocksInv

(* The first Read of the acceptor of a socks proxy                         *)
LEMMA GreetingStep ==
    ASSUME ShakeInv, SocksRead, pc["server"] = "greeting"
    PROVE  ShakeInv'
<1>0. /\ proto = "socks" /\ Typed /\ ~returned /\ ~vetoed /\ sent["server"] = 0
      /\ pc["client"] \in {"method", "closed"} /\ buf["server"] = <<>>
      /\ pc["client"] = "method" => In("client") = <<>>
      /\ opening \in Greetings
  <2>1. proto = "socks" /\ Typed
    BY DEF SocksRead, ShakeInv
  <2>2. ~returned /\ ~vetoed /\ sent["server"] = 0 /\ pc["client"] # "start"
    BY DEF ShakeInv, Ordered
  <2>3. pc["client"] \in {"start", "method", "closed"} /\ (pc["client"] = "method" => In("client") = <<>>)
    BY <2>1 DEF ShakeInv, SocksInv, SocksClientIn
  <2>4. buf["server"] = <<>>
    BY <2>1 DEF ShakeInv, SocksInv, SocksServerIn
  <2> QED BY <2>1, <2>2, <2>3, <2>4, SocksOpening
<1> DEFINE rest == IF kind = "browser" THEN <<>> ELSE Request \o Sent("client")
<1>1. /\ wire["client"] = opening \o rest /\ rest \in Bytes /\ opening \in Bytes
      /\ wire["client"] \in Bytes /\ Len(opening) \in {3, 4}
      /\ Request \in Bytes /\ Sent("client") \in Bytes /\ target \in Targets
  <2>1. wire["client"] = opening \o rest
    BY <1>0 DEF ShakeInv, SocksInv, SocksServerIn
  <2>2. /\ opening \in Bytes /\ wire["client"] \in Bytes /\ Request \in Bytes
        /\ Sent("client") \in Bytes /\ target \in Targets
    BY <1>0, EndIn, EndsAre DEF Typed
  <2>3. rest \in Bytes
    BY <2>2, CatIs, EmptyIs
  <2> QED BY <1>0, <2>1, <2>2, <2>3, GreetingIs
<1> HIDE DEF rest
<1>2. PICK k \in 1 .. Len(wire["client"]) :
           LET read    == buf["server"] \o SubSeq(wire["client"], 1, k)
               verdict == Judgement(read)
               answer  == IF verdict = "refused" THEN <<Version, 255>> ELSE <<Version, 0>>
               left    == IF verdict = "fine" THEN Drop(read, GreetingLen(read)) ELSE read
               next    == RequestState(left)
           IN  /\ Exchange("server", k, answer)
               /\ first' = k
               /\ buf' = [buf EXCEPT !["server"] = left]
               /\ CASE verdict = "panic" -> /\ Goes("server", "crashed")
                                            /\ fin' = [fin EXCEPT !["server"] = TRUE]
                    [] verdict = "refused" \/ (verdict = "fine" /\ next = "closed")
                                         -> Closes("server")
                    [] OTHER             -> Goes("server", next) /\ UNCHANGED fin
  BY DEF SocksRead
<1> DEFINE read    == buf["server"] \o SubSeq(wire["client"], 1, k)
           verdict == Judgement(read)
           answer  == IF verdict = "refused" THEN <<Version, 255>> ELSE <<Version, 0>>
           left    == IF verdict = "fine" THEN Drop(read, GreetingLen(read)) ELSE read
           next    == RequestState(left)
           to      == IF verdict = "panic" THEN "crashed"
                      ELSE IF verdict = "refused" THEN "closed" ELSE next
<1>3. /\ UNCHANGED <<config, userVars>>
      /\ held' = held /\ got' = got /\ glued' = glued
      /\ sent' = sent /\ vetoed' = vetoed /\ returned' = returned /\ parsed' = parsed
  BY DEF SocksRead, userVars
<1>4. /\ proto' = proto /\ kind' = kind /\ opening' = opening /\ target' = target
      /\ Request' = Request /\ WellFormed' = WellFormed /\ Answered' = Answered
  BY <1>3, ConfigKept, AnsweredKept
<1>5. answer \in Bytes
  <2>1. <<Version, 255>> \in Bytes /\ <<Version, 0>> \in Bytes
    BY DEF Version, Bytes
  <2> HIDE DEF verdict
  <2> QED BY <2>1
<1>6. /\ wire' \in [Ends -> Bytes] /\ wire'["client"] \in Bytes
      /\ wire'["server"] = wire["server"] \o answer
      /\ read \in Bytes /\ Len(read) >= 1 /\ Len(read) = k /\ Joined(read, wire'["client"], opening, rest)
      /\ buf'["client"] = buf["client"] => In("client")' = In("client") \o answer
  <2> HIDE DEF read, answer
  <2>1. Exchange("server", k, answer) /\ k \in 1 .. Len(wire[Peer("server")]) /\ "server" \in Ends
    BY <1>2, EndsAre DEF read, answer, verdict
  <2>2. /\ wire' \in [Ends -> Bytes] /\ wire'[Peer("server")] \in Bytes
        /\ wire'["server"] = wire["server"] \o answer
        /\ buf["server"] \o SubSeq(wire[Peer("server")], 1, k) \in Bytes
        /\ Len(buf["server"] \o SubSeq(wire[Peer("server")], 1, k)) >= 1
        /\ Len(buf["server"] \o SubSeq(wire[Peer("server")], 1, k)) = Len(buf["server"]) + k
        /\ (buf["server"] \o SubSeq(wire[Peer("server")], 1, k)) \o wire'[Peer("server")] = In("server")
        /\ buf'[Peer("server")] = buf[Peer("server")]
               => In(Peer("server"))' = In(Peer("server")) \o answer
    BY <2>1, <1>0, <1>5, Exchanged
  <2>3. In("server") = opening \o rest
    <3>1. In("server") = <<>> \o wire["client"]
      BY <1>0, EndsAre DEF In
    <3> QED BY <3>1, <1>1, EmptyIs
  <2>4. Joined(read, wire'["client"], opening, rest)
    BY <2>2, <2>3, EndsAre DEF read, Joined
  <2>5. Len(read) = k
    BY <2>2, <1>0, EndsAre, EmptyIs DEF read
  <2> QED BY <2>2, <2>4, <2>5, EndsAre DEF read
<1>7. verdict \in {"fine", "refused", "panic"}
  BY DEF Judgement
<1>8. /\ buf' = [buf EXCEPT !["server"] = left] /\ first' = k
      /\ pc' = [pc EXCEPT !["server"] = to]
      /\ fin' = fin \/ fin' = [fin EXCEPT !["server"] = TRUE]
  <2>1. /\ buf' = [buf EXCEPT !["server"] = left] /\ first' = k
        /\ CASE verdict = "panic" -> /\ Goes("server", "crashed")
                                     /\ fin' = [fin EXCEPT !["server"] = TRUE]
             [] verdict = "refused" \/ (verdict = "fine" /\ next = "closed")
                                         -> Closes("server")
             [] OTHER             -> Goes("server", next) /\ UNCHANGED fin
    BY <1>2
  <2> HIDE DEF verdict, left, next
  <2> QED BY <1>7, <2>1 DEF Closes, Goes
<1> HIDE DEF read
<1>9. /\ verdict = "fine" => Len(opening) <= Len(read) /\ GreetingLen(read) = Len(opening)
      /\ Len(opening) <= Len(read) /\ opening[1] = Version /\ (\E i \in 3 .. Len(opening) : opening[i] = 0)
             => verdict = "fine"
  BY <1>0, <1>1, <1>6, Judged
<1>10. /\ verdict = "fine" => left \in Bytes /\ left \o wire'["client"] = rest
       /\ left \in Bytes
  <2>1. CASE verdict = "fine"
    <3>1. Len(opening) <= Len(read) /\ left = Drop(read, Len(opening))
      BY <2>1, <1>9
    <3>2. /\ read \in Bytes /\ wire'["client"] \in Bytes /\ opening \in Bytes /\ rest \in Bytes
      BY <1>1, <1>6
    <3>3. /\ Drop(read, Len(opening)) \in Bytes
          /\ Drop(read, Len(opening)) \o wire'["client"] = rest
      <4>1. Joined(read, wire'["client"], opening, rest)
        BY <1>6
      <4>2. Len(opening) <= Len(read)
        BY <3>1
      <4> HIDE DEF left, verdict
      <4> QED BY <3>2, <4>1, <4>2, Rest
    <3> HIDE DEF left, verdict
    <3> QED BY <3>1, <3>3
  <2>2. CASE verdict # "fine"
    <3> HIDE DEF verdict
    <3> QED BY <2>2, <1>6
  <2> QED BY <2>1, <2>2
<1> HIDE DEF left, verdict, answer
<1>11. /\ next \in {"request", "closed", "hook"}
       /\ next = "closed" => Len(left) >= 7 /\ Total(left) = 0
  BY <1>10, StateIs
<1>12. verdict = "fine" /\ next = "closed" => ~Supported(target)
  <2> SUFFICES ASSUME verdict = "fine", next = "closed" PROVE ~Supported(target)
    OBVIOUS
  <2>1. Len(left) >= 7 /\ Total(left) = 0 /\ left \in Bytes /\ left \o wire'["client"] = rest
    BY <1>10, <1>11
  <2>2. rest # <<>>
    <3>1. Len(left) >= 1
      BY <2>1
    <3> QED BY <3>1, <2>1, <1>6, NotEmpty
  <2>3. Joined(left, wire'["client"], Request, Sent("client"))
    BY <2>1, <2>2 DEF Joined, rest
  <2>4. Total(left) = IF Supported(target) THEN Len(BuildSocks5Req(target)) ELSE 0
    <3>1. left \in Bytes /\ wire'["client"] \in Bytes /\ Len(left) >= 7
      BY <2>1, <1>6
    <3> QED BY <2>3, <3>1, <1>1, RequestRead DEF Request
  <2>5. Len(BuildSocks5Req(target)) >= 6
    BY <1>1, RequestLen
  <2> QED BY <2>1, <2>4, <2>5
<1> HIDE DEF next
<1>13. /\ to \in {"crashed", "closed", "request", "hook"}
       /\ to \in {"request", "hook"} => verdict = "fine" /\ to = next
       /\ to = "closed" => verdict = "refused" \/ (verdict = "fine" /\ next = "closed")
       /\ to = "crashed" => verdict = "panic"
       /\ verdict = "refused" => to = "closed"
  BY <1>7, <1>11
<1> HIDE DEF to
<1>14. /\ buf'["client"] = buf["client"] /\ buf'["server"] = left /\ buf' \in [Ends -> Bytes]
       /\ pc'["client"] = pc["client"] /\ pc'["server"] = to /\ pc' \in [Ends -> Stages]
       /\ fin'["client"] = fin["client"] /\ fin' \in [Ends -> BOOLEAN]
  BY <1>0, <1>8, <1>10, <1>13, EndsAre DEF Typed, Stages
<1>15. /\ In("client")' = In("client") \o answer
       /\ Sent("client")' = Sent("client") /\ Sent("server")' = Sent("server")
  BY <1>3, <1>6, <1>14, SentKept, EndsAre
<1>16. Typed' /\ Placed' /\ Ordered' /\ Unopened'
  <2>1. Typed'
    <3>1. first' \in Nat
      BY <1>8
    <3> QED BY <3>1, <1>0, <1>3, <1>4, <1>6, <1>14 DEF Typed
  <2>2. Placed' /\ Ordered' /\ Unopened'
    BY <1>0, <1>3, <1>4, <1>13, <1>14, EndsAre DEF ShakeInv, Placed, Ordered, Unopened
  <2> QED BY <2>1, <2>2
<1>17. SocksServerIn'
  <2>1. to \in {"request", "hook"} => In("server")' = rest
    <3>1. In("server")' = left \o wire'["client"]
      BY <1>14, EndsAre DEF In
    <3> QED BY <3>1, <1>10, <1>13
  <2>2. to = "hook" => RequestState(left) = "hook"
    BY <1>13 DEF next
  <2> QED BY <2>1, <2>2, <1>0, <1>4, <1>13, <1>14, <1>15
          DEF SocksServerIn, Waits, AsksLater, rest
<1>18. SocksClientIn'
  <2>1. pc["client"] = "method" => In("client")' = answer
    BY <1>0, <1>5, <1>15, EmptyIs
  <2>2. Answered' \o Sent("server")' = <<>>
    <3>1. Sent("server") = <<>>
      BY <1>0, DataIs DEF Sent
    <3>2. Answered = <<>>
      BY <1>0 DEF Answered
    <3>3. <<>> \o <<>> = <<>>
      BY EmptyIs
    <3> QED BY <3>1, <3>2, <3>3, <1>4, <1>15
  <2>3. verdict # "refused" => answer = <<Version, 0>> \o (Answered' \o Sent("server")')
    <3>1. <<Version, 0>> \in Bytes
      BY DEF Version, Bytes
    <3>2. <<Version, 0>> \o <<>> = <<Version, 0>>
      BY <3>1, EmptyIs
    <3> QED BY <2>2, <3>2 DEF answer
  <2>4. verdict = "refused" => answer = <<Version, 255>> /\ to = "closed"
    BY <1>13 DEF answer
  <2> QED BY <2>1, <2>3, <2>4, <1>0, <1>3, <1>13, <1>14 DEF SocksClientIn
<1>19. HttpInv'
  BY <1>0, <1>4 DEF HttpInv
<1>20. Streams'
  BY <1>0, <1>3, <1>13, <1>14, StreamRest, StreamsAre, EndsAre DEF ShakeInv
<1>21. HandshakeAgrees' /\ ServedUnlessCut'
  <2>1. WellFormed => Supported(target)
    BY DEF WellFormed, Supported
  <2>2. WellFormed /\ verdict # "fine" => k < Len(opening)
    <3>1. WellFormed /\ Len(opening) <= Len(read) => verdict = "fine"
      BY <1>9 DEF WellFormed
    <3> QED BY <3>1, <1>1, <1>6
  <2>3. WellFormed /\ to \in {"closed", "crashed"} => k < Len(opening)
    BY <2>1, <2>2, <1>12, <1>13
  <2> QED BY <2>3, <1>0, <1>4, <1>8, <1>13, <1>14 DEF HandshakeAgrees, ServedUnlessCut
<1> QED BY <1>16, <1>17, <1>18, <1>19, <1>20, <1>21 DEF ShakeInv, SocksInv

(* Behind the answer to the greeting                                       *)
LEMMA BehindMethod ==
    ASSUME NEW a \in Bytes, NEW b \in Bytes, NEW p \in Bytes, NEW q \in Bytes,
           Joined(a, b, p, q), Len(p) = 2, Len(a) >= 2
    PROVE  Drop(a, 2) \in Bytes /\ Drop(a, 2) \o b = q
<1>1. Len(p) <= Len(a)
  OBVIOUS
<1>2. Drop(a, Len(p)) \in Bytes /\ Drop(a, Len(p)) \o b = q
  BY <1>1, Rest
<1> QED BY <1>2

LEMMA AnsweredIs == ASSUME Typed PROVE Answered \in Bytes
<1>1. /\ Request \in Bytes /\ 2 <= Len(Request) /\ Len(Request) <= Len(Request)
      /\ 0 \in Int /\ 2 \in Int
  <2>1. Len(Request) \in Nat /\ Len(Request) >= 6
    BY RequestLen DEF Typed, Request
  <2>2. Request \in Bytes
    BY EndIn, EndsAre
  <2> QED BY <2>1, <2>2
<1>2. \A i \in 1 .. Len(Request) : Request[i] = Request[i]
  OBVIOUS
<1>3. [Request EXCEPT ![2] = 0] \in Bytes
  BY <1>1, <1>2, AnswerIs
<1>4. [Request EXCEPT ![2] = 2] \in Bytes
  BY <1>1, <1>2, AnswerIs
<1> QED BY <1>3, <1>4, EmptyIs DEF Answered

(* What the client of a socks proxy makes of the answer to its request     *)
LEMMA AnswerRead ==
    ASSUME ShakeInv, proto = "socks", NEW b \in Bytes, NEW w \in Bytes,
           Joined(b, w, Answered, Sent("server"))
    PROVE  /\ AnswerState(b) \in {"answer", "closed", "open"}
           /\ AnswerState(b) = "open" => /\ returned /\ Drop(b, Total(b)) \in Bytes
                                         /\ Drop(b, Total(b)) \o w = Sent("server")
           /\ AnswerState(b) # "answer" => returned \/ vetoed
<1>0. /\ Typed /\ target \in Targets /\ Request \in Bytes /\ Sent("server") \in Bytes
      /\ Len(b) \in Nat /\ Len(Request) \in Nat /\ Len(Request) >= 6 /\ AnswerMin >= 5 /\ AnswerMin \in Nat
  <2>1. Typed /\ target \in Targets
    BY DEF ShakeInv, Typed
  <2>2. Request \in Bytes /\ Sent("server") \in Bytes
    BY <2>1, EndIn, EndsAre
  <2>3. Len(Request) \in Nat /\ Len(Request) >= 6
    BY <2>1, RequestLen DEF Request
  <2>4. Len(b) \in Nat
    BY DEF Bytes
  <2>5. AnswerMin >= 5 /\ AnswerMin \in Nat
    BY DEF AnswerMin
  <2> QED BY <2>1, <2>2, <2>3, <2>4, <2>5
<1>1. /\ AnswerState(b) \in {"answer", "closed", "open"}
      /\ AnswerState(b) # "answer" => Len(b) >= 5
      /\ AnswerState(b) = "open" => b[2] = 0 /\ ~(Len(b) < Total(b))
  <2> DEFINE m == AnswerMin
             t == Total(b)
  <2>1. AnswerState(b) = IF Len(b) < m THEN "answer"
                         ELSE IF b[2] # 0 THEN "closed"
                         ELSE IF Len(b) < t THEN "answer" ELSE "open"
    BY DEF AnswerState
  <2>2. m >= 5 /\ m \in Nat
    BY <1>0
  <2> HIDE DEF m, t
  <2>3. ~(Len(b) < m) => Len(b) >= 5
    BY <1>0, <2>2
  <2>4. AnswerState(b) = "open" => b[2] = 0 /\ ~(Len(b) < t)
    BY <2>1
  <2>5. AnswerState(b) \in {"answer", "closed", "open"} /\ (AnswerState(b) # "answer" => ~(Len(b) < m))
    BY <2>1
  <2> QED BY <2>3, <2>4, <2>5 DEF t
<1>2. Len(b) >= 5 => returned \/ vetoed
  <2> SUFFICES ASSUME Len(b) >= 5, ~returned, ~vetoed PROVE FALSE
    OBVIOUS
  <2>1. Answered = <<>>
    BY DEF Answered
  <2>2. Sent("server") = <<>>
    BY DataIs DEF ShakeInv, Ordered, Sent
  <2>3. b \o w = <<>>
    <3>1. <<>> \o <<>> = <<>>
      BY EmptyIs
    <3> QED BY <2>1, <2>2, <3>1 DEF Joined
  <2>4. b \o w # <<>>
    <3>1. Len(b) >= 1
      BY <1>0
    <3> QED BY <3>1, NotEmpty
  <2> QED BY <2>3, <2>4
<1>3. ASSUME AnswerState(b) = "open"
      PROVE  /\ returned /\ Drop(b, Total(b)) \in Bytes
             /\ Drop(b, Total(b)) \o w = Sent("server")
  <2>1. Len(b) >= 5 /\ b[2] = 0 /\ ~(Len(b) < Total(b))
    BY <1>1, <1>3
  <2>2. returned \/ vetoed
    BY <1>2, <2>1
  <2> DEFINE c == IF returned THEN 0 ELSE 2
             a == [Request EXCEPT ![2] = c]
  <2>3. Answered = a
    BY <2>2 DEF Answered
  <2>4. /\ a \in Bytes /\ Len(a) = Len(Request)
        /\ \A i \in 1 .. Len(Request) : a[i] = IF i = 2 THEN c ELSE Request[i]
    <3>1. c \in Int
      OBVIOUS
    <3>2. 2 <= Len(Request) /\ Len(Request) <= Len(Request)
      BY <1>0
    <3> HIDE DEF c
    <3>3. \A i \in 1 .. Len(Request) : Request[i] = Request[i]
      OBVIOUS
    <3> QED BY <1>0, <3>1, <3>2, <3>3, AnswerIs
  <2> HIDE DEF a
  <2>5. Joined(b, w, a, Sent("server"))
    BY <2>3
  <2>6. b[2] = a[2] /\ b[4] = a[4] /\ b[5] = a[5]
    <3>1. /\ 2 \in 1 .. Len(b) /\ 4 \in 1 .. Len(b) /\ 5 \in 1 .. Len(b)
          /\ 2 <= Len(a) /\ 4 <= Len(a) /\ 5 <= Len(a)
      BY <1>0, <2>1, <2>4
    <3> QED BY <3>1, <2>4, <2>5, <1>0, Agree
  <2>7. a[2] = c /\ a[4] = Request[4] /\ a[5] = Request[5]
    <3>1. 2 \in 1 .. Len(Request) /\ 4 \in 1 .. Len(Request) /\ 5 \in 1 .. Len(Request)
      BY <1>0
    <3> HIDE DEF c
    <3> QED BY <3>1, <2>4
  <2>8. returned
    BY <2>1, <2>6, <2>7
  <2>9. Request[4] = target.atyp /\ (target.atyp = Domain => Request[5] = target.len)
    BY <1>0, RequestIs DEF Request
  <2>10. Total(b) = Len(a)
    <3>1. Total(b) = IF Supported(target) THEN Len(BuildSocks5Req(target)) ELSE 0
      BY <1>0, <2>6, <2>7, <2>9, TotalIs
    <3>2. Supported(target)
      BY <2>8 DEF ShakeInv, SocksInv, SocksClientIn
    <3> QED BY <3>1, <3>2, <2>4 DEF Request
  <2>11. Len(a) <= Len(b)
    BY <1>0, <2>1, <2>4, <2>10
  <2>12. Drop(b, Len(a)) \in Bytes /\ Drop(b, Len(a)) \o w = Sent("server")
    <3>1. a \in Bytes /\ Sent("server") \in Bytes
      BY <1>0, <2>4
    <3> QED BY <3>1, <2>5, <2>11, Rest
  <2> QED BY <2>8, <2>10, <2>12
<1> QED BY <1>1, <1>2, <1>3

(* A client of a socks proxy reads.                                        *)
LEMMA ClientSocksStep ==
    ASSUME ShakeInv, SocksClientRead
    PROVE  ShakeInv'
<1> DEFINE new == pc["client"] = "method"
<1>0. /\ proto = "socks" /\ Typed /\ pc["client"] \in {"method", "answer"}
      /\ got["client"] = <<>> /\ ~fin["client"] /\ opening # GetRequest
      /\ SocksClientIn /\ SocksServerIn
      /\ ~returned => sent["server"] = 0
      /\ kind # "optimist" /\ new => sent["client"] = 0
  <2>1. proto = "socks" /\ pc["client"] \in {"method", "answer"} /\ Typed
    BY DEF SocksClientRead, ShakeInv
  <2>2. opening # GetRequest
    BY <2>1, SocksOpening
  <2> QED BY <2>1, <2>2, EndsAre DEF ShakeInv, Unopened, Ordered, SocksInv
<1>1. PICK k \in 1 .. Len(wire["server"]) :
           LET read   == buf["client"] \o SubSeq(wire["server"], 1, k)
               whole  == ~new \/ Len(read) >= 2
               asks   == new /\ kind = "browser"
               left   == IF new THEN Drop(read, 2) ELSE read
               state  == IF ~whole THEN "method"
                         ELSE IF new /\ read[2] # 0 THEN "closed" ELSE AnswerState(left)
           IN  /\ Exchange("client", k, IF asks /\ whole /\ state # "closed" THEN Request ELSE <<>>)
               /\ CASE state = "closed" -> Closes("client") /\ UNCHANGED <<buf, held, glued>>
                    [] state = "open"   ->
                           /\ Opens("client", Drop(left, Total(left)), Total(left) < Len(left))
                           /\ UNCHANGED fin
                    [] OTHER            ->
                           /\ Goes("client", state)
                           /\ buf' = [buf EXCEPT !["client"] = IF whole THEN left ELSE read]
                           /\ UNCHANGED <<fin, held, glued>>
  BY DEF SocksClientRead, Request
<1> DEFINE read   == buf["client"] \o SubSeq(wire["server"], 1, k)
           whole  == ~new \/ Len(read) >= 2
           asks   == new /\ kind = "browser"
           left   == IF new THEN Drop(read, 2) ELSE read
           state  == IF ~whole THEN "method"
                     ELSE IF new /\ read[2] # 0 THEN "closed" ELSE AnswerState(left)
           ask    == IF asks /\ whole /\ state # "closed" THEN Request ELSE <<>>
<1>2. /\ UNCHANGED <<config, userVars>> /\ got' = got
      /\ sent' = sent /\ first' = first /\ vetoed' = vetoed /\ returned' = returned /\ parsed' = parsed
  BY DEF SocksClientRead, userVars
<1>3. /\ proto' = proto /\ kind' = kind /\ opening' = opening /\ target' = target
      /\ Request' = Request /\ WellFormed' = WellFormed /\ Answered' = Answered
  BY <1>2, ConfigKept, AnsweredKept
<1>4. \A e \in Ends : Sent(e)' = Sent(e)
  BY <1>2, DueKept
<1>5. /\ Request \in Bytes /\ Sent("server") \in Bytes /\ Sent("client") \in Bytes
      /\ wire["client"] \in Bytes /\ In("server") \in Bytes /\ ask \in Bytes
  <2> HIDE DEF asks, whole, state
  <2> QED BY <1>0, EndIn, EndsAre, EmptyIs
<1>6. /\ wire' \in [Ends -> Bytes] /\ wire'["server"] \in Bytes
      /\ wire'["client"] = wire["client"] \o ask
      /\ read \in Bytes /\ Len(read) >= 1 /\ read \o wire'["server"] = In("client")
      /\ In("client") # <<>>
      /\ buf'["server"] = buf["server"] => In("server")' = In("server") \o ask
  <2> HIDE DEF read, ask
  <2>1. Exchange("client", k, ask) /\ k \in 1 .. Len(wire[Peer("client")]) /\ "client" \in Ends
    BY <1>1, EndsAre DEF read, ask
  <2>2. /\ wire' \in [Ends -> Bytes] /\ wire'[Peer("client")] \in Bytes
        /\ wire'["client"] = wire["client"] \o ask
        /\ buf["client"] \o SubSeq(wire[Peer("client")], 1, k) \in Bytes
        /\ Len(buf["client"] \o SubSeq(wire[Peer("client")], 1, k)) >= 1
        /\ (buf["client"] \o SubSeq(wire[Peer("client")], 1, k)) \o wire'[Peer("client")] = In("client")
        /\ In("client") # <<>>
        /\ buf'[Peer("client")] = buf[Peer("client")]
               => In(Peer("client"))' = In(Peer("client")) \o ask
    BY <2>1, <1>0, <1>5, Exchanged
  <2> QED BY <2>2, EndsAre DEF read
<1>7. /\ state = "closed" => Closes("client") /\ UNCHANGED <<buf, held, glued>>
      /\ state = "open" => /\ Opens("client", Drop(left, Total(left)), Total(left) < Len(left))
                           /\ UNCHANGED fin
      /\ state \notin {"closed", "open"} =>
             /\ Goes("client", state)
             /\ buf' = [buf EXCEPT !["client"] = IF whole THEN left ELSE read]
             /\ UNCHANGED <<fin, held, glued>>
  BY <1>1
<1> HIDE DEF read
<1>8. Len(read) \in Nat
  BY <1>6 DEF Bytes
<1>9. pc["server"] \notin {"start", "greeting"}
  <2>1. pc["server"] = "start" => wire["server"] = <<>>
    BY DEF ShakeInv, Ordered
  <2>2. pc["server"] \in {"start", "greeting"} => new /\ In("client") = <<>>
    BY <1>0 DEF SocksClientIn
  <2> QED BY <2>2, <1>6
<1>10. new => \/ In("client") = <<Version, 0>> \o (Answered \o Sent("server"))
              \/ In("client") = <<Version, 255>>
  BY <1>0, <1>9 DEF SocksClientIn
<1>11. Answered \in Bytes /\ Answered \o Sent("server") \in Bytes
  <2>1. Answered \in Bytes
    BY <1>0, AnsweredIs
  <2> QED BY <2>1, <1>5, CatIs
<1>12. new /\ Len(read) >= 2 /\ read[2] = 0 =>
           /\ In("client") = <<Version, 0>> \o (Answered \o Sent("server"))
           /\ left \in Bytes /\ left \o wire'["server"] = Answered \o Sent("server")
  <2> SUFFICES ASSUME new, Len(read) >= 2, read[2] = 0
               PROVE  /\ In("client") = <<Version, 0>> \o (Answered \o Sent("server"))
                      /\ left \in Bytes /\ left \o wire'["server"] = Answered \o Sent("server")
    OBVIOUS
  <2> DEFINE p == <<Version, 0>>
             q == <<Version, 255>>
             x == Answered \o Sent("server")
  <2>1. /\ p \in Bytes /\ Len(p) = 2 /\ q \in Bytes /\ q[2] = 255 /\ Len(q) = 2
    BY DEF Version, Bytes
  <2>2. x \in Bytes
    BY <1>11
  <2>3. In("client") = p \o x \/ In("client") = q
    BY <1>10
  <2> HIDE DEF p, q, x
  <2>4. In("client") # q
    <3> SUFFICES ASSUME In("client") = q PROVE FALSE
      OBVIOUS
    <3>1. q \o <<>> = q /\ <<>> \in Bytes
      BY <2>1, EmptyIs
    <3>2. Joined(read, wire'["server"], q, <<>>)
      BY <3>1, <1>6 DEF Joined
    <3>3. 2 \in 1 .. Len(read) /\ 2 <= Len(q)
      BY <1>8, <2>1
    <3>4. read \in Bytes /\ wire'["server"] \in Bytes
      BY <1>6
    <3>5. read[2] = q[2]
      <4>1. q \in Bytes /\ <<>> \in Bytes
        BY <2>1, <3>1
      <4> QED BY <3>2, <3>3, <3>4, <4>1, Agree
    <3> QED BY <3>5, <2>1
  <2>5. In("client") = p \o x
    BY <2>3, <2>4
  <2>6. Joined(read, wire'["server"], p, x)
    BY <2>5, <1>6 DEF Joined
  <2>7. Drop(read, 2) \in Bytes /\ Drop(read, 2) \o wire'["server"] = x
    <3>1. read \in Bytes /\ wire'["server"] \in Bytes
      BY <1>6
    <3>2. p \in Bytes /\ Len(p) = 2
      BY <2>1
    <3> QED BY <2>2, <2>6, <3>1, <3>2, BehindMethod
  <2>8. left = Drop(read, 2)
    OBVIOUS
  <2> QED BY <2>1, <2>5, <2>7, <2>8 DEF p, x
<1>13. ~new => left \in Bytes /\ left \o wire'["server"] = Answered \o Sent("server")
  BY <1>0, <1>6 DEF SocksClientIn
<1> DEFINE good == ~new \/ (Len(read) >= 2 /\ read[2] = 0)
<1> HIDE DEF left
<1>14. /\ ~good => state \in {"method", "closed"} /\ (state = "method" => new /\ ~whole)
       /\ good => whole /\ state = AnswerState(left)
  BY <1>8
<1>15. good => left \in Bytes /\ left \o wire'["server"] = Answered \o Sent("server")
  BY <1>12, <1>13
<1>16. good => /\ state \in {"answer", "closed", "open"}
               /\ state = "open" => /\ returned /\ Drop(left, Total(left)) \in Bytes
                                    /\ Drop(left, Total(left)) \o wire'["server"] = Sent("server")
               /\ state # "answer" => returned \/ vetoed
  <2> SUFFICES ASSUME good
               PROVE /\ state \in {"answer", "closed", "open"}
                     /\ state = "open" => /\ returned /\ Drop(left, Total(left)) \in Bytes
                                          /\ Drop(left, Total(left)) \o wire'["server"] = Sent("server")
                     /\ state # "answer" => returned \/ vetoed
    OBVIOUS
  <2>1. left \in Bytes /\ wire'["server"] \in Bytes /\ Joined(left, wire'["server"], Answered, Sent("server"))
    BY <1>6, <1>15 DEF Joined
  <2>2. state = AnswerState(left)
    BY <1>14
  <2> HIDE DEF state, good
  <2> QED BY <1>0, <2>1, <2>2, AnswerRead
<1>17. /\ ~(asks /\ whole /\ state # "closed") => ask = <<>>
       /\ asks /\ whole /\ state # "closed" => ask = Request
  <2> HIDE DEF asks, whole, state
  <2> QED OBVIOUS
<1>18. asks => ~returned /\ ~vetoed
  BY <1>0 DEF SocksClientIn, Waits
<1> HIDE DEF ask, state, good
<1>19. /\ state \in {"method", "closed", "answer", "open"}
       /\ state = "open" => good /\ ~asks
       /\ state = "answer" => good
       /\ state = "method" => ~good /\ new /\ ~whole
  BY <1>14, <1>16, <1>18
<1>20. asks /\ whole /\ state # "closed" <=> asks /\ state = "answer"
  BY <1>14, <1>19
<1>21. /\ state # "answer" \/ ~asks => ask = <<>>
       /\ state = "answer" /\ asks => ask = Request
  BY <1>17, <1>20
<1> HIDE DEF asks, whole
(* What the acceptor will read: a browser's request, when it asks          *)
<1>22. ASSUME buf'["server"] = buf["server"], pc'["server"] = pc["server"], pc'["client"] = state
       PROVE  SocksServerIn'
  <2>1. In("server")' = In("server") \o ask
    BY <1>6, <1>22
  <2>2. CASE state = "answer" /\ asks
    <3>1. kind = "browser" /\ new /\ ask = Request
      BY <1>21, <2>2 DEF asks
    <3>2. Sent("client") = <<>>
      BY <3>1, <1>0, DataIs DEF Sent
    <3>3. pc["server"] \in {"request", "hook"} => In("server") = <<>>
      BY <1>0, <3>1 DEF SocksServerIn, Waits
    <3>4. <<>> \o Request = Request /\ Request \o <<>> = Request
      BY <1>5, EmptyIs
    <3>5. pc["server"] \in {"request", "hook"} => In("server")' = Request' \o Sent("client")'
      BY <2>1, <3>1, <3>2, <3>3, <3>4, <1>3, <1>4, EndsAre
    <3>6. ~Waits'
      BY <2>2, <1>22 DEF Waits
    <3> QED BY <3>5, <3>6, <1>0, <1>9, <1>22 DEF SocksServerIn
  <2>3. CASE ~(state = "answer" /\ asks)
    <3>1. ask = <<>>
      BY <1>21, <2>3
    <3>2. In("server")' = In("server")
      BY <2>1, <3>1, <1>5, EmptyIs
    <3>3. AsksLater => AsksLater'
      BY <2>3, <1>0, <1>3, <1>19, <1>22 DEF AsksLater, asks
    <3>4. ~Waits => ~Waits'
      BY <1>3, <1>19, <1>22 DEF Waits
    <3> QED BY <3>2, <3>3, <3>4, <1>0, <1>3, <1>4, <1>9, <1>22, EndsAre DEF SocksServerIn
  <2> QED BY <2>2, <2>3
<1>23. ASSUME pc'["server"] = pc["server"], pc'["client"] = state,
              state = "answer" => In("client")' = Answered \o Sent("server"),
              state = "method" => In("client")' = In("client")
       PROVE  SocksClientIn'
  <2>1. returned \/ vetoed => Supported(target)' /\ ~Waits'
    BY <1>0, <1>3, <1>19, <1>23 DEF SocksClientIn, Supported, Waits
  <2>2. pc'["client"] = "method" =>
           \/ In("client")' = <<Version, 0>> \o (Answered' \o Sent("server")')
           \/ In("client")' = <<Version, 255>> /\ pc'["server"] = "closed" /\ ~returned'
    BY <1>0, <1>2, <1>3, <1>4, <1>9, <1>19, <1>23, EndsAre DEF SocksClientIn
  <2>3. pc'["client"] = "answer" => In("client")' = Answered' \o Sent("server")'
    BY <1>3, <1>4, <1>23, EndsAre
  <2> QED BY <2>1, <2>2, <2>3, <1>2, <1>9, <1>23 DEF SocksClientIn
<1>24. HttpInv'
  BY <1>0, <1>3 DEF HttpInv
<1>25. CASE state = "closed"
  <2>1. /\ pc' = [pc EXCEPT !["client"] = "closed"] /\ fin' = [fin EXCEPT !["client"] = TRUE]
        /\ buf' = buf /\ held' = held /\ glued' = glued
    BY <1>7, <1>25 DEF Closes, Goes
  <2>2. /\ pc'["client"] = "closed" /\ pc'["server"] = pc["server"] /\ fin'["client"]
        /\ pc' \in [Ends -> Stages] /\ fin' \in [Ends -> BOOLEAN]
    BY <1>0, <2>1, EndsAre DEF Typed, Stages
  <2>3. Typed'
    BY <1>0, <1>2, <1>3, <1>6, <2>1, <2>2 DEF Typed
  <2>4. Placed' /\ Ordered' /\ Unopened'
    BY <1>0, <1>2, <1>3, <1>9, <2>1, <2>2, EndsAre DEF ShakeInv, Placed, Ordered, Unopened
  <2>5. SocksServerIn' /\ SocksClientIn'
    BY <1>22, <1>23, <1>25, <2>1, <2>2
  <2>6. Streams'
    <3>1. wire'["client"] = wire["client"]
      BY <1>5, <1>6, <1>21, <1>25, EmptyIs
    <3> QED BY <3>1, <1>2, <2>1, <2>2, StreamRest, StreamsAre, EndsAre DEF ShakeInv
  <2>7. HandshakeAgrees' /\ ServedUnlessCut'
    BY <1>2, <1>3, <2>2 DEF ShakeInv, HandshakeAgrees, ServedUnlessCut
  <2> QED BY <1>24, <2>3, <2>4, <2>5, <2>6, <2>7 DEF ShakeInv, SocksInv
<1>26. CASE state = "open"
  <2>1. /\ pc' = [pc EXCEPT !["client"] = "open"] /\ fin' = fin
        /\ buf' = [buf EXCEPT !["client"] = <<>>]
        /\ held' = [held EXCEPT !["client"] = Drop(left, Total(left))]
        /\ glued' = [glued EXCEPT !["client"] = Total(left) < Len(left)]
    BY <1>7, <1>26 DEF Opens, Goes
  <2>2. /\ returned /\ Drop(left, Total(left)) \in Bytes
        /\ Drop(left, Total(left)) \o wire'["server"] = Sent("server")
    BY <1>16, <1>19, <1>26
  <2>3. (Total(left) < Len(left)) \in BOOLEAN
    OBVIOUS
  <2>4. /\ pc'["client"] = "open" /\ pc'["server"] = pc["server"] /\ buf'["server"] = buf["server"]
        /\ held'["client"] = Drop(left, Total(left)) /\ held'["server"] = held["server"]
        /\ glued'["server"] = glued["server"]
    BY <1>0, <2>1, EndsAre DEF Typed
  <2>5. Typed'
    <3>1. pc' \in [Ends -> Stages]
      BY <1>0, <2>1, EndsAre DEF Typed, Stages
    <3>2. buf' \in [Ends -> Bytes] /\ held' \in [Ends -> Bytes] /\ glued' \in [Ends -> BOOLEAN]
      BY <1>0, <2>1, <2>2, <2>3, EndsAre, EmptyIs DEF Typed
    <3> QED BY <1>0, <1>2, <1>3, <1>6, <2>1, <3>1, <3>2 DEF Typed
  <2>6. Placed' /\ Ordered' /\ Unopened'
    BY <1>0, <1>2, <1>3, <1>9, <2>1, <2>4, EndsAre DEF ShakeInv, Placed, Ordered, Unopened
  <2>7. SocksServerIn' /\ SocksClientIn'
    BY <1>22, <1>23, <1>26, <2>4
  <2>8. Streams'
    <3>1. wire'["client"] = wire["client"]
      BY <1>5, <1>6, <1>21, <1>26, EmptyIs
    <3>2. Carried("server")'
      BY <3>1, <1>2, <2>4, StreamRest, StreamsAre, EndsAre DEF ShakeInv
    <3>3. Due("client")' = Sent("server")
      BY <1>0, <1>2, DueKept, DueIs, EndsAre
    <3>4. held'["client"] \o wire'["server"] = Due("client")'
      BY <2>2, <2>4, <3>3
    <3>5. held'["client"] \in Bytes /\ got'["client"] = <<>>
      BY <1>0, <1>2, <2>2, <2>4
    <3>6. Carried("client")'
      BY <1>6, <3>4, <3>5, StreamOpens, EndsAre
    <3> QED BY <3>2, <3>6, StreamsAre
  <2>9. HandshakeAgrees' /\ ServedUnlessCut'
    BY <1>2, <1>3, <2>1, <2>2, <2>4 DEF ShakeInv, HandshakeAgrees, ServedUnlessCut
  <2> QED BY <1>24, <2>5, <2>6, <2>7, <2>8, <2>9 DEF ShakeInv, SocksInv
<1>27. CASE state \in {"method", "answer"}
  <2> DEFINE keep == IF whole THEN left ELSE read
  <2>1. /\ pc' = [pc EXCEPT !["client"] = state] /\ fin' = fin
        /\ buf' = [buf EXCEPT !["client"] = keep] /\ held' = held /\ glued' = glued
    BY <1>7, <1>27 DEF Goes
  <2>2. /\ state = "answer" => keep \in Bytes /\ keep \o wire'["server"] = Answered \o Sent("server")
        /\ state = "method" => keep = read
        /\ keep \in Bytes
    <3>1. state = "answer" => keep = left /\ good
      BY <1>14, <1>19
    <3>2. state = "method" => keep = read
      BY <1>19
    <3> HIDE DEF keep
    <3> QED BY <3>1, <3>2, <1>6, <1>15, <1>27
  <2> HIDE DEF keep
  <2>3. /\ pc'["client"] = state /\ pc'["server"] = pc["server"] /\ buf'["server"] = buf["server"]
        /\ buf'["client"] = keep /\ buf' \in [Ends -> Bytes] /\ pc' \in [Ends -> Stages]
    BY <1>0, <1>27, <2>1, <2>2, EndsAre DEF Typed, Stages
  <2>4. In("client")' = keep \o wire'["server"]
    BY <2>3, EndsAre DEF In
  <2>5. Typed'
    BY <1>0, <1>2, <1>3, <1>6, <2>1, <2>3 DEF Typed
  <2>6. Placed' /\ Ordered' /\ Unopened'
    <3>1. state = "method" => new
      BY <1>19
    <3> QED BY <3>1, <1>0, <1>2, <1>3, <1>9, <1>27, <2>1, <2>3, EndsAre
            DEF ShakeInv, Placed, Ordered, Unopened
  <2>7. SocksServerIn' /\ SocksClientIn'
    <3>1. state = "answer" => In("client")' = Answered \o Sent("server")
      BY <2>2, <2>4
    <3>2. state = "method" => In("client")' = In("client")
      BY <2>2, <2>4, <1>6
    <3> QED BY <1>22, <1>23, <2>3, <3>1, <3>2
  <2>8. Streams'
    <3>1. Carried("client")'
      BY <1>2, <1>27, <2>1, <2>3, StreamRest, StreamsAre, EndsAre DEF ShakeInv
    <3>2. pc["server"] = "open" => wire'["client"] = wire["client"]
      <4>1. pc["server"] = "open" => ~asks
        BY <1>18 DEF ShakeInv, Ordered
      <4> QED BY <4>1, <1>5, <1>6, <1>21, EmptyIs
    <3>3. Carried("server")'
      BY <3>2, <1>2, <2>1, <2>3, StreamRest, StreamsAre, EndsAre DEF ShakeInv
    <3> QED BY <3>1, <3>3, StreamsAre
  <2>9. HandshakeAgrees' /\ ServedUnlessCut'
    BY <1>2, <1>3, <1>27, <2>1, <2>3 DEF ShakeInv, HandshakeAgrees, ServedUnlessCut
  <2> QED BY <1>24, <2>5, <2>6, <2>7, <2>8, <2>9 DEF ShakeInv, SocksInv
<1> QED BY <1>19, <1>25, <1>26, <1>27

(* A user writes: the byte goes behind all that is on its way.             *)
LEMMA UserSendStep ==
    ASSUME ShakeInv, NEW e \in Ends, UserSend(e)
    PROVE  ShakeInv'
<1> DEFINE p == Peer(e)
           d == <<Data(e, sent[e] + 1)>>
<1>0. /\ Typed /\ p \in Ends /\ p # e /\ Peer(p) = e /\ Ends = {e, p}
      /\ wire[e] \in Bytes /\ buf[p] \in Bytes /\ got[p] \in Bytes /\ held[p] \in Bytes
      /\ sent[e] \in Nat /\ Sent(e) \in Bytes /\ d \in Bytes
      /\ Request \in Bytes /\ opening \in Bytes /\ In(p) \in Bytes
  <2>1. Typed
    BY DEF ShakeInv
  <2>2. /\ p \in Ends /\ p # e /\ Peer(p) = e /\ Ends = {e, p}
    BY EndsAre
  <2>3. /\ wire[e] \in Bytes /\ sent[e] \in Nat /\ Sent(e) \in Bytes
        /\ Request \in Bytes /\ opening \in Bytes
    BY <2>1, EndIn
  <2>4. buf[p] \in Bytes /\ got[p] \in Bytes /\ held[p] \in Bytes /\ In(p) \in Bytes
    BY <2>1, <2>2, EndIn
  <2>5. d \in Bytes
    BY <2>3, DataIs
  <2> QED BY <2>1, <2>2, <2>3, <2>4, <2>5
<1>1. /\ pc[e] = "open" \/ (e = "client" /\ kind = "optimist" /\ Shaking(e))
      /\ sent' = [sent EXCEPT ![e] = @ + 1] /\ wire' = [wire EXCEPT ![e] = @ \o d]
      /\ pc' = pc /\ fin' = fin /\ buf' = buf /\ held' = held /\ got' = got /\ glued' = glued
      /\ first' = first /\ vetoed' = vetoed /\ returned' = returned /\ parsed' = parsed
      /\ UNCHANGED config
  BY DEF UserSend, Put, history
<1>2. /\ proto' = proto /\ kind' = kind /\ opening' = opening /\ target' = target
      /\ Request' = Request /\ WellFormed' = WellFormed /\ Answered' = Answered
  BY <1>1, ConfigKept, AnsweredKept
<1>3. /\ sent'[e] = sent[e] + 1 /\ sent'[p] = sent[p] /\ sent' \in [Ends -> Nat]
      /\ wire'[e] = wire[e] \o d /\ wire'[p] = wire[p] /\ wire' \in [Ends -> Bytes]
  <2>1. wire[e] \o d \in Bytes
    BY <1>0, CatIs
  <2> HIDE DEF d, p
  <2> QED BY <1>0, <1>1, <2>1 DEF Typed
<1>4. /\ Sent(e)' = Sent(e) \o d /\ Sent(p)' = Sent(p)
  <2>1. DataUpTo(e, sent[e] + 1) = DataUpTo(e, sent[e]) \o <<Data(e, sent[e] + 1)>>
    BY <1>0, DataIs
  <2>2. Sent(e)' = Sent(e) \o d
    BY <2>1, <1>3 DEF Sent
  <2>3. Sent(p)' = Sent(p)
    BY <1>0, <1>3, SentKept
  <2> QED BY <2>2, <2>3
<1> HIDE DEF d
<1>5. In(p)' = In(p) \o d /\ In(e)' = In(e)
  <2>1. (buf[p] \o wire[e]) \o d = buf[p] \o (wire[e] \o d)
    <3>1. buf[p] \in Bytes /\ wire[e] \in Bytes /\ d \in Bytes
      BY <1>0
    <3> QED BY <3>1, Assoc
  <2>2. In(p)' = In(p) \o d
    BY <2>1, <1>0, <1>1, <1>3 DEF In
  <2>3. In(e)' = In(e)
    BY <1>1, <1>3, InKept
  <2> QED BY <2>2, <2>3
(* What stands in front of the user's bytes                                *)
<1>6. \A a \in Bytes : a \o Sent(e)' = (a \o Sent(e)) \o d
  <2> TAKE a \in Bytes
  <2>1. (a \o Sent(e)) \o d = a \o (Sent(e) \o d)
    <3>1. Sent(e) \in Bytes /\ d \in Bytes
      BY <1>0
    <3> QED BY <3>1, Assoc
  <2> QED BY <2>1, <1>4
<1>7. Typed'
  BY <1>0, <1>1, <1>2, <1>3 DEF Typed
<1>8. Placed' /\ Ordered' /\ Unopened'
  <2>1. Placed' /\ Unopened'
    BY <1>1, <1>2 DEF ShakeInv, Placed, Unopened
  <2>2. pc[e] # "start"
    BY <1>1 DEF Shaking
  <2>3. CASE e = "client"
    <3>1. p = "server"
      BY <2>3, EndsAre
    <3> HIDE DEF p
    <3> QED BY <1>1, <1>2, <1>3, <2>1, <2>2, <2>3, <3>1 DEF ShakeInv, Ordered, Shaking
  <2>4. CASE e = "server"
    <3>1. p = "client"
      BY <2>4, EndsAre
    <3> HIDE DEF p
    <3> QED BY <1>1, <1>2, <1>3, <2>1, <2>2, <2>4, <3>1 DEF ShakeInv, Ordered, Shaking
  <2> QED BY <2>1, <2>3, <2>4, EndsAre
<1>9. SocksInv'
  <2> SUFFICES ASSUME proto = "socks" PROVE SocksServerIn' /\ SocksClientIn'
    BY <1>2 DEF SocksInv
  <2>0. SocksServerIn /\ SocksClientIn
    BY DEF ShakeInv, SocksInv
  <2>1. CASE e = "client"
    <3>1. p = "server"
      BY <2>1, EndsAre
    <3>2. SocksServerIn'
      <4>1. /\ pc["server"] \in {"start", "greeting"} => kind # "browser" /\ kind' # "browser"
            /\ pc["server"] \in {"request", "hook"} => ~AsksLater
            /\ pc["client"] # "start"
        BY <2>0, <2>1, <1>1, <1>2 DEF SocksClientIn, AsksLater, Shaking
      <4>2. pc["server"] \in {"start", "greeting"} =>
                wire'["client"] = opening \o (Request \o Sent("client")')
        <5> SUFFICES ASSUME pc["server"] \in {"start", "greeting"}
                     PROVE  wire'["client"] = opening \o (Request \o Sent("client")')
          OBVIOUS
        <5>1. wire["client"] = opening \o (Request \o Sent("client"))
          BY <2>0, <4>1 DEF SocksServerIn
        <5>2. Request \o Sent("client") \in Bytes
          BY <1>0, <2>1, CatIs
        <5>3. (opening \o (Request \o Sent("client"))) \o d = opening \o ((Request \o Sent("client")) \o d)
          <6>1. opening \in Bytes /\ d \in Bytes
            BY <1>0
          <6> QED BY <6>1, <5>2, Assoc
        <5>4. Request \o Sent("client")' = (Request \o Sent("client")) \o d
          BY <1>0, <1>6, <2>1
        <5> QED BY <5>1, <5>3, <5>4, <1>3, <2>1
      <4>3. pc["server"] \in {"request", "hook"} => In("server")' = Request \o Sent("client")' /\ ~Waits'
        <5> SUFFICES ASSUME pc["server"] \in {"request", "hook"}
                     PROVE  In("server")' = Request \o Sent("client")' /\ ~Waits'
          OBVIOUS
        <5>1. In("server") = Request \o Sent("client") /\ ~Waits
          BY <2>0, <4>1 DEF SocksServerIn
        <5>2. Request \o Sent("client")' = (Request \o Sent("client")) \o d
          BY <1>0, <1>6, <2>1
        <5>3. In("server")' = In("server") \o d
          BY <1>5, <3>1
        <5> QED BY <5>1, <5>2, <5>3, <1>1, <1>2 DEF Waits
      <4> QED BY <2>0, <4>1, <4>2, <4>3, <1>1, <1>2 DEF SocksServerIn
    <3>3. SocksClientIn'
      <4>1. In("client")' = In("client") /\ Sent("server")' = Sent("server")
        BY <2>1, <3>1, <1>4, <1>5
      <4>2. pc' = pc /\ UNCHANGED <<returned, vetoed>> /\ Answered' = Answered
            /\ Waits' = Waits /\ Supported(target)' = Supported(target)
        BY <1>1, <1>2 DEF Waits, Supported
      <4> QED BY <2>0, <4>1, <4>2 DEF SocksClientIn
    <3> QED BY <3>2, <3>3
  <2>2. CASE e = "server"
    <3>1. p = "client" /\ pc["server"] = "open" /\ returned
      BY <2>2, <1>1, EndsAre DEF ShakeInv, Ordered
    <3>2. SocksServerIn'
      BY <3>1, <1>1 DEF SocksServerIn
    <3>3. Answered \in Bytes
      BY <2>0, <3>1, AnsweredIs DEF ShakeInv
    <3>4. Answered \o Sent("server")' = (Answered \o Sent("server")) \o d
      BY <3>3, <1>6, <2>2
    <3>5. In("client")' = In("client") \o d
      BY <3>1, <1>5
    <3>6. <<Version, 0>> \o ((Answered \o Sent("server")) \o d)
              = (<<Version, 0>> \o (Answered \o Sent("server"))) \o d
      <4>1. <<Version, 0>> \in Bytes
        BY DEF Version, Bytes
      <4>2. Answered \o Sent("server") \in Bytes
        BY <3>3, <1>0, <2>2, CatIs
      <4>3. d \in Bytes
        BY <1>0
      <4> QED BY <4>1, <4>2, <4>3, Assoc
    <3>7. pc["client"] = "method" =>
              In("client")' = <<Version, 0>> \o (Answered' \o Sent("server")')
      <4> SUFFICES ASSUME pc["client"] = "method"
                   PROVE  In("client")' = <<Version, 0>> \o (Answered' \o Sent("server")')
        OBVIOUS
      <4>1. In("client") = <<Version, 0>> \o (Answered \o Sent("server"))
        BY <2>0, <3>1 DEF SocksClientIn
      <4> QED BY <4>1, <3>4, <3>5, <3>6, <1>2
    <3>8. pc["client"] = "answer" => In("client")' = Answered' \o Sent("server")'
      <4> SUFFICES ASSUME pc["client"] = "answer"
                   PROVE  In("client")' = Answered' \o Sent("server")'
        OBVIOUS
      <4>1. In("client") = Answered \o Sent("server")
        BY <2>0 DEF SocksClientIn
      <4> QED BY <4>1, <3>4, <3>5, <1>2
    <3>9. Supported(target)' /\ ~Waits'
      BY <2>0, <3>1, <1>1, <1>2 DEF SocksClientIn, Waits, Supported
    <3>10. SocksClientIn'
      BY <3>1, <3>7, <3>8, <3>9, <1>1 DEF SocksClientIn
    <3> QED BY <3>2, <3>10
  <2> QED BY <2>1, <2>2, EndsAre
<1>10. HttpInv'
  <2> SUFFICES ASSUME proto = "http" PROVE HttpServerIn' /\ HttpClientIn'
    BY <1>2 DEF HttpInv
  <2>0. HttpServerIn /\ HttpClientIn
    BY DEF ShakeInv, HttpInv
  <2>1. CASE e = "client"
    <3>1. p = "server"
      BY <2>1, EndsAre
    <3>2. opening \o Sent("client")' = (opening \o Sent("client")) \o d
      BY <1>0, <1>6, <2>1
    <3>3. In("server")' = In("server") \o d
      BY <1>5, <3>1
    <3>4. pc["server"] \in {"start", "header", "host"} /\ pc["client"] # "start" =>
              In("server")' = opening \o Sent("client")'
      <4> SUFFICES ASSUME pc["server"] \in {"start", "header", "host"}, pc["client"] # "start"
                   PROVE  In("server")' = opening \o Sent("client")'
        OBVIOUS
      <4>1. In("server") = opening \o Sent("client")
        BY <2>0 DEF HttpServerIn
      <4> QED BY <4>1, <3>2, <3>3
    <3>5. HttpServerIn'
      BY <2>0, <3>4, <1>1, <1>2 DEF HttpServerIn
    <3>6. HttpClientIn'
      BY <2>0, <2>1, <3>1, <1>1, <1>2, <1>4, <1>5 DEF HttpClientIn
    <3> QED BY <3>5, <3>6
  <2>2. CASE e = "server"
    <3>1. p = "client" /\ pc["server"] = "open"
      BY <2>2, <1>1, EndsAre
    <3>2. HttpServerIn'
      BY <3>1, <1>1 DEF HttpServerIn
    <3>3. PROXY_RSP_SUCC \o Sent("server")' = (PROXY_RSP_SUCC \o Sent("server")) \o d
      <4>1. PROXY_RSP_SUCC \in Bytes
        BY DEF PROXY_RSP_SUCC, HTTP_END, Bytes
      <4> QED BY <4>1, <1>6, <2>2
    <3>4. In("client")' = In("client") \o d
      BY <3>1, <1>5
    <3>5. pc["client"] = "response" => In("client")' = PROXY_RSP_SUCC \o Sent("server")'
      <4> SUFFICES ASSUME pc["client"] = "response"
                   PROVE  In("client")' = PROXY_RSP_SUCC \o Sent("server")'
        OBVIOUS
      <4>1. In("client") = PROXY_RSP_SUCC \o Sent("server")
        BY <2>0, <3>1 DEF HttpClientIn
      <4> QED BY <4>1, <3>3, <3>4
    <3>6. HttpClientIn'
      BY <2>0, <3>1, <3>5, <1>1, <1>2 DEF HttpClientIn
    <3> QED BY <3>2, <3>6
  <2> QED BY <2>1, <2>2, EndsAre
<1>11. Streams'
  <2>1. Carried(e)'
    <3>1. Due(e)' = Due(e)
      BY <1>1, <1>2, <1>3 DEF Due
    <3>2. Spoilt(e)' = Spoilt(e)
      BY <1>1, <1>2 DEF Spoilt
    <3>3. Carried(e)
      BY DEF ShakeInv, Streams
    <3> QED BY <3>1, <3>2, <3>3, <1>1, <1>3 DEF Carried, Streaming
  <2>2. Carried(p)'
    <3>1. /\ Due(p) \in Bytes /\ Ahead(p) \in Bytes /\ Due(p) = Ahead(p) \o Sent(e)
      BY <1>0, DueIs
    <3>2. Due(p)' = Due(p) \o d
      <4>1. Due(p)' = Ahead(p) \o Sent(e)'
        <5>1. Due(p)' = (Ahead(p) \o Sent(e))'
          BY <1>0 DEF Due, Ahead, Sent, DataUpTo, GetRequest
        <5>2. Ahead(p)' = Ahead(p)
          BY <1>2 DEF Ahead
        <5> QED BY <5>1, <5>2
      <4> QED BY <4>1, <3>1, <1>6
    <3>3. Spoilt(p)' = Spoilt(p)
      BY <1>1, <1>2 DEF Spoilt
    <3>4. Carried(p)
      BY <1>0 DEF ShakeInv, Streams
    <3>5. CASE Spoilt(p)
      BY <3>3, <3>5 DEF Carried
    <3>6. CASE Streaming(p)
      <4>1. got[p] \o held[p] \in Bytes
        BY <1>0, CatIs
      <4>2. IsPrefix(got[p] \o held[p], Due(p) \o d)
        BY <4>1, <3>1, <3>6, <1>0, PrefixGrows DEF Streaming
      <4>3. pc[p] = "open" => got[p] \o (held[p] \o (wire[e] \o d)) = Due(p) \o d
        <5> SUFFICES ASSUME pc[p] = "open"
                     PROVE  got[p] \o (held[p] \o (wire[e] \o d)) = Due(p) \o d
          OBVIOUS
        <5>1. got[p] \o (held[p] \o wire[e]) = Due(p)
          BY <3>6, <1>0 DEF Streaming
        <5>0. held[p] \in Bytes /\ wire[e] \in Bytes /\ got[p] \in Bytes /\ d \in Bytes
          BY <1>0
        <5>2. held[p] \o (wire[e] \o d) = (held[p] \o wire[e]) \o d
          <6> HIDE DEF p
          <6> QED BY <5>0, Assoc
        <5>3. held[p] \o wire[e] \in Bytes
          BY <1>0, CatIs
        <5>4. got[p] \o ((held[p] \o wire[e]) \o d) = (got[p] \o (held[p] \o wire[e])) \o d
          <6>1. got[p] \in Bytes /\ d \in Bytes
            BY <5>0
          <6> QED BY <6>1, <5>3, Assoc
        <5> QED BY <5>1, <5>2, <5>4
      <4>4. Streaming(p)'
        BY <4>2, <4>3, <3>2, <1>0, <1>1, <1>3 DEF Streaming
      <4> QED BY <4>4 DEF Carried
    <3> QED BY <3>4, <3>5, <3>6 DEF Carried
  <2> QED BY <2>1, <2>2, <1>0 DEF Streams
<1>12. HandshakeAgrees' /\ ServedUnlessCut'
  BY <1>1, <1>2 DEF ShakeInv, HandshakeAgrees, ServedUnlessCut
<1> QED BY <1>7, <1>8, <1>9, <1>10, <1>11, <1>12 DEF ShakeInv

(* A user reads: first what the connection holds, then what is on its way. *)
LEMMA UserReadStep ==
    ASSUME ShakeInv, NEW e \in Ends, UserRead(e)
    PROVE  ShakeInv'
<1> DEFINE p == Peer(e)
<1>0. /\ Typed /\ p \in Ends /\ p # e /\ Peer(p) = e /\ Ends = {e, p}
      /\ wire[p] \in Bytes /\ got[e] \in Bytes /\ held[e] \in Bytes
      /\ pc[e] = "open"
  <2>1. Typed /\ pc[e] = "open"
    BY DEF ShakeInv, UserRead
  <2>2. /\ p \in Ends /\ p # e /\ Peer(p) = e /\ Ends = {e, p}
    BY EndsAre
  <2>3. /\ wire[p] \in Bytes /\ got[e] \in Bytes /\ held[e] \in Bytes
    BY <2>1, EndIn
  <2> QED BY <2>1, <2>2, <2>3
<1>1. /\ UNCHANGED config /\ sent' = sent
      /\ pc' = pc /\ fin' = fin /\ buf' = buf /\ glued' = glued
      /\ first' = first /\ vetoed' = vetoed /\ returned' = returned /\ parsed' = parsed
  BY DEF UserRead, history
<1>2. /\ proto' = proto /\ kind' = kind /\ opening' = opening /\ target' = target
      /\ Request' = Request /\ WellFormed' = WellFormed /\ Answered' = Answered
  BY <1>1, ConfigKept, AnsweredKept
<1>3. \A d \in Ends : Sent(d)' = Sent(d) /\ Due(d)' = Due(d) /\ Spoilt(d)' = Spoilt(d)
  BY <1>1, <1>2 DEF Sent, Due, Spoilt
<1>4. /\ got' \in [Ends -> Bytes] /\ held' \in [Ends -> Bytes] /\ wire' \in [Ends -> Bytes]
      /\ got'[p] = got[p] /\ held'[p] = held[p] /\ wire'[e] = wire[e]
      /\ got'[e] \o (held'[e] \o wire'[p]) = got[e] \o (held[e] \o wire[p])
      /\ wire[p] = <<>> => wire'[p] = <<>>
  <2>1. CASE held[e] # <<>>
    <3>1. /\ got' = [got EXCEPT ![e] = @ \o held[e]] /\ held' = [held EXCEPT ![e] = <<>>]
          /\ wire' = wire
      BY <2>1 DEF UserRead
    <3>2. got[e] \o held[e] \in Bytes /\ <<>> \in Bytes
      BY <1>0, CatIs, EmptyIs
    <3>3. /\ got' \in [Ends -> Bytes] /\ held' \in [Ends -> Bytes] /\ wire' \in [Ends -> Bytes]
          /\ got'[p] = got[p] /\ held'[p] = held[p] /\ wire'[e] = wire[e] /\ wire'[p] = wire[p]
          /\ got'[e] = got[e] \o held[e] /\ held'[e] = <<>>
      <4> HIDE DEF p
      <4> QED BY <1>0, <3>1, <3>2 DEF Typed
    <3>4. (got[e] \o held[e]) \o (<<>> \o wire[p]) = got[e] \o (held[e] \o wire[p])
      <4>1. <<>> \o wire[p] = wire[p]
        BY <1>0, EmptyIs
      <4>2. (got[e] \o held[e]) \o wire[p] = got[e] \o (held[e] \o wire[p])
        <5>1. got[e] \in Bytes /\ held[e] \in Bytes /\ wire[p] \in Bytes
          BY <1>0
        <5> QED BY <5>1, Assoc
      <4> QED BY <4>1, <4>2
    <3> QED BY <3>3, <3>4
  <2>2. CASE held[e] = <<>>
    <3>1. PICK k \in 1 .. Len(wire[p]) :
              /\ got' = [got EXCEPT ![e] = @ \o SubSeq(wire[p], 1, k)]
              /\ Exchange(e, k, <<>>)
      BY <2>2 DEF UserRead
    <3>2. held' = held /\ wire' = [wire EXCEPT ![p] = Drop(@, k), ![e] = @ \o <<>>]
      BY <2>2, <3>1 DEF UserRead, Exchange
    <3>3. /\ Drop(wire[p], k) \in Bytes /\ got[e] \o SubSeq(wire[p], 1, k) \in Bytes
          /\ (got[e] \o SubSeq(wire[p], 1, k)) \o Drop(wire[p], k) = got[e] \o wire[p]
      <4>1. got[e] \in Bytes /\ wire[p] \in Bytes
        BY <1>0
      <4> HIDE DEF p
      <4> QED BY <4>1, ReadOn
    <3>4. wire[e] \o <<>> = wire[e] /\ wire[e] \in Bytes
      BY <1>0, EndIn, EmptyIs
    <3>5. /\ got' \in [Ends -> Bytes] /\ held' \in [Ends -> Bytes] /\ wire' \in [Ends -> Bytes]
          /\ got'[p] = got[p] /\ held'[p] = held[p] /\ held'[e] = <<>> /\ wire'[e] = wire[e]
          /\ got'[e] = got[e] \o SubSeq(wire[p], 1, k) /\ wire'[p] = Drop(wire[p], k)
      <4> HIDE DEF p
      <4> QED BY <1>0, <2>2, <3>1, <3>2, <3>3, <3>4 DEF Typed
    <3>6. wire[p] # <<>>
      BY EmptyIs
    <3>7. <<>> \o wire[p] = wire[p] /\ <<>> \o Drop(wire[p], k) = Drop(wire[p], k)
      BY <1>0, <3>3, EmptyIs
    <3> QED BY <2>2, <3>3, <3>5, <3>6, <3>7
  <2> QED BY <2>1, <2>2
<1>5. In(p)' = In(p)
  BY <1>0, <1>1, <1>4, InKept
<1> HIDE DEF p
<1>6. Typed'
  BY <1>0, <1>1, <1>2, <1>4 DEF Typed
<1>7. Placed' /\ Ordered' /\ Unopened'
  <2>1. Placed' /\ Unopened'
    BY <1>0, <1>1, <1>2, <1>4 DEF ShakeInv, Placed, Unopened
  <2>2. Ordered'
    <3>1. CASE e = "client"
      <4>1. p = "server"
        BY <3>1, EndsAre DEF p
      <4> QED BY <3>1, <4>1, <1>0, <1>1, <1>2, <1>4 DEF ShakeInv, Ordered
    <3>2. CASE e = "server"
      <4>1. p = "client"
        BY <3>2, EndsAre DEF p
      <4> QED BY <3>2, <4>1, <1>0, <1>1, <1>2, <1>4 DEF ShakeInv, Ordered
    <3> QED BY <3>1, <3>2, EndsAre
  <2> QED BY <2>1, <2>2
<1>8. SocksInv'
  <2> SUFFICES ASSUME proto = "socks" PROVE SocksServerIn' /\ SocksClientIn'
    BY <1>2 DEF SocksInv
  <2>0. SocksServerIn /\ SocksClientIn
    BY DEF ShakeInv, SocksInv
  <2>1. CASE e = "client"
    <3>1. p = "server"
      BY <2>1, EndsAre DEF p
    <3>2. SocksServerIn'
      BY <2>0, <2>1, <3>1, <1>0, <1>1, <1>2, <1>3, <1>4, <1>5 DEF SocksServerIn, Waits, AsksLater
    <3>3. SocksClientIn'
      BY <2>0, <2>1, <3>1, <1>0, <1>1, <1>2 DEF SocksClientIn, Waits, Supported
    <3> QED BY <3>2, <3>3
  <2>2. CASE e = "server"
    <3>1. p = "client"
      BY <2>2, EndsAre DEF p
    <3>2. SocksServerIn'
      BY <2>2, <1>0, <1>1 DEF SocksServerIn
    <3>3. SocksClientIn'
      BY <2>0, <2>2, <3>1, <1>0, <1>1, <1>2, <1>3, <1>5 DEF SocksClientIn, Waits, Supported
    <3> QED BY <3>2, <3>3
  <2> QED BY <2>1, <2>2, EndsAre
<1>9. HttpInv'
  <2> SUFFICES ASSUME proto = "http" PROVE HttpServerIn' /\ HttpClientIn'
    BY <1>2 DEF HttpInv
  <2>0. HttpServerIn /\ HttpClientIn
    BY DEF ShakeInv, HttpInv
  <2>1. CASE e = "client"
    <3>1. p = "server"
      BY <2>1, EndsAre DEF p
    <3>2. HttpServerIn'
      BY <2>0, <2>1, <3>1, <1>0, <1>1, <1>2, <1>3, <1>5 DEF HttpServerIn
    <3>3. HttpClientIn'
      BY <2>0, <2>1, <3>1, <1>0, <1>1, <1>2 DEF HttpClientIn
    <3> QED BY <3>2, <3>3
  <2>2. CASE e = "server"
    <3>1. p = "client"
      BY <2>2, EndsAre DEF p
    <3>2. HttpServerIn'
      BY <2>2, <1>0, <1>1 DEF HttpServerIn
    <3>3. HttpClientIn'
      BY <2>0, <2>2, <3>1, <1>0, <1>1, <1>2, <1>3, <1>5 DEF HttpClientIn
    <3> QED BY <3>2, <3>3
  <2> QED BY <2>1, <2>2, EndsAre
<1>10. Streams'
  <2>1. Carried(p)'
    <3>1. Carried(p) /\ Peer(p) = e
      BY <1>0 DEF ShakeInv, Streams
    <3> QED BY <3>1, <1>0, <1>1, <1>3, <1>4 DEF Carried, Streaming
  <2>2. Carried(e)'
    <3>1. CASE Spoilt(e)
      BY <3>1, <1>3 DEF Carried
    <3>2. CASE Streaming(e)
      <4>1. got[e] \o (held[e] \o wire[p]) = Due(e)
        BY <3>2, <1>0 DEF Streaming, p
      <4>2. got'[e] \o (held'[e] \o wire'[p]) = Due(e)'
        BY <4>1, <1>3, <1>4
      <4>3. got'[e] \in Bytes /\ held'[e] \in Bytes /\ wire'[p] \in Bytes
        BY <1>0, <1>4
      <4>4. got'[e] \o held'[e] \in Bytes
        BY <4>3, CatIs
      <4>5. (got'[e] \o held'[e]) \o wire'[p] = got'[e] \o (held'[e] \o wire'[p])
        BY <4>3, Assoc
      <4>6. IsPrefix(got'[e] \o held'[e], (got'[e] \o held'[e]) \o wire'[p])
        BY <4>3, <4>4, PrefixOf
      <4>7. IsPrefix(got'[e] \o held'[e], Due(e)')
        BY <4>2, <4>5, <4>6
      <4> QED BY <4>2, <4>7 DEF Carried, Streaming, p
    <3>3. Carried(e)
      BY DEF ShakeInv, Streams
    <3> QED BY <3>1, <3>2, <3>3 DEF Carried
  <2> QED BY <2>1, <2>2, <1>0 DEF Streams
<1>11. HandshakeAgrees' /\ ServedUnlessCut'
  BY <1>1, <1>2 DEF ShakeInv, HandshakeAgrees, ServedUnlessCut
<1> QED BY <1>6, <1>7, <1>8, <1>9, <1>10, <1>11 DEF ShakeInv

-----------------------------------------------------------------------------
(* The theorems                                                            *)

LEMMA ShakeStep ==
    ASSUME ShakeInv, [ShakeNext]_proxyVars
    PROVE  ShakeInv'
<1>1. CASE Acceptor
  <2>1. CASE SocksRead
    <3>1. pc["server"] \in {"greeting", "request"}
      BY <2>1 DEF SocksRead
    <3> QED BY <2>1, <3>1, GreetingStep, RequestStep
  <2> QED BY <1>1, <2>1, AcceptSocksStep, AnswerSocksStep, AcceptHttpStep, ReadHttpStep, ReturnHttpStep
          DEF Acceptor
<1>2. CASE Client
  BY <1>2, DialSocksStep, ClientSocksStep, DialHttpStep, ClientHttpStep DEF Client
<1>3. CASE Timeout
  BY <1>3, EndingStep, EndsAre
<1>4. ASSUME NEW e \in Ends, UserSend(e) \/ UserRead(e) \/ Leave(e) \/ Fails(e) PROVE ShakeInv'
  BY <1>4, UserSendStep, UserReadStep, EndingStep
<1>5. CASE UNCHANGED proxyVars
  BY <1>5, StutterStep
<1> QED BY <1>1, <1>2, <1>3, <1>4, <1>5 DEF ShakeNext

(* What the two sides have read, hold and have on their way, and where     *)
(* each of them is, belong together in every reachable state.              *)
THEOREM HandshakeInvariant == ShakeSpec => []ShakeInv
<1>1. ShakeInit => ShakeInv
  BY InitStep
<1>2. ShakeInv /\ [ShakeNext]_proxyVars => ShakeInv'
  BY ShakeStep
<1> QED BY <1>1, <1>2, PTL DEF ShakeSpec

(* The users of a proxied connection read what was written, in order and   *)
(* without a byte of the handshake, however the acceptor's and the client's *)
(* Reads cut it, for every target and every amount of data; the two places *)
(* where the code loses or pads bytes are named in StreamKept.             *)
THEOREM HandshakeKeepsStream == ShakeSpec => []StreamKept
<1>1. ShakeInv => StreamKept
  BY DEF ShakeInv, Streams, Carried, Streaming, StreamKept
<1> QED BY <1>1, HandshakeInvariant, PTL

(* What Handshake returned and what DialWithTimeout returned agree: the    *)
(* address, and that the proxy took the connection.                        *)
THEOREM HandshakesAgree == ShakeSpec => []HandshakeAgrees
<1>1. ShakeInv => HandshakeAgrees
  BY DEF ShakeInv
<1> QED BY <1>1, HandshakeInvariant, PTL

(* SocksAcceptor turns away no client that speaks its protocol, but one    *)
(* whose greeting the first Read cut.                                      *)
THEOREM HandshakeServes == ShakeSpec => []ServedUnlessCut
<1>1. ShakeInv => ServedUnlessCut
  BY DEF ShakeInv
<1> QED BY <1>1, HandshakeInvariant, PTL

LEMMA SentStep ==
    ASSUME ShakeInv, sent["client"] + sent["server"] <= MaxData, [ShakeNext]_proxyVars
    PROVE  sent'["client"] + sent'["server"] <= MaxData
<1>0. /\ sent \in [Ends -> Nat] /\ Ends = {"client", "server"} /\ MaxData \in Nat
  BY DataAssumption DEF ShakeInv, Typed, Ends
<1>1. CASE Acceptor
  <2>1. UNCHANGED userVars
    BY <1>1 DEF Acceptor, SocksAccept, SocksRead, SocksAnswer, HttpAccept, HttpRead, HttpReturn
  <2> QED BY <2>1 DEF userVars
<1>2. CASE Client
  <2>1. UNCHANGED userVars
    BY <1>2 DEF Client, SocksDial, SocksClientRead, HttpDial, HttpClientRead
  <2> QED BY <2>1 DEF userVars
<1>3. CASE Timeout
  BY <1>3 DEF Timeout, userVars
<1>4. ASSUME NEW e \in Ends, UserSend(e)
      PROVE  sent'["client"] + sent'["server"] <= MaxData
  <2>1. /\ sent["client"] + sent["server"] < MaxData
        /\ sent' = [sent EXCEPT ![e] = @ + 1]
    BY <1>4 DEF UserSend
  <2> QED BY <1>0, <2>1
<1>5. ASSUME NEW e \in Ends, UserRead(e) \/ Leave(e) \/ Fails(e)
      PROVE  sent' = sent
  BY <1>5 DEF UserRead, Leave, Fails, userVars
<1>6. CASE UNCHANGED proxyVars
  BY <1>6 DEF proxyVars, userVars
<1> QED BY <1>1, <1>2, <1>3, <1>4, <1>5, <1>6 DEF ShakeNext

(* Whatever is read, kept or on its way is a stream of bytes, each side is *)
(* in a place of its handshake, and no user sends more than MaxData.       *)
THEOREM HandshakeTypeCorrect == ShakeSpec => []ShakeTypeOK
<1> DEFINE Bounded == sent["client"] + sent["server"] <= MaxData
<1>1. ShakeInit => Bounded
  BY DataAssumption DEF ShakeInit, ConnInit, Ends
<1>2. ShakeInv /\ Bounded /\ [ShakeNext]_proxyVars => Bounded'
  BY SentStep
<1>3. ASSUME ShakeInv, Bounded PROVE ShakeTypeOK
  <2>1. Typed /\ Placed
    BY <1>3 DEF ShakeInv
  <2>2. /\ pc["client"] \in {"start", "method", "answer", "response", "open", "closed"}
        /\ pc["server"] \in {"start", "greeting", "request", "hook", "header", "host",
                             "open", "closed", "crashed"}
    BY <2>1 DEF Placed
  <2>3. \A e \in Ends : sent[e] \in 0 .. MaxData
    BY <1>3, <2>1, DataAssumption DEF Typed, Ends
  <2> QED BY <2>1, <2>2, <2>3 DEF Typed, Bytes, ShakeTypeOK
<1>4. ShakeSpec => []Bounded
  <2> HIDE DEF Bounded
  <2> QED BY <1>1, <1>2, HandshakeInvariant, PTL DEF ShakeSpec
<1> HIDE DEF Bounded
<1> QED BY <1>3, <1>4, HandshakeInvariant, PTL

-----------------------------------------------------------------------------
(* The accept loop: every connection is returned once at most              *)

Distinct(s) == \A i, j \in 1 .. Len(s) : s[i] = s[j] /\ s[i] # None => i = j

(* Whoever is given or in the channel is done and open: a Close of a       *)
(* padded connection leaves it so.                                         *)
Out(s) == \A i \in 1 .. Len(s) :
              s[i] # None => at[s[i]] = "done" /\ (s[i] \notin closed \/ padded)

(* No connection is both given and in the channel.                         *)
Disjoint == \A i \in 1 .. Len(given), j \in 1 .. Len(connectionList) :
                given[i] # connectionList[j]

ResultInv == /\ Distinct(given) /\ Distinct(connectionList) /\ Disjoint
             /\ Out(given) /\ Out(connectionList)

(* A closed connection is past its close, or was closed for a failed mix   *)
(* and cannot finish its handshake; deliver has an open one.               *)
ClosedInv ==
    \A c \in closed : \/ at[c] \in {"handshake", "fail", "close", "done"}
                      \/ (padded /\ at[c] = "deliver")

IInv == TypeOK /\ ResultInv /\ ClosedInv

USE BoundAssumption, NoneAssumption

(* A step that leaves the results alone, moves no connection that is done  *)
(* and closes none that is.                                                *)
LEMMA ResultsRest ==
    ASSUME IInv, UNCHANGED <<connectionList, given, padded>>,
           \A c \in Conns : at[c] = "done" => at'[c] = "done" /\ (c \in closed' => c \in closed)
    PROVE  ResultInv'
<1>1. Distinct(given)' /\ Distinct(connectionList)' /\ Disjoint'
  BY DEF IInv, ResultInv, Distinct, Disjoint
<1>2. \A i \in 1 .. Len(given) : given[i] \in Conns
  BY DEF IInv, TypeOK
<1>3. \A i \in 1 .. Len(connectionList) : connectionList[i] \in Conns \cup {None}
  BY DEF IInv, TypeOK
<1>4. Out(given)'
  BY <1>2 DEF IInv, ResultInv, Out
<1>5. Out(connectionList)'
  BY <1>3 DEF IInv, ResultInv, Out
<1> QED BY <1>1, <1>4, <1>5 DEF ResultInv

(* An error in the channel is nobody's connection.                         *)
LEMMA ErrorSent ==
    ASSUME IInv, Send(None), given' = given, closed' = closed, padded' = padded,
           \A c \in Conns : at[c] = "done" => at'[c] = "done"
    PROVE  /\ ResultInv' /\ connectionList' \in Seq(Conns \cup {None})
           /\ Len(connectionList') <= QueueCap
<1>1. /\ connectionList \in Seq(Conns \cup {None}) /\ given \in Seq(Conns)
      /\ Len(connectionList) < QueueCap /\ connectionList' = Append(connectionList, None)
  BY DEF IInv, TypeOK, Send
<1>2. /\ connectionList' \in Seq(Conns \cup {None})
      /\ Len(connectionList') = Len(connectionList) + 1
      /\ connectionList'[Len(connectionList) + 1] = None
      /\ \A i \in 1 .. Len(connectionList) : connectionList'[i] = connectionList[i]
  BY <1>1
<1>3. \A i \in 1 .. Len(connectionList') :
          connectionList'[i] # None => i \in 1 .. Len(connectionList)
  BY <1>1, <1>2
<1>4. Distinct(connectionList)'
  BY <1>1, <1>2, <1>3 DEF IInv, ResultInv, Distinct
<1>5. Disjoint'
  <2> SUFFICES ASSUME NEW i \in 1 .. Len(given), NEW j \in 1 .. Len(connectionList')
               PROVE  given[i] # connectionList'[j]
    BY DEF Disjoint
  <2>1. given[i] # None
    BY <1>1
  <2> QED BY <1>2, <1>3, <2>1 DEF IInv, ResultInv, Disjoint
<1>6. Out(connectionList)'
  <2> SUFFICES ASSUME NEW i \in 1 .. Len(connectionList'), connectionList'[i] # None
               PROVE  /\ at'[connectionList'[i]] = "done"
                      /\ connectionList'[i] \notin closed \/ padded
    BY DEF Out
  <2>1. i \in 1 .. Len(connectionList) /\ connectionList'[i] = connectionList[i]
    BY <1>2, <1>3
  <2>2. connectionList[i] \in Conns
    BY <1>1, <2>1
  <2> QED BY <2>1, <2>2 DEF IInv, ResultInv, Out
<1>7. Out(given)' /\ Distinct(given)'
  BY <1>1 DEF IInv, ResultInv, Out, Distinct
<1> QED BY <1>1, <1>2, <1>4, <1>5, <1>6, <1>7 DEF ResultInv

(* deliver: a connection that is in no result yet.                         *)
LEMMA DeliverStep == ASSUME IInv, NEW c \in Conns, Deliver(c) PROVE IInv'
<1>1. /\ connectionList \in Seq(Conns \cup {None}) /\ given \in Seq(Conns)
      /\ Len(connectionList) < QueueCap /\ connectionList' = Append(connectionList, c)
      /\ given' = given /\ closed' = closed /\ padded' = padded
      /\ at[c] = "deliver" /\ at' = [at EXCEPT ![c] = "done"] /\ c # None
      /\ at \in [Conns -> {"new", "mix", "mixerr", "handshake", "deliver", "fail", "close",
                           "done"}]
  BY DEF IInv, TypeOK, Send, Deliver, Goto
<1>2. /\ connectionList' \in Seq(Conns \cup {None})
      /\ Len(connectionList') = Len(connectionList) + 1
      /\ connectionList'[Len(connectionList) + 1] = c
      /\ \A i \in 1 .. Len(connectionList) : connectionList'[i] = connectionList[i]
  BY <1>1
<1>3. (c \notin closed \/ padded) /\ at'[c] = "done"
  BY <1>1 DEF IInv, ClosedInv
<1>4. /\ \A i \in 1 .. Len(given) : given[i] \in Conns /\ given[i] # c
      /\ \A i \in 1 .. Len(connectionList) : /\ connectionList[i] \in Conns \cup {None}
                                             /\ connectionList[i] # c
  BY <1>1 DEF IInv, ResultInv, Out
<1>5. Distinct(connectionList)'
  <2> SUFFICES ASSUME NEW i \in 1 .. Len(connectionList'), NEW j \in 1 .. Len(connectionList'),
                      connectionList'[i] = connectionList'[j], connectionList'[i] # None
               PROVE  i = j
    BY DEF Distinct
  <2>1. /\ i \in 1 .. Len(connectionList) \/ i = Len(connectionList) + 1
        /\ j \in 1 .. Len(connectionList) \/ j = Len(connectionList) + 1
    BY <1>1, <1>2
  <2> QED BY <1>2, <1>4, <2>1 DEF IInv, ResultInv, Distinct
<1>6. Disjoint'
  <2> SUFFICES ASSUME NEW i \in 1 .. Len(given), NEW j \in 1 .. Len(connectionList')
               PROVE  given[i] # connectionList'[j]
    BY <1>1 DEF Disjoint
  <2>1. j \in 1 .. Len(connectionList) \/ j = Len(connectionList) + 1
    BY <1>1, <1>2
  <2> QED BY <1>2, <1>4, <2>1 DEF IInv, ResultInv, Disjoint
<1>7. Out(connectionList)'
  <2> SUFFICES ASSUME NEW i \in 1 .. Len(connectionList'), connectionList'[i] # None
               PROVE  /\ at'[connectionList'[i]] = "done"
                      /\ connectionList'[i] \notin closed \/ padded
    BY <1>1 DEF Out
  <2>1. CASE i = Len(connectionList) + 1
    BY <1>2, <1>3, <2>1
  <2>2. CASE i \in 1 .. Len(connectionList)
    BY <1>1, <1>2, <1>4, <2>2 DEF IInv, ResultInv, Out
  <2> QED BY <1>1, <1>2, <2>1, <2>2
<1>8. Out(given)' /\ Distinct(given)'
  BY <1>1, <1>4 DEF IInv, ResultInv, Out, Distinct
<1>9. TypeOK'
  BY <1>1, <1>2 DEF Deliver, IInv, TypeOK
<1>10. ClosedInv'
  BY <1>1 DEF IInv, ClosedInv
<1> QED BY <1>5, <1>6, <1>7, <1>8, <1>9, <1>10 DEF IInv, ResultInv

(* Accept moves the head of the channel to the end of what is given.       *)
LEMMA AcceptStep == ASSUME IInv, Accept PROVE IInv'
<1>1. /\ connectionList \in Seq(Conns \cup {None}) /\ given \in Seq(Conns)
      /\ connectionList # <<>> /\ connectionList' = Tail(connectionList)
      /\ at' = at /\ closed' = closed /\ padded' = padded
  BY DEF IInv, TypeOK, Accept
<1>2. /\ Len(connectionList) \in Nat \ {0} /\ Len(connectionList') = Len(connectionList) - 1
      /\ connectionList' \in Seq(Conns \cup {None})
      /\ \A i \in 1 .. Len(connectionList') :
             i + 1 \in 1 .. Len(connectionList) /\ connectionList'[i] = connectionList[i + 1]
      /\ Head(connectionList) = connectionList[1] /\ 1 \in 1 .. Len(connectionList)
  BY <1>1
<1>3. Distinct(connectionList)' /\ Out(connectionList)'
  BY <1>1, <1>2 DEF IInv, ResultInv, Distinct, Out
<1>4. CASE Head(connectionList) = None
  <2>1. given' = given
    BY <1>4 DEF Accept
  <2>2. Distinct(given)' /\ Out(given)' /\ Disjoint'
    BY <1>1, <1>2, <2>1 DEF IInv, ResultInv, Distinct, Out, Disjoint
  <2>3. TypeOK' /\ ClosedInv'
    BY <1>1, <1>2, <2>1 DEF Accept, IInv, TypeOK, ClosedInv
  <2> QED BY <1>3, <2>2, <2>3 DEF IInv, ResultInv
<1>5. CASE Head(connectionList) # None
  <2> DEFINE c == connectionList[1]
  <2>1. /\ c \in Conns /\ given' = Append(given, c)
        /\ given' \in Seq(Conns) /\ Len(given') = Len(given) + 1
        /\ given'[Len(given) + 1] = c
        /\ \A i \in 1 .. Len(given) : given'[i] = given[i]
        /\ \A i \in 1 .. Len(given') : i \in 1 .. Len(given) \/ i = Len(given) + 1
    BY <1>1, <1>2, <1>5 DEF Accept
  <2>2. \A i \in 1 .. Len(given) : given[i] # c
    BY <1>2 DEF IInv, ResultInv, Disjoint
  <2>3. \A i \in 1 .. Len(connectionList') : connectionList'[i] # c
    BY <1>2, <1>5 DEF IInv, ResultInv, Distinct
  <2>4. Distinct(given)'
    BY <2>1, <2>2 DEF IInv, ResultInv, Distinct
  <2>5. Out(given)'
    BY <1>1, <1>2, <1>5, <2>1 DEF IInv, ResultInv, Out
  <2>6. Disjoint'
    BY <1>2, <2>1, <2>3 DEF IInv, ResultInv, Disjoint
  <2>7. Len(connectionList') <= QueueCap
    BY <1>2 DEF IInv, TypeOK
  <2>8. given' \in Seq(Conns)
    BY <2>1
  <2>9. TypeOK' /\ ClosedInv'
    <3>1. UNCHANGED <<relay, padded, loop, errors, orphan, crashed>>
      BY DEF Accept
    <3>2. ClosedInv'
      BY <1>1 DEF IInv, ClosedInv
    <3>3. connectionList' \in Seq(Conns \cup {None})
      BY <1>2
    <3>4. TypeOK'
      BY <1>1, <2>7, <2>8, <3>1, <3>3, Zenon DEF IInv, TypeOK
    <3> QED BY <3>2, <3>4
  <2> QED BY <1>3, <2>4, <2>5, <2>6, <2>9 DEF IInv, ResultInv
<1> QED BY <1>4, <1>5

(* The listener's goroutine                                                *)
LEMMA ListenerStep ==
    ASSUME IInv, ListenerFails \/ ReportError \/ OrphanRuns PROVE IInv'
<1>1. CASE ListenerFails \/ OrphanRuns
  <2>1. errors' \in 0 .. MaxErrors
    BY <1>1 DEF ListenerFails, OrphanRuns, IInv, TypeOK
  <2>2. TypeOK' /\ ClosedInv'
    BY <1>1, <2>1, Zenon DEF ListenerFails, OrphanRuns, IInv, TypeOK, ClosedInv
  <2>3. ResultInv'
    BY <1>1, ResultsRest DEF ListenerFails, OrphanRuns
  <2> QED BY <2>2, <2>3 DEF IInv
<1>2. CASE ReportError
  <2>1. /\ ResultInv' /\ connectionList' \in Seq(Conns \cup {None})
        /\ Len(connectionList') <= QueueCap
    BY <1>2, ErrorSent DEF ReportError
  <2>2. TypeOK' /\ ClosedInv'
    BY <1>2, <2>1 DEF ReportError, IInv, TypeOK, ClosedInv
  <2> QED BY <2>1, <2>2 DEF IInv
<1> QED BY <1>1, <1>2

(* The steps of a connection's goroutine that send nothing                 *)
LEMMA QuietStep ==
    ASSUME IInv, NEW c \in Conns,
           ListenerAccepts(c) \/ MixOk(c) \/ MixClose(c) \/ HandshakeOk(c)
               \/ HandshakeFails(c) \/ RedirectPanics(c) \/ Close(c)
    PROVE  IInv'
<1> USE DEF ListenerAccepts, MixOk, MixClose, HandshakeOk, HandshakeFails,
            RedirectPanics, Close, Goto
<1>1. TypeOK'
  BY DEF IInv, TypeOK
<1>2. ClosedInv'
  BY DEF IInv, TypeOK, ClosedInv
<1>3. ResultInv'
  <2>1. \A d \in Conns : at[d] = "done" => at'[d] = "done" /\ (d \in closed' => d \in closed)
    BY DEF IInv, TypeOK
  <2> QED BY <2>1, ResultsRest
<1> QED BY <1>1, <1>2, <1>3 DEF IInv

LEMMA ErrorStep == ASSUME IInv, NEW c \in Conns, MixFails(c) \/ Fail(c) PROVE IInv'
<1>1. \A d \in Conns : at[d] = "done" => at'[d] = "done"
  BY DEF MixFails, Fail, Goto, IInv, TypeOK
<1>2. /\ ResultInv' /\ connectionList' \in Seq(Conns \cup {None})
      /\ Len(connectionList') <= QueueCap
  BY <1>1, ErrorSent DEF MixFails, Fail
<1>3. TypeOK' /\ ClosedInv'
  BY <1>2 DEF MixFails, Fail, Goto, IInv, TypeOK, ClosedInv
<1> QED BY <1>2, <1>3 DEF IInv

LEMMA InitIInv == Init => IInv
<1> SUFFICES ASSUME Init PROVE IInv
  OBVIOUS
<1>1. /\ connectionList \in Seq(Conns \cup {None}) /\ Len(connectionList) = 0
      /\ given \in Seq(Conns) /\ Len(given) = 0
  BY DEF Init
<1>2. at \in [Conns -> {"new", "mix", "mixerr", "handshake", "deliver", "fail", "close", "done"}]
  BY DEF Init
<1>3. TypeOK
  <2>1. relay \in BOOLEAN /\ padded \in BOOLEAN /\ orphan \in BOOLEAN /\ crashed \in BOOLEAN /\ loop = "accept"
    BY Zenon DEF Init
  <2>2. errors \in 0 .. MaxErrors /\ closed \subseteq Conns
    BY DEF Init
  <2> QED BY <1>1, <1>2, <2>1, <2>2 DEF TypeOK
<1>4. ResultInv /\ ClosedInv
  BY <1>1 DEF Init, ResultInv, Distinct, Disjoint, Out, ClosedInv
<1> QED BY <1>3, <1>4 DEF IInv

LEMMA NextIInv == IInv /\ [Next]_vars => IInv'
<1> SUFFICES ASSUME IInv, [Next]_vars PROVE IInv'
  OBVIOUS
<1>1. CASE ListenerFails \/ ReportError \/ OrphanRuns
  BY <1>1, ListenerStep
<1>2. CASE Accept
  BY <1>2, AcceptStep
<1>3. ASSUME NEW c \in Conns,
             \/ ListenerAccepts(c) \/ Serve(c) \/ HandshakeOk(c) \/ HandshakeFails(c)
             \/ RedirectPanics(c)
      PROVE  IInv'
  BY <1>3, QuietStep, ErrorStep, DeliverStep DEF Serve
<1>4. CASE UNCHANGED vars
  BY <1>4 DEF vars, IInv, TypeOK, ResultInv, ClosedInv, Distinct, Disjoint, Out
<1> QED BY <1>1, <1>2, <1>3, <1>4 DEF Next

LEMMA Invariance == Spec => []IInv
BY InitIInv, NextIInv, PTL DEF Spec

-----------------------------------------------------------------------------
(* The variables keep their types, and the channel its capacity.           *)
THEOREM TypeCorrect == Spec => []TypeOK
<1>1. IInv => TypeOK
  BY DEF IInv
<1> QED BY <1>1, Invariance, PTL

(* What Accept returned and what waits in the channel: a connection is     *)
(* there once at most, and not when the acceptor shut it or will.          *)
LEMMA OutOnce ==
    ASSUME IInv, NEW c \in Conns
    PROVE  /\ \A i, j \in DOMAIN (given \o connectionList) :
                  (given \o connectionList)[i] = c /\ (given \o connectionList)[j] = c => i = j
           /\ \A i \in DOMAIN (given \o connectionList) :
                  (given \o connectionList)[i] = c => at[c] = "done" /\ (c \notin closed \/ padded)
<1> DEFINE out == given \o connectionList
           g == Len(given)
<1>1. /\ connectionList \in Seq(Conns \cup {None}) /\ given \in Seq(Conns) /\ c # None
      /\ g \in Nat /\ Len(connectionList) \in Nat
  BY DEF IInv, TypeOK
<1>2. \A i \in DOMAIN out :
          \/ i \in 1 .. g /\ out[i] = given[i]
          \/ i - g \in 1 .. Len(connectionList) /\ out[i] = connectionList[i - g] /\ i \in Nat
  BY <1>1
<1>3. ASSUME NEW i \in DOMAIN out, NEW j \in DOMAIN out, out[i] = c, out[j] = c PROVE i = j
  <2>1. CASE i \in 1 .. g /\ out[i] = given[i] /\ j \in 1 .. g /\ out[j] = given[j]
    BY <1>1, <1>3, <2>1 DEF IInv, ResultInv, Distinct
  <2>2. CASE /\ i - g \in 1 .. Len(connectionList) /\ out[i] = connectionList[i - g] /\ i \in Nat
             /\ j - g \in 1 .. Len(connectionList) /\ out[j] = connectionList[j - g] /\ j \in Nat
    <3>1. i - g = j - g
      BY <1>1, <1>3, <2>2 DEF IInv, ResultInv, Distinct
    <3> QED BY <1>1, <2>2, <3>1
  <2>3. CASE /\ i \in 1 .. g /\ out[i] = given[i]
             /\ j - g \in 1 .. Len(connectionList) /\ out[j] = connectionList[j - g]
    BY <1>3, <2>3 DEF IInv, ResultInv, Disjoint
  <2>4. CASE /\ j \in 1 .. g /\ out[j] = given[j]
             /\ i - g \in 1 .. Len(connectionList) /\ out[i] = connectionList[i - g]
    BY <1>3, <2>4 DEF IInv, ResultInv, Disjoint
  <2> QED BY <1>2, <2>1, <2>2, <2>3, <2>4
<1>4. ASSUME NEW i \in DOMAIN out, out[i] = c
      PROVE  at[c] = "done" /\ (c \notin closed \/ padded)
  BY <1>1, <1>2, <1>4 DEF IInv, ResultInv, Out
<1> QED BY <1>3, <1>4

LEMMA AtMostOne == ASSUME NEW S, \A i, j \in S : i = j PROVE Cardinality(S) <= 1
<1>1. CASE S = {}
  <2>1. Cardinality({}) = 0
    BY FS_EmptySet
  <2> QED BY <1>1, <2>1
<1>2. CASE S # {}
  <2>1. PICK x \in S : TRUE
    BY <1>2
  <2>2. S = {x}
    BY <2>1
  <2>3. Cardinality({x}) = 1
    BY FS_Singleton
  <2> QED BY <2>2, <2>3
<1> QED BY <1>1, <1>2

(* RelayAcceptor, SocksAcceptor and HttpAcceptor hand a connection to one  *)
(* handler, and close only those they hand to none; the exception is the   *)
(* Close of a padded connection, which does not close it.                  *)
THEOREM OwnersAreOne == Spec => []OneOwner
<1>1. IInv => OneOwner
  <2> DEFINE out == given \o connectionList
  <2> SUFFICES ASSUME IInv, NEW c \in Conns
               PROVE  /\ Cardinality({k \in DOMAIN out : out[k] = c}) <= 1
                      /\ (c \in closed /\ ~padded) \/ at[c] \in {"fail", "close"} => ~Contains(out, c)
    BY DEF OneOwner
  <2>1. Cardinality({k \in DOMAIN out : out[k] = c}) <= 1
    <3> DEFINE Places == {k \in DOMAIN out : out[k] = c}
    <3>1. \A i, j \in Places : i = j
      BY OutOnce, Zenon
    <3> HIDE DEF Places
    <3>2. Cardinality(Places) <= 1
      BY <3>1, AtMostOne
    <3> QED BY <3>2 DEF Places
  <2>2. (c \in closed /\ ~padded) \/ at[c] \in {"fail", "close"} => ~Contains(out, c)
    <3>1. given \in Seq(Conns \cup {None}) /\ connectionList \in Seq(Conns \cup {None})
      BY DEF IInv, TypeOK
    <3>2. DOMAIN out = 1 .. Len(out)
      BY <3>1
    <3> QED BY <3>2, OutOnce DEF Contains
  <2> QED BY <2>1, <2>2
<1> QED BY <1>1, Invariance, PTL
=============================================================================
