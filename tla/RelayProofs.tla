------------------------------ MODULE RelayProofs ------------------------------
(***************************************************************************)
(* For packets and buffers of any size, and any times: what a user of the  *)
(* relay reads is what the other end's user wrote.                         *)
(***************************************************************************)
EXTENDS Relay, WellFoundedInduction, TLAPS

-----------------------------------------------------------------------------
(* The invariant                                                           *)

AnyUnit == Packet \X (1 .. Size)

(* TypeOK, and the rest of what there is to say of the variables alone      *)
Shape ==
    /\ pc["client"] \in {"dialed", "await", "open", "closed"}
    /\ pc["server"] \in {"read", "redirect", "open", "closed"}
    /\ pc \in [Ends -> {"dialed", "await", "read", "redirect", "open", "closed"}]
    /\ wire \in [Ends -> Seq(AnyUnit)] /\ rbuf \in [Ends -> Seq(AnyUnit)]
    /\ rdbuf \in [Ends -> Seq(1 .. MaxSent)] /\ got \in [Ends -> Seq(1 .. MaxSent)]
    /\ sent \in [Ends -> 0 .. MaxSent] /\ fin \in [Ends -> BOOLEAN] /\ ts \in Times
    /\ \A e \in Ends : Len(rdbuf[e]) < ChunkMax

(* A packet of data carries bytes that follow each other.                  *)
IsData(p) == /\ p.kind = "data" /\ p.ok /\ Len(p.data) \in 1 .. ChunkMax
             /\ \A k \in 1 .. Len(p.data) : p.data[k] = p.data[1] + (k - 1)

(* The last byte sent when p was, and the packet that is sent next         *)
Past(p) == IF p.kind = "data" THEN p.data[Len(p.data)] ELSE 0
Follows(p, base) == IsData(p) /\ p.data[1] = base + 1

(* The units of a packet, and the packets, follow each other, and the last *)
(* is whole.                                                               *)
Run(s, end) ==
    /\ s[1][2] = 1 /\ s[Len(s)][2] = Size
    /\ Past(s[Len(s)][1]) = end
    /\ \A k \in 1 .. Len(s) : Past(s[k][1]) \in 0 .. end
    /\ \A k \in 1 .. Len(s) - 1 :
           IF s[k][2] # Size THEN s[k + 1] = <<s[k][1], s[k][2] + 1>>
           ELSE s[k + 1][2] = 1 /\ Follows(s[k + 1][1], Past(s[k][1]))

(* What e has still to take from its peer                                  *)
Coming(e) == rbuf[e] \o wire[Peer(e)]

(* An open end is about to read the packets after what it has taken.       *)
FlowOf(e) == pc[e] = "open" =>
    IF Coming(e) = <<>> THEN Len(got[e]) + Len(rdbuf[e]) = sent[Peer(e)]
    ELSE Run(Coming(e), sent[Peer(e)]) /\ Follows(Coming(e)[1][1], Len(got[e]) + Len(rdbuf[e]))

FlowInv == \A e \in Ends : FlowOf(e)

(* A client that waits finds the answer in front of the data.              *)
AwaitInv == pc["client"] = "await" =>
    /\ got["client"] = <<>> /\ rdbuf["client"] = <<>> /\ sent["client"] = 0
    /\ pc["server"] = "open" => Coming("client") # <<>>
    /\ Coming("client") # <<>> => /\ Run(Coming("client"), sent["server"])
                                  /\ Coming("client")[1][1].kind = "rsp"

(* Until the server answers there is at most the one packet it waits for.  *)
DialInv ==
    /\ pc["client"] = "dialed" =>
           pc["server"] # "open" /\ wire["client"] = <<>> /\ rbuf["server"] = <<>>
    /\ pc["client"] = "dialed" \/ pc["server"] \in {"read", "redirect"} =>
           /\ pc["client"] # "open" /\ sent["client"] = 0 /\ sent["server"] = 0
           /\ wire["server"] = <<>> /\ rbuf["client"] = <<>>
           /\ \A e \in Ends : got[e] = <<>> /\ rdbuf[e] = <<>>
    /\ pc["server"] = "read" => Len(rbuf["server"]) + Len(wire["client"]) <= Size

(* What was taken is what was sent.                                        *)
GotInv == \A e \in Ends :
    /\ \A k \in DOMAIN got[e] : got[e][k] = k
    /\ \A k \in DOMAIN rdbuf[e] : rdbuf[e][k] = Len(got[e]) + k
    /\ Len(got[e]) + Len(rdbuf[e]) <= sent[Peer(e)]

IInv == Shape /\ FlowInv /\ AwaitInv /\ DialInv /\ GotInv

-----------------------------------------------------------------------------
(* Sequences                                                               *)

LEMMA Joined ==
    ASSUME NEW s \in Seq(AnyUnit), NEW t \in Seq(AnyUnit)
    PROVE  /\ s \o t \in Seq(AnyUnit) /\ Len(s \o t) = Len(s) + Len(t)
           /\ \A k \in 1 .. Len(s) : (s \o t)[k] = s[k]
           /\ \A k \in 1 .. Len(t) : (s \o t)[Len(s) + k] = t[k]
OBVIOUS

LEMMA Cut ==
    ASSUME NEW s \in Seq(AnyUnit), NEW a \in Nat, NEW b \in 0 .. Len(s)
    PROVE  /\ SubSeq(s, a + 1, b) \in Seq(AnyUnit)
           /\ Len(SubSeq(s, a + 1, b)) = IF a <= b THEN b - a ELSE 0
           /\ \A k \in 1 .. b - a : SubSeq(s, a + 1, b)[k] = s[k + a]
OBVIOUS

LEMMA SameSeq ==
    ASSUME NEW s \in Seq(AnyUnit), NEW t \in Seq(AnyUnit), Len(s) = Len(t),
           \A k \in 1 .. Len(s) : s[k] = t[k]
    PROVE  s = t
OBVIOUS

LEMMA EmptySeq ==
    ASSUME NEW s \in Seq(AnyUnit)
    PROVE  s = <<>> <=> Len(s) = 0
OBVIOUS

(* A Read moves units from the stream to the buffer.                       *)
LEMMA TakeKeeps ==
    ASSUME NEW r \in Seq(AnyUnit), NEW w \in Seq(AnyUnit), NEW k \in 1 .. Len(w)
    PROVE  /\ r \o SubSeq(w, 1, k) \in Seq(AnyUnit) /\ SubSeq(w, k + 1, Len(w)) \in Seq(AnyUnit)
           /\ (r \o SubSeq(w, 1, k)) \o SubSeq(w, k + 1, Len(w)) = r \o w
           /\ Len(r \o SubSeq(w, 1, k)) + Len(SubSeq(w, k + 1, Len(w))) = Len(r) + Len(w)
<1> DEFINE x == SubSeq(w, 1, k)
           y == SubSeq(w, k + 1, Len(w))
           g == r \o x
<1>1. /\ x \in Seq(AnyUnit) /\ Len(x) = k
      /\ \A i \in 1 .. k : x[i] = w[i]
  <2>1. 0 \in Nat /\ k \in 0 .. Len(w)
    OBVIOUS
  <2>2. /\ SubSeq(w, 0 + 1, k) \in Seq(AnyUnit)
        /\ Len(SubSeq(w, 0 + 1, k)) = IF 0 <= k THEN k - 0 ELSE 0
        /\ \A i \in 1 .. k - 0 : SubSeq(w, 0 + 1, k)[i] = w[i + 0]
    BY <2>1, Cut
  <2> QED BY <2>2
<1>2. /\ y \in Seq(AnyUnit) /\ Len(y) = Len(w) - k
      /\ \A i \in 1 .. Len(w) - k : y[i] = w[i + k]
  <2>1. k \in Nat /\ Len(w) \in 0 .. Len(w) /\ k <= Len(w)
    OBVIOUS
  <2> QED BY <2>1, Cut
<1> HIDE DEF x, y
<1>3. /\ g \in Seq(AnyUnit) /\ Len(g) = Len(r) + k
      /\ \A i \in 1 .. Len(r) : g[i] = r[i]
      /\ \A i \in 1 .. k : g[Len(r) + i] = x[i]
  <2>1. /\ g \in Seq(AnyUnit) /\ Len(g) = Len(r) + Len(x)
        /\ \A i \in 1 .. Len(r) : g[i] = r[i]
        /\ \A i \in 1 .. Len(x) : g[Len(r) + i] = x[i]
    BY <1>1, Joined
  <2> HIDE DEF g
  <2> QED BY <1>1, <2>1
<1> HIDE DEF g
<1>4. /\ g \o y \in Seq(AnyUnit) /\ Len(g \o y) = Len(r) + Len(w)
      /\ \A i \in 1 .. Len(r) + k : (g \o y)[i] = g[i]
      /\ \A i \in 1 .. Len(w) - k : (g \o y)[Len(r) + k + i] = y[i]
  <2> DEFINE h == g \o y
  <2>1. /\ h \in Seq(AnyUnit) /\ Len(h) = Len(g) + Len(y)
        /\ \A i \in 1 .. Len(g) : h[i] = g[i]
        /\ \A i \in 1 .. Len(y) : h[Len(g) + i] = y[i]
    BY <1>2, <1>3, Joined
  <2> HIDE DEF h
  <2>2. Len(r) \in Nat /\ Len(w) \in Nat /\ k \in Nat
    OBVIOUS
  <2>3. Len(h) = Len(r) + Len(w)
    BY <1>2, <1>3, <2>1, <2>2
  <2>4. /\ \A i \in 1 .. Len(r) + k : h[i] = g[i]
        /\ \A i \in 1 .. Len(w) - k : h[Len(r) + k + i] = y[i]
    BY <1>2, <1>3, <2>1, <2>2
  <2> QED BY <2>1, <2>3, <2>4 DEF h
<1>5. /\ r \o w \in Seq(AnyUnit) /\ Len(r \o w) = Len(r) + Len(w)
      /\ \A i \in 1 .. Len(r) : (r \o w)[i] = r[i]
      /\ \A i \in 1 .. Len(w) : (r \o w)[Len(r) + i] = w[i]
  BY Joined
<1> DEFINE h == g \o y
           s == r \o w
<1> HIDE DEF h, s
<1>6. ASSUME NEW i \in 1 .. Len(r) + Len(w) PROVE h[i] = s[i]
  <2>0. Len(r) \in Nat /\ Len(w) \in Nat /\ k \in Nat
    OBVIOUS
  <2>1. CASE i <= Len(r)
    <3>1. i \in 1 .. Len(r) /\ i \in 1 .. Len(r) + k
      BY <2>0, <2>1
    <3> QED BY <1>3, <1>4, <1>5, <3>1 DEF h, s
  <2>2. CASE i > Len(r) /\ i <= Len(r) + k
    <3> DEFINE j == i - Len(r)
    <3>1. j \in 1 .. k /\ j \in 1 .. Len(w) /\ i = Len(r) + j /\ i \in 1 .. Len(r) + k
      BY <2>0, <2>2
    <3> HIDE DEF j
    <3> QED BY <1>1, <1>3, <1>4, <1>5, <3>1 DEF h, s
  <2>3. CASE i > Len(r) + k
    <3> DEFINE j == i - (Len(r) + k)
    <3>1. /\ j \in 1 .. Len(w) - k /\ j + k \in 1 .. Len(w)
          /\ i = Len(r) + k + j /\ i = Len(r) + (j + k)
      BY <2>0, <2>3
    <3> HIDE DEF j
    <3>2. h[Len(r) + k + j] = y[j] /\ y[j] = w[j + k]
      BY <1>2, <1>4, <3>1 DEF h
    <3>3. s[Len(r) + (j + k)] = w[j + k]
      BY <1>5, <3>1 DEF s
    <3> QED BY <3>1, <3>2, <3>3, Zenon
  <2> QED BY <2>0, <2>1, <2>2, <2>3
<1>7. h = s
  <2>1. h \in Seq(AnyUnit) /\ s \in Seq(AnyUnit) /\ Len(h) = Len(s) /\ Len(s) = Len(r) + Len(w)
    BY <1>4, <1>5 DEF h, s
  <2> QED BY <1>6, <2>1, SameSeq
<1>8. Len(g) + Len(y) = Len(r) + Len(w)
  <2>1. Len(r) \in Nat /\ Len(w) \in Nat /\ k \in Nat
    OBVIOUS
  <2> QED BY <1>2, <1>3, <2>1
<1>9. /\ g \in Seq(AnyUnit) /\ y \in Seq(AnyUnit) /\ g \o y = r \o w
      /\ Len(g) + Len(y) = Len(r) + Len(w)
  BY <1>2, <1>3, <1>7, <1>8 DEF h, s
<1> QED BY <1>9 DEF x, y, g

(* What is left of the buffer without its first packet, and the stream     *)
LEMMA RestJoined ==
    ASSUME NEW r \in Seq(AnyUnit), NEW w \in Seq(AnyUnit), Size <= Len(r)
    PROVE  /\ Rest(r) \in Seq(AnyUnit) /\ Rest(r) \o w = Rest(r \o w)
           /\ Rest(r \o w) \in Seq(AnyUnit) /\ Len(Rest(r \o w)) = Len(r \o w) - Size
           /\ \A k \in 1 .. Len(r \o w) - Size : Rest(r \o w)[k] = (r \o w)[k + Size]
<1> DEFINE s == r \o w
           x == SubSeq(r, Size + 1, Len(r))
           y == SubSeq(s, Size + 1, Len(s))
<1>1. /\ s \in Seq(AnyUnit) /\ Len(s) = Len(r) + Len(w)
      /\ \A i \in 1 .. Len(r) : s[i] = r[i]
      /\ \A i \in 1 .. Len(w) : s[Len(r) + i] = w[i]
  BY Joined
<1> HIDE DEF s
<1>2. Size \in Nat /\ Len(r) \in 0 .. Len(r) /\ Len(s) \in 0 .. Len(s) /\ Size <= Len(s)
      /\ Len(r) \in Nat /\ Len(w) \in Nat
  BY <1>1, SizeAssumption
<1>3. /\ x \in Seq(AnyUnit) /\ Len(x) = Len(r) - Size
      /\ \A i \in 1 .. Len(r) - Size : x[i] = r[i + Size]
  BY <1>2, Cut
<1>4. /\ y \in Seq(AnyUnit) /\ Len(y) = Len(s) - Size
      /\ \A i \in 1 .. Len(s) - Size : y[i] = s[i + Size]
  BY <1>1, <1>2, Cut
<1> HIDE DEF x, y
<1> DEFINE h == x \o w
<1>5. /\ h \in Seq(AnyUnit) /\ Len(h) = Len(r) - Size + Len(w)
      /\ \A i \in 1 .. Len(r) - Size : h[i] = x[i]
      /\ \A i \in 1 .. Len(w) : h[Len(r) - Size + i] = w[i]
  <2>1. /\ h \in Seq(AnyUnit) /\ Len(h) = Len(x) + Len(w)
        /\ \A i \in 1 .. Len(x) : h[i] = x[i]
        /\ \A i \in 1 .. Len(w) : h[Len(x) + i] = w[i]
    BY <1>3, Joined
  <2> HIDE DEF h
  <2> QED BY <1>2, <1>3, <2>1
<1> HIDE DEF h
<1>6. ASSUME NEW i \in 1 .. Len(s) - Size PROVE h[i] = y[i]
  <2>1. CASE i <= Len(r) - Size
    <3>1. i \in 1 .. Len(r) - Size /\ i + Size \in 1 .. Len(r)
      BY <1>2, <2>1
    <3> QED BY <1>1, <1>3, <1>4, <1>5, <3>1 DEF h
  <2>2. CASE i > Len(r) - Size
    <3> DEFINE j == i - (Len(r) - Size)
    <3>1. j \in 1 .. Len(w) /\ i = Len(r) - Size + j /\ i + Size = Len(r) + j
      BY <1>1, <1>2, <2>2
    <3> HIDE DEF j
    <3> QED BY <1>1, <1>4, <1>5, <3>1 DEF h
  <2> QED BY <1>2, <2>1, <2>2
<1>7. h = y
  <2>1. h \in Seq(AnyUnit) /\ Len(h) = Len(y) /\ Len(y) = Len(s) - Size
    BY <1>1, <1>2, <1>4, <1>5 DEF h
  <2> QED BY <1>4, <1>5, <1>6, <2>1, SameSeq
<1>8. Rest(r) = x /\ Rest(r \o w) = y
  BY DEF Rest, x, y, s
<1> QED BY <1>3, <1>4, <1>7, <1>8 DEF s, h

LEMMA JoinAssoc ==
    \A s, t, r \in Seq(AnyUnit) : (s \o t) \o r = s \o (t \o r)
OBVIOUS

USE SizeAssumption, BoundAssumption, TimeAssumption

LEMMA UnitsShape ==
    ASSUME NEW p \in Packet
    PROVE  /\ Units(p) \in Seq(AnyUnit) /\ Len(Units(p)) = Size
           /\ \A k \in 1 .. Size : Units(p)[k] = <<p, k>>
BY DEF Units, AnyUnit

LEMMA UnitIs ==
    ASSUME NEW s \in Seq(AnyUnit), NEW k \in 1 .. Len(s)
    PROVE  /\ s[k] = <<s[k][1], s[k][2]>> /\ s[k][1] \in Packet
           /\ s[k][2] \in 1 .. Size
BY DEF AnyUnit

-----------------------------------------------------------------------------
(* Packets and their units                                                 *)

(* What follows the last packet may be put behind it.                      *)
LEMMA RunOn ==
    ASSUME NEW s \in Seq(AnyUnit), NEW p \in Packet, NEW end \in Nat, Follows(p, end),
           s # <<>> => Run(s, end)
    PROVE  /\ s \o Units(p) \in Seq(AnyUnit) /\ s \o Units(p) # <<>>
           /\ Run(s \o Units(p), Past(p)) /\ Past(p) = end + Len(p.data)
           /\ (s \o Units(p))[1] = IF s = <<>> THEN <<p, 1>> ELSE s[1]
<1> DEFINE u == Units(p)
           L == Len(s)
           t == s \o u
<1>1. /\ u \in Seq(AnyUnit) /\ Len(u) = Size
      /\ \A k \in 1 .. Size : u[k] = <<p, k>>
  BY UnitsShape
<1> HIDE DEF u
<1>2. /\ t \in Seq(AnyUnit) /\ Len(t) = L + Size /\ L \in Nat
      /\ \A k \in 1 .. L : t[k] = s[k]
      /\ \A k \in 1 .. Size : t[L + k] = u[k]
  <2>1. /\ t \in Seq(AnyUnit) /\ Len(t) = Len(s) + Len(u)
        /\ \A k \in 1 .. Len(s) : t[k] = s[k]
        /\ \A k \in 1 .. Len(u) : t[Len(s) + k] = u[k]
    BY <1>1, Joined
  <2> HIDE DEF t
  <2> QED BY <1>1, <2>1
<1> HIDE DEF t
<1>3. \A k \in 1 .. Size : t[L + k] = <<p, k>>
  BY <1>1, <1>2
<1>4. s = <<>> <=> L = 0
  BY EmptySeq
<1>5. Past(p) = end + Len(p.data) /\ Past(p) \in Nat /\ end <= Past(p) /\ Len(p.data) \in Nat
  <2>1. /\ Len(p.data) \in 1 .. ChunkMax /\ p.data[1] = end + 1 /\ p.kind = "data"
        /\ \A k \in 1 .. Len(p.data) : p.data[k] = p.data[1] + (k - 1)
    BY DEF Follows, IsData
  <2>2. Len(p.data) \in 1 .. Len(p.data) /\ Len(p.data) \in Nat
    BY <2>1
  <2>3. p.data[Len(p.data)] = (end + 1) + (Len(p.data) - 1)
    BY <2>1, <2>2
  <2> DEFINE m == Len(p.data)
             y == p.data[m]
  <2> HIDE DEF m, y
  <2>4. m \in Nat \ {0} /\ y = (end + 1) + (m - 1) /\ Past(p) = y
    BY <2>1, <2>2, <2>3 DEF Past, m, y
  <2>5. y = end + m /\ y \in Nat /\ end <= y
    BY <2>4
  <2> QED BY <2>2, <2>4, <2>5 DEF m
<1> HIDE DEF L
<1>6. \A k \in 1 .. L + Size : \/ k \in 1 .. L
                               \/ k - L \in 1 .. Size /\ t[k] = <<p, k - L>>
  <2> TAKE k \in 1 .. L + Size
  <2>1. CASE k > L
    <3>1. k - L \in 1 .. Size /\ L + (k - L) = k
      BY <1>2, <2>1
    <3> QED BY <1>3, <3>1
  <2> QED BY <1>2, <2>1
<1>7. t[1][2] = 1 /\ t[1] = IF s = <<>> THEN <<p, 1>> ELSE s[1]
  <2>1. CASE s = <<>>
    <3>1. t[1] = <<p, 1>>
      <4>1. L + 1 = 1 /\ 1 \in 1 .. Size
        BY <1>4, <2>1
      <4> QED BY <1>3, <4>1
    <3> QED BY <2>1, <3>1
  <2>2. CASE s # <<>>
    <3>1. t[1] = s[1]
      BY <1>2, <1>4, <2>2
    <3> QED BY <2>2, <3>1 DEF Run
  <2> QED BY <2>1, <2>2
<1>8. t[Len(t)] = <<p, Size>>
  <2>1. Size \in 1 .. Size
    OBVIOUS
  <2> QED BY <1>2, <1>3, <2>1
<1>9. ASSUME NEW k \in 1 .. Len(t) PROVE Past(t[k][1]) \in 0 .. Past(p)
  <2>1. CASE k \in 1 .. L
    <3>1. s # <<>> /\ t[k] = s[k] /\ s[k] \in AnyUnit
      BY <1>2, <1>4, <2>1 DEF L
    <3>2. Past(s[k][1]) \in 0 .. end
      BY <2>1, <3>1 DEF Run, L
    <3> QED BY <1>5, <3>1, <3>2
  <2>2. CASE t[k] = <<p, k - L>>
    BY <1>5, <2>2
  <2> QED BY <1>2, <1>6, <2>1, <2>2
<1>10. ASSUME NEW k \in 1 .. Len(t) - 1
       PROVE  IF t[k][2] # Size THEN t[k + 1] = <<t[k][1], t[k][2] + 1>>
              ELSE t[k + 1][2] = 1 /\ Follows(t[k + 1][1], Past(t[k][1]))
  <2>1. CASE k < L
    <3>1. k \in 1 .. L /\ k + 1 \in 1 .. L /\ k \in 1 .. L - 1 /\ s # <<>>
      BY <1>2, <1>4, <2>1
    <3>2. t[k] = s[k] /\ t[k + 1] = s[k + 1]
      BY <1>2, <3>1
    <3> QED BY <3>1, <3>2 DEF Run, L
  <2>2. CASE k = L
    <3>1. t[k] = s[L] /\ t[k + 1] = <<p, 1>> /\ s # <<>>
      BY <1>2, <1>3, <1>4, <2>2
    <3>2. s[L][2] = Size /\ Past(s[L][1]) = end
      BY <3>1 DEF Run, L
    <3> QED BY <3>1, <3>2
  <2>3. CASE k > L
    <3>1. k - L \in 1 .. Size - 1 /\ (k + 1) - L = (k - L) + 1 /\ (k - L) + 1 \in 1 .. Size
          /\ L + (k - L) = k /\ L + ((k - L) + 1) = k + 1 /\ k - L \in 1 .. Size /\ k - L # Size
      BY <1>2, <2>3
    <3>2. t[k] = <<p, k - L>> /\ t[k + 1] = <<p, (k - L) + 1>>
      BY <1>3, <3>1
    <3> QED BY <3>1, <3>2
  <2> QED BY <1>2, <2>1, <2>2, <2>3
<1>11. Run(t, Past(p))
  BY <1>7, <1>8, <1>9, <1>10 DEF Run
<1>12. t # <<>>
  BY <1>2
<1> QED BY <1>2, <1>5, <1>7, <1>11, <1>12 DEF t, u

(* Induction for a set of numbers, from the least one that is not in it    *)
LEMMA NatInSet ==
    ASSUME NEW S, 0 \in S, \A n \in Nat : n \in S => n + 1 \in S
    PROVE  Nat \subseteq S
<1> DEFINE Missing == Nat \ S
<1> SUFFICES ASSUME Missing # {} PROVE FALSE
  OBVIOUS
<1>1. PICK x \in Missing : \A y \in Missing : <<y, x>> \notin OpToRel(<, Nat)
  <2>1. Missing \subseteq Nat
    OBVIOUS
  <2> HIDE DEF Missing
  <2> QED BY <2>1, WFMin, NatLessThanWellFounded
<1>2. x - 1 \in Nat /\ (x - 1) + 1 = x
  OBVIOUS
<1>3. <<x - 1, x>> \in OpToRel(<, Nat)
  BY <1>2 DEF OpToRel
<1>4. x - 1 \in S
  BY <1>1, <1>2, <1>3
<1> QED BY <1>2, <1>4

(* The first Size units are those of the first packet.                     *)
LEMMA FirstPacket ==
    ASSUME NEW s \in Seq(AnyUnit), NEW end \in Nat, Run(s, end), Size <= Len(s)
    PROVE  \A k \in 1 .. Size : s[k] = <<s[1][1], k>>
<1> DEFINE S == {n \in Nat : n + 1 <= Size => s[n + 1] = <<s[1][1], n + 1>>}
<1>1. 0 \in S
  <2>1. s[1] = <<s[1][1], s[1][2]>>
    BY UnitIs
  <2> QED BY <2>1 DEF Run
<1>2. ASSUME NEW n \in Nat, n \in S PROVE n + 1 \in S
  <2> SUFFICES ASSUME (n + 1) + 1 <= Size
               PROVE  s[(n + 1) + 1] = <<s[1][1], (n + 1) + 1>>
    OBVIOUS
  <2>1. s[n + 1] = <<s[1][1], n + 1>> /\ n + 1 \in 1 .. Len(s) - 1 /\ n + 1 # Size
    BY <1>2
  <2> DEFINE m == n + 1
  <2> HIDE DEF m, S
  <2>2. s[m][2] # Size /\ s[m][1] = s[1][1] /\ s[m][2] = m /\ m \in 1 .. Len(s) - 1
    BY <2>1 DEF m
  <2>3. s[m + 1] = <<s[m][1], s[m][2] + 1>>
    BY <2>2 DEF Run
  <2> QED BY <2>2, <2>3 DEF m
<1>3. Nat \subseteq S
  <2> HIDE DEF S
  <2> QED BY <1>1, <1>2, NatInSet
<1> TAKE k \in 1 .. Size
<1>4. k - 1 \in Nat /\ (k - 1) + 1 = k /\ k <= Size
  OBVIOUS
<1> QED BY <1>3, <1>4

(* Behind the first packet comes what follows it.                          *)
LEMMA RunRest ==
    ASSUME NEW s \in Seq(AnyUnit), NEW end \in Nat, Run(s, end), Size <= Len(s),
           NEW t \in Seq(AnyUnit), Len(t) = Len(s) - Size,
           \A k \in 1 .. Len(s) - Size : t[k] = s[k + Size]
    PROVE  IF t = <<>> THEN Past(s[1][1]) = end
           ELSE Run(t, end) /\ Follows(t[1][1], Past(s[1][1]))
<1> DEFINE L == Len(s)
<1>1. L \in Nat /\ Size \in 1 .. L /\ s[Size] = <<s[1][1], Size>>
  BY FirstPacket
<1>2. /\ \A k \in 1 .. L : Past(s[k][1]) \in 0 .. end
      /\ \A k \in 1 .. L - 1 :
             IF s[k][2] # Size THEN s[k + 1] = <<s[k][1], s[k][2] + 1>>
             ELSE s[k + 1][2] = 1 /\ Follows(s[k + 1][1], Past(s[k][1]))
      /\ s[L][2] = Size /\ Past(s[L][1]) = end
  BY DEF Run
<1>3. t = <<>> <=> L = Size
  BY <1>1, EmptySeq
<1>4. CASE L = Size
  BY <1>1, <1>2, <1>3, <1>4
<1>5. CASE L # Size
  <2>1. Size \in 1 .. L - 1 /\ 1 \in 1 .. L - Size /\ L - Size \in 1 .. L - Size
        /\ (L - Size) + Size = L /\ 1 + Size = Size + 1
    BY <1>1, <1>5
  <2>2. t[1] = s[Size + 1] /\ t[Len(t)] = s[L]
    BY <2>1
  <2>3. t[1][2] = 1 /\ Follows(t[1][1], Past(s[1][1]))
    <3>1. s[Size][2] = Size /\ s[Size][1] = s[1][1]
      BY <1>1
    <3>2. s[Size + 1][2] = 1 /\ Follows(s[Size + 1][1], Past(s[Size][1]))
      BY <1>2, <2>1, <3>1
    <3> QED BY <2>2, <3>1, <3>2
  <2>4. ASSUME NEW k \in 1 .. Len(t) PROVE Past(t[k][1]) \in 0 .. end
    <3>1. k + Size \in 1 .. L /\ t[k] = s[k + Size]
      BY <1>1
    <3> QED BY <1>2, <3>1
  <2>5. ASSUME NEW k \in 1 .. Len(t) - 1
        PROVE  IF t[k][2] # Size THEN t[k + 1] = <<t[k][1], t[k][2] + 1>>
               ELSE t[k + 1][2] = 1 /\ Follows(t[k + 1][1], Past(t[k][1]))
    <3>1. /\ k + Size \in 1 .. L - 1 /\ t[k] = s[k + Size]
          /\ t[k + 1] = s[(k + Size) + 1]
      <4>1. /\ k \in 1 .. Len(s) - Size /\ k + 1 \in 1 .. Len(s) - Size
            /\ k + Size \in 1 .. L - 1 /\ (k + 1) + Size = (k + Size) + 1
        BY <1>1
      <4> QED BY <4>1
    <3> QED BY <1>2, <3>1
  <2> QED BY <1>2, <1>3, <1>5, <2>2, <2>3, <2>4, <2>5 DEF Run
<1> QED BY <1>4, <1>5

-----------------------------------------------------------------------------
(* The steps                                                               *)

LEMMA PeerFacts ==
    /\ Ends = {"client", "server"} /\ Peer("client") = "server" /\ Peer("server") = "client"
    /\ \A e \in Ends : Peer(e) \in Ends /\ Peer(Peer(e)) = e /\ Peer(e) # e
BY DEF Ends, Peer

LEMMA Typed == Shape => TypeOK
<1> SUFFICES ASSUME Shape PROVE TypeOK
  OBVIOUS
<1> SUFFICES ASSUME NEW e \in Ends
             PROVE  /\ \A k \in DOMAIN rbuf[e] : rbuf[e][k][1] \in Packet
                    /\ \A k \in DOMAIN wire[e] : wire[e][k][1] \in Packet
  BY DEF Shape, TypeOK
<1>1. ASSUME NEW s \in Seq(AnyUnit), NEW k \in DOMAIN s PROVE s[k][1] \in Packet
  <2>1. k \in 1 .. Len(s)
    OBVIOUS
  <2> QED BY <2>1, UnitIs
<1>2. rbuf[e] \in Seq(AnyUnit) /\ wire[e] \in Seq(AnyUnit)
  BY DEF Shape
<1> QED BY <1>1, <1>2

LEMMA ComingSeq ==
    ASSUME IInv, NEW e \in Ends
    PROVE  /\ rbuf[e] \in Seq(AnyUnit) /\ wire[Peer(e)] \in Seq(AnyUnit)
           /\ Coming(e) \in Seq(AnyUnit) /\ Len(Coming(e)) = Len(rbuf[e]) + Len(wire[Peer(e)])
           /\ \A k \in 1 .. Len(rbuf[e]) : Coming(e)[k] = rbuf[e][k]
<1>1. rbuf[e] \in Seq(AnyUnit) /\ wire[Peer(e)] \in Seq(AnyUnit)
  BY PeerFacts DEF IInv, Shape
<1> QED BY <1>1, Joined DEF Coming

(* What e reads and has read is left alone.                                *)
LEMMA FlowSame ==
    ASSUME IInv, NEW e \in Ends, pc'[e] = "open" => pc[e] = "open",
           Coming(e)' = Coming(e), got'[e] = got[e], rdbuf'[e] = rdbuf[e],
           sent'[Peer(e)] = sent[Peer(e)]
    PROVE  FlowOf(e)'
<1>1. FlowOf(e)
  BY DEF IInv, FlowInv
<1> QED BY <1>1 DEF FlowOf

(* An end closes, and may have taken units of a stream that had some.      *)
LEMMA LeavesKeeps ==
    ASSUME IInv, NEW e \in Ends, pc' = [pc EXCEPT ![e] = "closed"], fin' \in [Ends -> BOOLEAN],
           UNCHANGED <<rbuf, userVars, ts>>, wire' \in [Ends -> Seq(AnyUnit)],
           wire'[e] = wire[e], wire[Peer(e)] = <<>> => wire'[Peer(e)] = <<>>
    PROVE  IInv'
<1>1. Shape'
  BY PeerFacts DEF IInv, Shape, userVars
<1>2. FlowInv'
  <2> SUFFICES ASSUME NEW f \in Ends PROVE FlowOf(f)'
    BY DEF FlowInv
  <2>1. CASE f = e
    <3>1. pc'[f] # "open"
      BY <2>1 DEF IInv, Shape
    <3> QED BY <3>1 DEF FlowOf
  <2>2. CASE f # e
    <3>1. pc'[f] = pc[f] /\ Peer(f) = e
      BY <2>2, PeerFacts DEF IInv, Shape
    <3>2. Coming(f)' = Coming(f)
      BY <3>1 DEF Coming
    <3> QED BY <3>1, <3>2, FlowSame DEF userVars
  <2> QED BY <2>1, <2>2
<1>3. AwaitInv'
  <2> SUFFICES ASSUME pc'["client"] = "await" PROVE AwaitInv'
    BY DEF AwaitInv
  <2>1. e = "server" /\ pc["client"] = "await" /\ pc'["server"] = "closed"
    BY PeerFacts DEF IInv, Shape
  <2>2. Coming("client")' = Coming("client")
    BY <2>1, PeerFacts DEF Coming
  <2> QED BY <2>1, <2>2 DEF IInv, AwaitInv, userVars
<1>4. DialInv'
  <2>1. CASE e = "client"
    <3>1. /\ pc'["client"] = "closed" /\ pc'["server"] = pc["server"] /\ wire'["client"] = wire["client"]
          /\ wire["server"] = <<>> => wire'["server"] = <<>>
      BY <2>1, PeerFacts DEF IInv, Shape
    <3> QED BY <3>1 DEF IInv, DialInv, userVars
  <2>2. CASE e = "server"
    <3>1. /\ pc'["server"] = "closed" /\ pc'["client"] = pc["client"] /\ wire'["server"] = wire["server"]
          /\ wire["client"] = <<>> => wire'["client"] = <<>>
      BY <2>2, PeerFacts DEF IInv, Shape
    <3> QED BY <3>1 DEF IInv, DialInv, userVars
  <2> QED BY <2>1, <2>2, PeerFacts
<1>5. GotInv'
  BY DEF IInv, GotInv, userVars
<1> QED BY <1>1, <1>2, <1>3, <1>4, <1>5 DEF IInv

(* A Read finds no whole packet.                                           *)
LEMMA MovesKeeps ==
    ASSUME IInv, NEW e \in Ends, NEW k \in 1 .. Len(wire[Peer(e)]), Take(e, k),
           rbuf' = [rbuf EXCEPT ![e] = Received(e, k)],
           UNCHANGED <<pc, fin, userVars, ts>>
    PROVE  IInv'
<1>1. rbuf[e] \in Seq(AnyUnit) /\ wire[Peer(e)] \in Seq(AnyUnit) /\ Peer(e) \in Ends
  BY ComingSeq, PeerFacts
<1> DEFINE w == wire[Peer(e)]
           x == SubSeq(w, k + 1, Len(w))
           y == Received(e, k)
<1>2. /\ y \in Seq(AnyUnit) /\ x \in Seq(AnyUnit) /\ y \o x = Coming(e)
      /\ Len(y) + Len(x) = Len(rbuf[e]) + Len(w)
  BY <1>1, TakeKeeps DEF Received, Coming
<1>3. w # <<>>
  BY <1>1
<1>4. wire' = [wire EXCEPT ![Peer(e)] = x]
  BY DEF Take
<1> HIDE DEF x, y
<1>5. /\ wire'[Peer(e)] = x /\ rbuf'[e] = y
      /\ wire'[e] = wire[e] /\ rbuf'[Peer(e)] = rbuf[Peer(e)]
  BY <1>1, <1>4, PeerFacts DEF IInv, Shape, y
<1>6. Shape'
  BY <1>2, <1>4 DEF IInv, Shape, userVars, y
<1>7. Coming(e)' = Coming(e) /\ Coming(Peer(e))' = Coming(Peer(e))
  BY <1>2, <1>5, PeerFacts DEF Coming
<1>8. \A f \in Ends : f = e \/ f = Peer(e)
  BY PeerFacts
<1>9. FlowInv'
  BY <1>7, <1>8, FlowSame DEF FlowInv, userVars
<1>10. AwaitInv'
  <2>1. Coming("client")' = Coming("client")
    BY <1>7, <1>8, PeerFacts
  <2> QED BY <2>1 DEF IInv, AwaitInv, userVars
<1>11. DialInv'
  <2>1. CASE e = "client"
    <3>1. w = wire["server"] /\ wire'["client"] = wire["client"] /\ rbuf'["server"] = rbuf["server"]
      BY <1>5, <2>1, PeerFacts
    <3> QED BY <1>3, <3>1 DEF IInv, DialInv, userVars
  <2>2. CASE e = "server"
    <3>1. /\ w = wire["client"] /\ wire'["server"] = wire["server"] /\ rbuf'["client"] = rbuf["client"]
          /\ wire'["client"] = x /\ rbuf'["server"] = y
      BY <1>5, <2>2, PeerFacts
    <3> QED BY <1>2, <1>3, <2>2, <3>1 DEF IInv, DialInv, userVars
  <2> QED BY <2>1, <2>2, PeerFacts
<1>12. GotInv'
  BY DEF IInv, GotInv, userVars
<1> QED BY <1>6, <1>9, <1>10, <1>11, <1>12 DEF IInv

-----------------------------------------------------------------------------
(* The handshake                                                           *)

LEMMA HandshakePackets ==
    \A ok \in BOOLEAN : /\ [kind |-> "auth", ok |-> ok, data |-> <<>>] \in Packet
                        /\ [kind |-> "rsp", ok |-> ok, data |-> <<>>] \in Packet
BY DEF Packet

LEMMA SendAuthKeeps == ASSUME IInv, SendAuth PROVE IInv'
<1> DEFINE u == Units([kind |-> "auth", ok |-> TRUE, data |-> <<>>])
<1>1. u \in Seq(AnyUnit) /\ Len(u) = Size
  BY HandshakePackets, UnitsShape
<1>2. /\ pc["client"] = "dialed" /\ pc' = [pc EXCEPT !["client"] = "await"]
      /\ wire' = [wire EXCEPT !["client"] = wire["client"] \o u]
      /\ UNCHANGED <<fin, rbuf, userVars, ts>>
  BY DEF SendAuth, Goto
<1> HIDE DEF u
<1>3. /\ pc["server"] # "open" /\ wire["client"] = <<>> /\ rbuf["server"] = <<>>
      /\ sent["client"] = 0 /\ sent["server"] = 0 /\ wire["server"] = <<>> /\ rbuf["client"] = <<>>
      /\ \A e \in Ends : got[e] = <<>> /\ rdbuf[e] = <<>>
  BY <1>2 DEF IInv, DialInv
<1>4. wire["client"] \o u = u
  BY <1>1, <1>3
<1>5. /\ pc'["client"] = "await" /\ pc'["server"] = pc["server"]
      /\ wire'["client"] = u /\ wire'["server"] = <<>>
  BY <1>2, <1>3, <1>4, PeerFacts DEF IInv, Shape
<1>6. Shape'
  BY <1>1, <1>2, <1>4, PeerFacts DEF IInv, Shape, userVars
<1>7. FlowInv'
  BY <1>3, <1>5, PeerFacts DEF FlowInv, FlowOf
<1>8. Coming("client")' = <<>>
  BY <1>2, <1>3, <1>5, PeerFacts DEF Coming
<1>9. AwaitInv'
  BY <1>2, <1>3, <1>5, <1>8, PeerFacts DEF AwaitInv, userVars
<1>10. DialInv'
  BY <1>1, <1>2, <1>3, <1>5 DEF DialInv, userVars
<1>11. GotInv'
  BY <1>2 DEF IInv, GotInv, userVars
<1> QED BY <1>6, <1>7, <1>9, <1>10, <1>11 DEF IInv

LEMMA SendAuthFailsKeeps == ASSUME IInv, SendAuthFails PROVE IInv'
<1> DEFINE u == Units([kind |-> "auth", ok |-> TRUE, data |-> <<>>])
<1>1. u \in Seq(AnyUnit) /\ Len(u) = Size
  BY HandshakePackets, UnitsShape
<1>2. PICK k \in 0 .. Size - 1 : wire' = [wire EXCEPT !["client"] = SubSeq(u, 1, k)]
  BY DEF SendAuthFails
<1>3. /\ pc["client"] = "dialed" /\ pc' = [pc EXCEPT !["client"] = "closed"]
      /\ fin' = [fin EXCEPT !["client"] = TRUE]
      /\ UNCHANGED <<rbuf, userVars, ts>>
  BY DEF SendAuthFails, Fail, Goto
<1> HIDE DEF u
<1> DEFINE v == SubSeq(u, 1, k)
<1>4. v \in Seq(AnyUnit) /\ Len(v) <= Size
  <2>1. 0 \in Nat /\ k \in 0 .. Len(u) /\ 0 + 1 = 1 /\ k \in Nat
    BY <1>1
  <2>2. v \in Seq(AnyUnit) /\ Len(v) = IF 0 <= k THEN k - 0 ELSE 0
    BY <1>1, <2>1, Cut
  <2> QED BY <2>1, <2>2
<1> HIDE DEF v
<1>5. /\ pc["server"] # "open" /\ rbuf["server"] = <<>> /\ wire["server"] = <<>>
      /\ rbuf["client"] = <<>> /\ sent["client"] = 0 /\ sent["server"] = 0
      /\ \A e \in Ends : got[e] = <<>> /\ rdbuf[e] = <<>>
  BY <1>3 DEF IInv, DialInv
<1>6. /\ pc'["client"] = "closed" /\ pc'["server"] = pc["server"]
      /\ wire'["client"] = v /\ wire'["server"] = <<>>
  BY <1>2, <1>3, <1>5, PeerFacts DEF IInv, Shape, v
<1>7. Shape'
  BY <1>2, <1>3, <1>4, PeerFacts DEF IInv, Shape, userVars, v
<1>8. FlowInv' /\ AwaitInv'
  BY <1>5, <1>6, PeerFacts DEF FlowInv, FlowOf, AwaitInv
<1>9. DialInv'
  BY <1>3, <1>4, <1>5, <1>6 DEF DialInv, userVars
<1>10. GotInv'
  BY <1>3 DEF IInv, GotInv, userVars
<1> QED BY <1>7, <1>8, <1>9, <1>10 DEF IInv

(* The client has the whole answer: the data behind it is next.            *)
LEMMA OpensKeeps ==
    ASSUME IInv, NEW k \in 1 .. Len(wire["server"]), Take("client", k),
           pc["client"] = "await", pc' = [pc EXCEPT !["client"] = "open"],
           Complete(Received("client", k)),
           rbuf' = [rbuf EXCEPT !["client"] = Rest(Received("client", k))],
           UNCHANGED <<fin, userVars, ts>>
    PROVE  IInv'
<1> DEFINE w == wire["server"]
           x == SubSeq(w, k + 1, Len(w))
           y == Received("client", k)
           s == Coming("client")
           t == Rest(s)
<1>1. rbuf["client"] \in Seq(AnyUnit) /\ w \in Seq(AnyUnit) /\ s \in Seq(AnyUnit)
  BY ComingSeq, PeerFacts
<1>2. y \in Seq(AnyUnit) /\ x \in Seq(AnyUnit) /\ y \o x = s
  <2>1. y = rbuf["client"] \o SubSeq(w, 1, k) /\ s = rbuf["client"] \o w
    BY PeerFacts DEF Received, Coming
  <2> HIDE DEF y, s, w
  <2> QED BY <1>1, <2>1, TakeKeeps DEF w
<1>3. w # <<>>
  BY <1>1
<1>4. wire' = [wire EXCEPT !["server"] = x] /\ Size <= Len(y)
  BY PeerFacts DEF Take, Complete
<1> HIDE DEF x, y, s
<1>5. /\ Rest(y) \in Seq(AnyUnit) /\ Rest(y) \o x = t /\ t \in Seq(AnyUnit)
      /\ Len(t) = Len(s) - Size /\ \A j \in 1 .. Len(s) - Size : t[j] = s[j + Size]
  BY <1>2, <1>4, RestJoined
<1>6. s # <<>> /\ Size <= Len(s)
  <2>1. Len(y \o x) = Len(y) + Len(x)
    BY <1>2, Joined
  <2> QED BY <1>2, <1>4, <2>1
<1> HIDE DEF t
<1>7. /\ wire'["server"] = x /\ rbuf'["client"] = Rest(y)
      /\ wire'["client"] = wire["client"] /\ rbuf'["server"] = rbuf["server"]
      /\ pc'["client"] = "open" /\ pc'["server"] = pc["server"]
  BY <1>4, PeerFacts DEF IInv, Shape, y
<1>8. Shape'
  BY <1>2, <1>4, <1>5, PeerFacts DEF IInv, Shape, userVars, y
<1>9. /\ Run(s, sent["server"]) /\ s[1][1].kind = "rsp"
      /\ got["client"] = <<>> /\ rdbuf["client"] = <<>> /\ sent["server"] \in Nat
  BY <1>6, PeerFacts DEF IInv, AwaitInv, Shape, s
<1>10. IF t = <<>> THEN Past(s[1][1]) = sent["server"]
       ELSE Run(t, sent["server"]) /\ Follows(t[1][1], Past(s[1][1]))
  BY <1>1, <1>5, <1>6, <1>9, RunRest
<1>11. Past(s[1][1]) = 0
  BY <1>9 DEF Past
<1>12. Coming("client")' = t /\ Coming("server")' = Coming("server")
  BY <1>5, <1>7, PeerFacts DEF Coming
<1>13. FlowOf("client")'
  <2>1. /\ got'["client"] = <<>> /\ rdbuf'["client"] = <<>> /\ Len(<<>>) + Len(<<>>) = 0
        /\ sent'["server"] = sent["server"]
    BY <1>9 DEF userVars
  <2> QED BY <1>10, <1>11, <1>12, <2>1, PeerFacts DEF FlowOf
<1>14. FlowOf("server")'
  BY <1>7, <1>12, FlowSame, PeerFacts DEF userVars
<1>15. AwaitInv' /\ FlowInv'
  BY <1>7, <1>13, <1>14, PeerFacts DEF AwaitInv, FlowInv
<1>16. DialInv'
  BY <1>3, <1>7 DEF IInv, DialInv, userVars
<1>17. GotInv'
  BY DEF IInv, GotInv, userVars
<1> QED BY <1>8, <1>15, <1>16, <1>17 DEF IInv

LEMMA ClientReadKeeps == ASSUME IInv, ClientRead PROVE IInv'
<1>1. PICK k \in 1 .. Len(wire["server"]) :
          LET units == Received("client", k)
          IN  /\ Take("client", k)
              /\ IF ~Complete(units)
                 THEN rbuf' = [rbuf EXCEPT !["client"] = units] /\ UNCHANGED <<pc, fin>>
                 ELSE IF PacketOf(units).ok
                 THEN /\ Goto("client", "await", "open")
                      /\ rbuf' = [rbuf EXCEPT !["client"] = Spare(units)]
                      /\ UNCHANGED fin
                 ELSE Fail("client", "await") /\ UNCHANGED rbuf
  BY DEF ClientRead
<1>2. pc["client"] = "await" /\ UNCHANGED <<userVars, ts>> /\ Take("client", k)
  BY <1>1 DEF ClientRead
<1> DEFINE units == Received("client", k)
<1>3. CASE ~Complete(units)
  BY <1>1, <1>2, <1>3, MovesKeeps, PeerFacts
<1>4. CASE Complete(units) /\ PacketOf(units).ok
  <2>1. /\ pc' = [pc EXCEPT !["client"] = "open"] /\ UNCHANGED fin
        /\ rbuf' = [rbuf EXCEPT !["client"] = Rest(units)]
    BY <1>1, <1>4 DEF Goto, Spare
  <2> QED BY <1>2, <1>4, <2>1, OpensKeeps
<1>5. CASE Complete(units) /\ ~PacketOf(units).ok
  <2>1. /\ pc' = [pc EXCEPT !["client"] = "closed"] /\ fin' = [fin EXCEPT !["client"] = TRUE]
        /\ UNCHANGED rbuf
    BY <1>1, <1>5 DEF Goto, Fail
  <2>2. wire["server"] \in Seq(AnyUnit)
    BY PeerFacts DEF IInv, Shape
  <2>3. SubSeq(wire["server"], k + 1, Len(wire["server"])) \in Seq(AnyUnit)
    BY <2>2, TakeKeeps
  <2>4. wire' = [wire EXCEPT !["server"] = SubSeq(wire["server"], k + 1, Len(wire["server"]))]
    BY <1>2, PeerFacts DEF Take
  <2>5. wire' \in [Ends -> Seq(AnyUnit)] /\ wire'["client"] = wire["client"]
    BY <2>3, <2>4, PeerFacts DEF IInv, Shape
  <2>6. wire["server"] # <<>>
    BY <2>2
  <2>7. fin' \in [Ends -> BOOLEAN]
    BY <2>1 DEF IInv, Shape
  <2> QED BY <1>2, <2>1, <2>5, <2>6, <2>7, LeavesKeeps, PeerFacts
<1> QED BY <1>3, <1>4, <1>5

(* The answer is the first thing the client will read.                     *)
LEMMA AnswerRuns ==
    ASSUME NEW p \in Packet, p.kind = "rsp"
    PROVE  /\ Units(p) \in Seq(AnyUnit) /\ Units(p) # <<>>
           /\ Run(Units(p), 0) /\ Units(p)[1][1] = p
<1> DEFINE u == Units(p)
<1>1. /\ u \in Seq(AnyUnit) /\ Len(u) = Size
      /\ \A k \in 1 .. Size : u[k] = <<p, k>>
  BY UnitsShape
<1> HIDE DEF u
<1>2. Past(p) = 0 /\ Size \in 1 .. Size /\ 1 \in 1 .. Size
  BY DEF Past
<1>3. u[1] = <<p, 1>> /\ u[Len(u)] = <<p, Size>> /\ u # <<>>
  BY <1>1, <1>2
<1>4. \A k \in 1 .. Len(u) : Past(u[k][1]) \in 0 .. 0
  BY <1>1, <1>2
<1>5. \A k \in 1 .. Len(u) - 1 : u[k][2] # Size /\ u[k + 1] = <<u[k][1], u[k][2] + 1>>
  <2> TAKE k \in 1 .. Len(u) - 1
  <2>1. k \in 1 .. Size /\ k + 1 \in 1 .. Size /\ k # Size
    BY <1>1
  <2> QED BY <1>1, <2>1
<1>6. Run(u, 0)
  BY <1>2, <1>3, <1>4, <1>5 DEF Run
<1> QED BY <1>1, <1>3, <1>6 DEF u

(* The server answers: all that had come was the client's one packet.      *)
LEMMA AnswerKeeps ==
    ASSUME IInv, pc["server"] = "read", wire["client"] # <<>>,
           NEW ok \in BOOLEAN, Answer(ok), fin' \in [Ends -> BOOLEAN],
           UNCHANGED <<userVars, ts>>,
           NEW r \in Seq(AnyUnit), rbuf' = [rbuf EXCEPT !["server"] = r],
           NEW to \in {"open", "closed"}, pc' = [pc EXCEPT !["server"] = to],
           to = "open" => r = <<>>
    PROVE  IInv'
<1> DEFINE p == [kind |-> "rsp", ok |-> ok, data |-> <<>>]
           u == Units(p)
           w == wire["client"]
<1>1. p \in Packet /\ p.kind = "rsp"
  BY HandshakePackets
<1>2. u \in Seq(AnyUnit) /\ u # <<>> /\ Run(u, 0) /\ u[1][1] = p
  BY <1>1, AnswerRuns
<1>3. /\ sent["client"] = 0 /\ sent["server"] = 0 /\ pc["client"] # "open"
      /\ wire["server"] = <<>> /\ rbuf["client"] = <<>> /\ pc["client"] # "dialed"
      /\ \A e \in Ends : got[e] = <<>> /\ rdbuf[e] = <<>>
  BY DEF IInv, DialInv
<1>4. wire' = [wire EXCEPT !["client"] = SubSeq(w, Len(w) + 1, Len(w)),
                           !["server"] = wire["server"] \o u]
  BY DEF Answer
<1> HIDE DEF p, u
<1>5. SubSeq(w, Len(w) + 1, Len(w)) = <<>> /\ <<>> \in Seq(AnyUnit)
  <2>1. w \in Seq(AnyUnit)
    BY PeerFacts DEF IInv, Shape
  <2> HIDE DEF w
  <2> QED BY <2>1
<1>6. wire["server"] \o u = u
  BY <1>2, <1>3
<1>7. wire' = [wire EXCEPT !["client"] = <<>>, !["server"] = u]
  BY <1>4, <1>5, <1>6
<1>8. /\ wire'["client"] = <<>> /\ wire'["server"] = u /\ rbuf'["client"] = <<>>
      /\ rbuf'["server"] = r /\ pc'["client"] = pc["client"] /\ pc'["server"] = to
  BY <1>3, <1>7, PeerFacts DEF IInv, Shape
<1>9. Shape'
  <2>1. wire' \in [Ends -> Seq(AnyUnit)] /\ rbuf' \in [Ends -> Seq(AnyUnit)]
    BY <1>2, <1>5, <1>7 DEF IInv, Shape
  <2>2. /\ pc' \in [Ends -> {"dialed", "await", "read", "redirect", "open", "closed"}]
        /\ pc'["client"] \in {"dialed", "await", "open", "closed"}
        /\ pc'["server"] \in {"read", "redirect", "open", "closed"}
    BY <1>8 DEF IInv, Shape
  <2> QED BY <2>1, <2>2 DEF IInv, Shape, userVars
<1>10. Coming("client")' = u
  <2>1. <<>> \o u = u
    BY <1>2
  <2> QED BY <1>8, <2>1, PeerFacts DEF Coming
<1>11. FlowOf("server")'
  <2> SUFFICES ASSUME to = "open" PROVE FlowOf("server")'
    BY <1>8 DEF FlowOf
  <2>1. Coming("server")' = <<>>
    BY <1>8, PeerFacts DEF Coming
  <2>2. Len(got["server"]) + Len(rdbuf["server"]) = sent["client"]
    <3>1. got["server"] = <<>> /\ rdbuf["server"] = <<>> /\ Len(<<>>) + Len(<<>>) = 0
      BY <1>3, PeerFacts
    <3> QED BY <1>3, <3>1
  <2> QED BY <2>1, <2>2, PeerFacts DEF FlowOf, userVars
<1>12. FlowInv'
  BY <1>3, <1>8, <1>11, PeerFacts DEF FlowInv, FlowOf
<1>13. AwaitInv'
  BY <1>2, <1>1, <1>3, <1>10, PeerFacts DEF AwaitInv, userVars
<1>14. DialInv'
  BY <1>3, <1>8 DEF DialInv, userVars
<1>15. GotInv'
  BY DEF IInv, GotInv, userVars
<1> QED BY <1>9, <1>12, <1>13, <1>14, <1>15 DEF IInv

LEMMA ServerReadPartKeeps == ASSUME IInv, ServerReadPart PROVE IInv'
<1>1. PICK k \in 1 .. Len(wire["client"]) :
          /\ Take("server", k)
          /\ rbuf' = [rbuf EXCEPT !["server"] = Received("server", k)]
  BY DEF ServerReadPart
<1>2. UNCHANGED <<pc, fin, userVars, ts>>
  BY DEF ServerReadPart
<1> QED BY <1>1, <1>2, MovesKeeps, PeerFacts

LEMMA ServerReadAuthKeeps == ASSUME IInv, ServerReadAuth PROVE IInv'
<1> DEFINE w == wire["client"]
           y == Received("server", Len(w))
<1>1. /\ pc["server"] = "read" /\ w # <<>> /\ Complete(y) /\ UNCHANGED <<userVars, ts>>
  BY DEF ServerReadAuth
<1>2. rbuf["server"] \in Seq(AnyUnit) /\ w \in Seq(AnyUnit)
  BY PeerFacts DEF IInv, Shape
<1>3. y \in Seq(AnyUnit) /\ Len(y) = Size
  <2>1. Len(w) \in 1 .. Len(w)
    BY <1>1, <1>2
  <2> DEFINE x == SubSeq(w, Len(w) + 1, Len(w))
  <2>2. y = rbuf["server"] \o SubSeq(w, 1, Len(w))
    BY PeerFacts DEF Received
  <2>3. y \in Seq(AnyUnit) /\ x \in Seq(AnyUnit) /\ Len(y) + Len(x) = Len(rbuf["server"]) + Len(w)
    <3> HIDE DEF y, w
    <3> QED BY <1>2, <2>1, <2>2, TakeKeeps
  <2>4. Len(rbuf["server"]) + Len(w) <= Size
    BY <1>1 DEF IInv, DialInv
  <2>5. Size <= Len(y)
    BY <1>1 DEF Complete
  <2> HIDE DEF x, y, w
  <2> QED BY <1>2, <2>3, <2>4, <2>5
<1> HIDE DEF y
<1>4. Rest(y) = <<>>
  BY <1>3 DEF Rest
<1>5. CASE /\ Answer(TRUE) /\ Goto("server", "read", "open") /\ UNCHANGED fin
           /\ rbuf' = [rbuf EXCEPT !["server"] = Rest(y)]
  <2>1. /\ pc' = [pc EXCEPT !["server"] = "open"] /\ <<>> \in Seq(AnyUnit)
        /\ fin' \in [Ends -> BOOLEAN] /\ rbuf' = [rbuf EXCEPT !["server"] = <<>>]
    BY <1>4, <1>5 DEF Goto, IInv, Shape
  <2> HIDE DEF w
  <2> QED BY <1>1, <1>5, <2>1, AnswerKeeps DEF w
<1>6. CASE Answer(FALSE) /\ Fail("server", "read") /\ UNCHANGED rbuf
  <2>1. /\ pc' = [pc EXCEPT !["server"] = "closed"]
        /\ fin' \in [Ends -> BOOLEAN] /\ rbuf' = [rbuf EXCEPT !["server"] = rbuf["server"]]
    BY <1>6, PeerFacts DEF Goto, Fail, IInv, Shape
  <2> HIDE DEF w
  <2> QED BY <1>1, <1>2, <1>6, <2>1, AnswerKeeps DEF w
<1>7. CASE Fail("server", "read") /\ UNCHANGED <<wire, rbuf>>
  <2>1. /\ pc' = [pc EXCEPT !["server"] = "closed"] /\ wire' \in [Ends -> Seq(AnyUnit)]
        /\ fin' \in [Ends -> BOOLEAN]
    BY <1>7 DEF Goto, Fail, IInv, Shape
  <2> QED BY <1>1, <1>7, <2>1, LeavesKeeps, PeerFacts
<1> QED BY <1>5, <1>6, <1>7 DEF ServerReadAuth, y

(* A deadline, or the end of the redirector                                *)
LEMMA FailKeeps ==
    ASSUME IInv, NEW e \in Ends, NEW from, Fail(e, from), UNCHANGED <<wire, rbuf, userVars, ts>>
    PROVE  IInv'
<1>1. /\ pc' = [pc EXCEPT ![e] = "closed"] /\ wire' \in [Ends -> Seq(AnyUnit)]
      /\ fin' \in [Ends -> BOOLEAN]
  BY DEF Goto, Fail, IInv, Shape
<1> QED BY <1>1, LeavesKeeps, PeerFacts

LEMMA ServerEofKeeps == ASSUME IInv, ServerEof PROVE IInv'
<1>1. /\ pc["server"] = "read" /\ pc' = [pc EXCEPT !["server"] = "redirect"]
      /\ UNCHANGED <<wire, fin, rbuf, rdbuf, sent, got, ts>>
  BY DEF ServerEof, Goto, streamVars, userVars
<1>2. pc'["server"] = "redirect" /\ pc'["client"] = pc["client"]
  BY <1>1, PeerFacts DEF IInv, Shape
<1>3. Shape'
  BY <1>1, <1>2, PeerFacts DEF IInv, Shape
<1>4. pc["client"] # "open"
  BY <1>1 DEF IInv, DialInv
<1>5. FlowInv'
  BY <1>2, <1>4, PeerFacts DEF FlowInv, FlowOf
<1>6. Coming("client")' = Coming("client")
  BY <1>1 DEF Coming
<1>7. AwaitInv'
  BY <1>1, <1>2, <1>6 DEF IInv, AwaitInv
<1>8. DialInv'
  BY <1>1, <1>2 DEF IInv, DialInv
<1>9. GotInv'
  BY <1>1 DEF IInv, GotInv
<1> QED BY <1>3, <1>5, <1>7, <1>8, <1>9 DEF IInv

-----------------------------------------------------------------------------
(* The data                                                                *)

LEMMA WriteKeeps == ASSUME IInv, NEW e \in Ends, Write(e) PROVE IInv'
<1>1. PICK n \in 1 .. ChunkMax :
          /\ sent[e] + n <= MaxSent
          /\ sent' = [sent EXCEPT ![e] = @ + n]
          /\ wire' = [wire EXCEPT ![e] = @ \o
                 Units([kind |-> "data", ok |-> TRUE, data |-> [k \in 1 .. n |-> sent[e] + k]])]
  BY DEF Write
<1>2. pc[e] = "open" /\ UNCHANGED <<pc, fin, rbuf, rdbuf, got, ts>>
  BY DEF Write
<1> DEFINE d == [k \in 1 .. n |-> sent[e] + k]
           p == [kind |-> "data", ok |-> TRUE, data |-> d]
           u == Units(p)
           f == Peer(e)
           s == Coming(f)
<1>3. sent[e] \in 0 .. MaxSent /\ sent[e] \in Nat /\ MaxSent \in Nat
  BY DEF IInv, Shape
<1>4. /\ d \in Seq(1 .. MaxSent) /\ Len(d) = n
      /\ \A k \in 1 .. n : d[k] = sent[e] + k
  <2>1. \A k \in 1 .. n : sent[e] + k \in 1 .. MaxSent
    BY <1>1, <1>3
  <2>2. d \in [1 .. n -> 1 .. MaxSent]
    BY <2>1
  <2> QED BY <2>2
<1> HIDE DEF d
<1>5. p \in Packet /\ p.data = d /\ p.kind = "data" /\ p.ok
  BY <1>4 DEF Packet
<1> HIDE DEF p
<1>6. Follows(p, sent[e]) /\ Len(p.data) = n
  <2>1. d[1] = sent[e] + 1
    BY <1>4
  <2>2. \A k \in 1 .. n : d[k] = d[1] + (k - 1)
    BY <1>3, <1>4, <2>1
  <2> QED BY <1>4, <1>5, <2>1, <2>2 DEF Follows, IsData
<1>7. /\ wire' = [wire EXCEPT ![e] = wire[e] \o u] /\ sent' = [sent EXCEPT ![e] = sent[e] + n]
  BY <1>1 DEF u, p, d
<1>8. /\ u \in Seq(AnyUnit) /\ wire[e] \in Seq(AnyUnit) /\ rbuf[f] \in Seq(AnyUnit)
      /\ s \in Seq(AnyUnit) /\ s = rbuf[f] \o wire[e] /\ f \in Ends /\ Peer(f) = e /\ f # e
  BY <1>5, UnitsShape, ComingSeq, PeerFacts DEF Coming
<1> HIDE DEF u, s, f
<1>9. /\ wire'[e] = wire[e] \o u /\ wire'[e] \in Seq(AnyUnit) /\ sent'[e] = sent[e] + n
      /\ wire'[f] = wire[f] /\ sent'[f] = sent[f] /\ sent'[e] \in 0 .. MaxSent
  <2>1. wire[e] \o u \in Seq(AnyUnit)
    BY <1>8, Joined
  <2>2. wire \in [Ends -> Seq(AnyUnit)] /\ sent \in [Ends -> 0 .. MaxSent]
    BY DEF IInv, Shape
  <2>3. wire'[e] = wire[e] \o u /\ wire'[f] = wire[f]
    BY <1>7, <1>8, <2>2, Zenon
  <2>4. sent'[e] = sent[e] + n /\ sent'[f] = sent[f]
    BY <1>7, <1>8, <2>2, Zenon
  <2>5. sent[e] + n \in 0 .. MaxSent
    BY <1>1, <1>3
  <2> QED BY <2>1, <2>3, <2>4, <2>5
<1>10. Shape'
  BY <1>2, <1>7, <1>9 DEF IInv, Shape
<1>11. Coming(f)' = s \o u /\ Coming(e)' = Coming(e)
  <2>1. rbuf[f] \o (wire[e] \o u) = s \o u
    <3>1. (rbuf[f] \o wire[e]) \o u = rbuf[f] \o (wire[e] \o u)
      <4> DEFINE x == rbuf[f]
                 y == wire[e]
      <4>1. x \in Seq(AnyUnit) /\ y \in Seq(AnyUnit) /\ u \in Seq(AnyUnit)
        BY <1>8
      <4> HIDE DEF x, y
      <4>2. (x \o y) \o u = x \o (y \o u)
        BY <4>1, JoinAssoc, Zenon
      <4> QED BY <4>2 DEF x, y
    <3> QED BY <1>8, <3>1, Zenon
  <2>2. Peer(e) = f
    BY DEF f
  <2> QED BY <1>2, <1>8, <1>9, <2>1, <2>2 DEF Coming
<1>12. ASSUME s # <<>> => Run(s, sent[e])
       PROVE  /\ s \o u # <<>> /\ Run(s \o u, sent'[e])
              /\ (s \o u)[1] = IF s = <<>> THEN <<p, 1>> ELSE s[1]
  <2>1. /\ s \o Units(p) # <<>> /\ Run(s \o Units(p), Past(p))
        /\ Past(p) = sent[e] + Len(p.data)
        /\ (s \o Units(p))[1] = IF s = <<>> THEN <<p, 1>> ELSE s[1]
    BY <1>3, <1>5, <1>6, <1>8, <1>12, RunOn
  <2>2. Past(p) = sent'[e]
    BY <1>6, <1>9, <2>1
  <2> QED BY <2>1, <2>2 DEF u
<1>13. FlowOf(e)'
  <2>1. Peer(e) = f
    BY DEF f
  <2> QED BY <1>2, <1>9, <1>11, <2>1, FlowSame
<1>14. FlowOf(f)'
  <2> SUFFICES ASSUME pc'[f] = "open" PROVE FlowOf(f)'
    BY DEF FlowOf
  <2>1. IF s = <<>> THEN Len(got[f]) + Len(rdbuf[f]) = sent[e]
        ELSE Run(s, sent[e]) /\ Follows(s[1][1], Len(got[f]) + Len(rdbuf[f]))
    BY <1>2, <1>8 DEF IInv, FlowInv, FlowOf, s
  <2>2. Follows((s \o u)[1][1], Len(got[f]) + Len(rdbuf[f]))
    <3>1. CASE s = <<>>
      <4>1. (s \o u)[1] = <<p, 1>>
        BY <1>12, <3>1
      <4>2. (s \o u)[1][1] = p
        BY <4>1
      <4>3. Len(got[f]) + Len(rdbuf[f]) = sent[e]
        BY <2>1, <3>1
      <4> QED BY <1>6, <4>2, <4>3, Zenon
    <3>2. CASE s # <<>>
      BY <1>12, <2>1, <3>2
    <3> QED BY <3>1, <3>2
  <2> QED BY <1>2, <1>8, <1>11, <1>12, <2>1, <2>2 DEF FlowOf
<1>15. FlowInv'
  <2>1. \A g \in Ends : g = e \/ g = f
    BY PeerFacts DEF f
  <2> QED BY <1>13, <1>14, <2>1 DEF FlowInv
<1>16. AwaitInv'
  <2> SUFFICES ASSUME pc'["client"] = "await" PROVE AwaitInv'
    BY DEF AwaitInv
  <2>1. e = "server" /\ f = "client" /\ pc["client"] = "await"
    BY <1>2, PeerFacts DEF f
  <2>2. /\ got["client"] = <<>> /\ rdbuf["client"] = <<>> /\ sent["client"] = 0
        /\ s # <<>> /\ Run(s, sent["server"]) /\ s[1][1].kind = "rsp"
    BY <1>2, <2>1 DEF IInv, AwaitInv, s
  <2>3. /\ Coming("client")' # <<>> /\ Run(Coming("client")', sent'["server"])
        /\ Coming("client")'[1][1].kind = "rsp"
    BY <1>11, <1>12, <2>1, <2>2
  <2> QED BY <1>2, <1>9, <2>1, <2>2, <2>3 DEF AwaitInv
<1>17. DialInv'
  <2>1. e = "client" \/ e = "server"
    BY PeerFacts
  <2>2. pc["client"] # "dialed" /\ pc["server"] \notin {"read", "redirect"}
    BY <1>2, <2>1 DEF IInv, DialInv
  <2> QED BY <1>2, <2>2 DEF DialInv
<1>18. GotInv'
  <2> SUFFICES ASSUME NEW g \in Ends PROVE Len(got[g]) + Len(rdbuf[g]) <= sent'[Peer(g)]
    BY <1>2 DEF IInv, GotInv
  <2> DEFINE m == Len(got[g]) + Len(rdbuf[g])
             a == sent[Peer(g)]
             b == sent'[Peer(g)]
  <2>1. m <= a
    BY DEF IInv, GotInv
  <2>2. a \in Nat
    BY PeerFacts DEF IInv, Shape
  <2>3. m \in Nat
    BY DEF IInv, Shape
  <2>4. b = a \/ b = a + n
    BY <1>8, <1>9, PeerFacts
  <2> HIDE DEF m, a, b
  <2>5. m <= b
    BY <2>1, <2>2, <2>3, <2>4
  <2> QED BY <2>5 DEF m, b
<1> QED BY <1>10, <1>15, <1>16, <1>17, <1>18 DEF IInv

LEMMA JoinedBytes ==
    ASSUME NEW s \in Seq(1 .. MaxSent), NEW t \in Seq(1 .. MaxSent)
    PROVE  /\ s \o t \in Seq(1 .. MaxSent) /\ Len(s \o t) = Len(s) + Len(t)
           /\ \A k \in 1 .. Len(s) : (s \o t)[k] = s[k]
           /\ \A k \in 1 .. Len(t) : (s \o t)[Len(s) + k] = t[k]
OBVIOUS

(* A Read hands over what comes next and keeps the rest.                   *)
LEMMA DeliverGot ==
    ASSUME IInv, NEW e \in Ends, NEW d \in Seq(1 .. MaxSent), Deliver(e, d), d # <<>>,
           \A k \in 1 .. Len(d) : d[k] = Len(got[e]) + k, Len(d) <= ChunkMax
    PROVE  /\ got' \in [Ends -> Seq(1 .. MaxSent)] /\ rdbuf' \in [Ends -> Seq(1 .. MaxSent)]
           /\ Len(got'[e]) + Len(rdbuf'[e]) = Len(got[e]) + Len(d)
           /\ Len(rdbuf'[e]) < ChunkMax
           /\ \A k \in DOMAIN got'[e] : got'[e][k] = k
           /\ \A k \in DOMAIN rdbuf'[e] : rdbuf'[e][k] = Len(got'[e]) + k
           /\ \A f \in Ends : f # e => got'[f] = got[f] /\ rdbuf'[f] = rdbuf[f]
<1> DEFINE n == IF Len(d) > ReadMax THEN ReadMax ELSE Len(d)
           a == SubSeq(d, 1, n)
           b == SubSeq(d, n + 1, Len(d))
           g == got[e]
           h == g \o a
<1>1. got' = [got EXCEPT ![e] = h] /\ rdbuf' = [rdbuf EXCEPT ![e] = b]
  BY DEF Deliver
<1>2. n \in 1 .. Len(d) /\ n \in Nat /\ Len(d) \in Nat
  <2>1. Len(d) \in Nat /\ Len(d) # 0
    OBVIOUS
  <2> QED BY <2>1
<1> HIDE DEF n
<1>3. /\ a \in Seq(1 .. MaxSent) /\ Len(a) = n
      /\ \A k \in 1 .. n : a[k] = d[k]
  BY <1>2
<1>4. /\ b \in Seq(1 .. MaxSent) /\ Len(b) = Len(d) - n
      /\ \A k \in 1 .. Len(d) - n : b[k] = d[k + n]
  BY <1>2
<1>5. g \in Seq(1 .. MaxSent) /\ \A k \in DOMAIN g : g[k] = k
  BY DEF IInv, Shape, GotInv
<1> HIDE DEF a, b
<1>6. /\ h \in Seq(1 .. MaxSent) /\ Len(h) = Len(g) + n
      /\ \A k \in 1 .. Len(g) : h[k] = g[k]
      /\ \A k \in 1 .. n : h[Len(g) + k] = a[k]
  <2> HIDE DEF g
  <2>1. /\ h \in Seq(1 .. MaxSent) /\ Len(h) = Len(g) + Len(a)
        /\ \A k \in 1 .. Len(g) : h[k] = g[k]
        /\ \A k \in 1 .. Len(a) : h[Len(g) + k] = a[k]
    BY <1>3, <1>5, JoinedBytes
  <2> HIDE DEF h
  <2> QED BY <1>3, <2>1
<1> HIDE DEF h
<1>7. /\ got' \in [Ends -> Seq(1 .. MaxSent)] /\ rdbuf' \in [Ends -> Seq(1 .. MaxSent)]
      /\ got'[e] = h /\ rdbuf'[e] = b
      /\ \A f \in Ends : f # e => got'[f] = got[f] /\ rdbuf'[f] = rdbuf[f]
  BY <1>1, <1>4, <1>6 DEF IInv, Shape
<1>8. \A k \in 1 .. Len(d) : d[k] = Len(g) + k
  OBVIOUS
<1>9. Len(g) \in Nat /\ DOMAIN g = 1 .. Len(g) /\ DOMAIN h = 1 .. Len(g) + n
      /\ DOMAIN b = 1 .. Len(d) - n
  BY <1>4, <1>5, <1>6
<1> HIDE DEF g
<1>10. \A k \in DOMAIN h : h[k] = k
  <2> SUFFICES ASSUME NEW k \in 1 .. Len(g) + n PROVE h[k] = k
    BY <1>9
  <2>1. CASE k <= Len(g)
    <3>1. k \in 1 .. Len(g)
      BY <1>2, <1>9, <2>1
    <3> QED BY <1>5, <1>6, <1>9, <3>1
  <2>2. CASE k > Len(g)
    <3>1. k - Len(g) \in 1 .. n /\ k - Len(g) \in 1 .. Len(d) /\ Len(g) + (k - Len(g)) = k
      BY <1>2, <1>9, <2>2
    <3> QED BY <1>3, <1>6, <1>8, <3>1
  <2> QED BY <1>2, <1>9, <2>1, <2>2
<1>11. \A k \in DOMAIN b : b[k] = Len(h) + k
  <2> SUFFICES ASSUME NEW k \in 1 .. Len(d) - n PROVE b[k] = Len(h) + k
    BY <1>9
  <2>1. k + n \in 1 .. Len(d)
    BY <1>2
  <2>2. b[k] = Len(g) + (k + n)
    BY <1>4, <1>8, <2>1
  <2> QED BY <1>2, <1>6, <1>9, <2>2
<1>12. Len(h) + Len(b) = Len(g) + Len(d) /\ Len(b) < ChunkMax
  BY <1>2, <1>4, <1>6, <1>9
<1> QED BY <1>7, <1>10, <1>11, <1>12 DEF g

(* A Read: what it hands over is next, and what it leaves follows that.    *)
LEMMA ReadsKeep ==
    ASSUME IInv, NEW e \in Ends, pc[e] = "open", NEW d \in Seq(1 .. MaxSent), Deliver(e, d),
           d # <<>>, \A k \in 1 .. Len(d) : d[k] = Len(got[e]) + k, Len(d) <= ChunkMax,
           Len(got[e]) + Len(d) <= sent[Peer(e)], UNCHANGED <<pc, streamVars, sent, ts>>,
           NEW r \in Seq(AnyUnit), rbuf' = [rbuf EXCEPT ![e] = r],
           IF r \o wire[Peer(e)] = <<>> THEN Len(got[e]) + Len(d) = sent[Peer(e)]
           ELSE /\ Run(r \o wire[Peer(e)], sent[Peer(e)])
                /\ Follows((r \o wire[Peer(e)])[1][1], Len(got[e]) + Len(d))
    PROVE  IInv'
<1> DEFINE f == Peer(e)
<1>1. f \in Ends /\ f # e /\ Peer(f) = e /\ \A g \in Ends : g = e \/ g = f
  BY PeerFacts
<1>2. /\ got' \in [Ends -> Seq(1 .. MaxSent)] /\ rdbuf' \in [Ends -> Seq(1 .. MaxSent)]
      /\ Len(got'[e]) + Len(rdbuf'[e]) = Len(got[e]) + Len(d)
      /\ Len(rdbuf'[e]) < ChunkMax
      /\ \A k \in DOMAIN got'[e] : got'[e][k] = k
      /\ \A k \in DOMAIN rdbuf'[e] : rdbuf'[e][k] = Len(got'[e]) + k
      /\ \A g \in Ends : g # e => got'[g] = got[g] /\ rdbuf'[g] = rdbuf[g]
  BY DeliverGot
<1>3. rbuf' \in [Ends -> Seq(AnyUnit)] /\ rbuf'[e] = r /\ rbuf'[f] = rbuf[f]
  BY <1>1 DEF IInv, Shape
<1>4. UNCHANGED <<pc, wire, fin, sent, ts>>
  BY DEF streamVars
<1>5. Shape'
  <2>1. \A g \in Ends : Len(rdbuf'[g]) < ChunkMax
    BY <1>2 DEF IInv, Shape
  <2> QED BY <1>2, <1>3, <1>4, <2>1 DEF IInv, Shape
<1>6. Coming(e)' = r \o wire[f] /\ Coming(f)' = Coming(f)
  BY <1>1, <1>3, <1>4 DEF Coming
<1>7. FlowOf(e)'
  BY <1>2, <1>4, <1>6 DEF FlowOf
<1>8. FlowOf(f)'
  BY <1>1, <1>2, <1>4, <1>6, FlowSame
<1>9. FlowInv'
  BY <1>1, <1>7, <1>8 DEF FlowInv
<1>10. AwaitInv'
  <2> SUFFICES ASSUME pc["client"] = "await" PROVE AwaitInv'
    BY <1>4 DEF AwaitInv
  <2>1. f = "client"
    BY <1>1, PeerFacts
  <2>2. got'["client"] = got["client"] /\ rdbuf'["client"] = rdbuf["client"]
        /\ Coming("client")' = Coming("client")
    BY <1>1, <1>2, <1>6, <2>1
  <2> QED BY <1>4, <2>2 DEF IInv, AwaitInv
<1>11. DialInv'
  <2>1. e = "client" \/ e = "server"
    BY PeerFacts
  <2>2. pc["client"] # "dialed" /\ pc["server"] \notin {"read", "redirect"}
    BY <2>1 DEF IInv, DialInv
  <2> QED BY <1>4, <2>2 DEF DialInv
<1>12. GotInv'
  <2> SUFFICES ASSUME NEW g \in Ends
               PROVE  /\ \A k \in DOMAIN got'[g] : got'[g][k] = k
                      /\ \A k \in DOMAIN rdbuf'[g] : rdbuf'[g][k] = Len(got'[g]) + k
                      /\ Len(got'[g]) + Len(rdbuf'[g]) <= sent[Peer(g)]
    BY <1>4 DEF GotInv
  <2>1. CASE g = e
    BY <1>2, <2>1
  <2>2. CASE g # e
    BY <1>2, <2>2 DEF IInv, GotInv
  <2> QED BY <2>1, <2>2
<1> QED BY <1>5, <1>9, <1>10, <1>11, <1>12 DEF IInv

LEMMA ReadRestKeeps == ASSUME IInv, NEW e \in Ends, ReadRest(e) PROVE IInv'
<1> DEFINE d == rdbuf[e]
           r == rbuf[e]
<1>1. /\ pc[e] = "open" /\ d # <<>> /\ Deliver(e, d)
      /\ UNCHANGED <<pc, streamVars, rbuf, sent, ts>>
  BY DEF ReadRest
<1>2. d \in Seq(1 .. MaxSent) /\ Len(d) <= ChunkMax /\ r \in Seq(AnyUnit)
      /\ rbuf' = [rbuf EXCEPT ![e] = r]
  BY <1>1 DEF IInv, Shape
<1>3. /\ \A k \in 1 .. Len(d) : d[k] = Len(got[e]) + k
      /\ Len(got[e]) + Len(d) <= sent[Peer(e)]
  <2>1. /\ \A k \in DOMAIN d : d[k] = Len(got[e]) + k
        /\ Len(got[e]) + Len(d) <= sent[Peer(e)]
    BY DEF IInv, GotInv
  <2>2. DOMAIN d = 1 .. Len(d)
    BY <1>2
  <2> QED BY <2>1, <2>2, Zenon
<1>4. IF r \o wire[Peer(e)] = <<>> THEN Len(got[e]) + Len(d) = sent[Peer(e)]
      ELSE /\ Run(r \o wire[Peer(e)], sent[Peer(e)])
           /\ Follows((r \o wire[Peer(e)])[1][1], Len(got[e]) + Len(d))
  BY <1>1 DEF IInv, FlowInv, FlowOf, Coming
<1> HIDE DEF d, r
<1> QED BY <1>1, <1>2, <1>3, <1>4, ReadsKeep

LEMMA ReadPacketKeeps == ASSUME IInv, NEW e \in Ends, ReadPacket(e) PROVE IInv'
<1> DEFINE r == rbuf[e]
           w == wire[Peer(e)]
           s == Coming(e)
           p == r[1][1]
           d == p.data
           n == Len(got[e])
           end == sent[Peer(e)]
<1>1. /\ pc[e] = "open" /\ rdbuf[e] = <<>> /\ Size <= Len(r) /\ Deliver(e, d)
      /\ rbuf' = [rbuf EXCEPT ![e] = Rest(r)] /\ UNCHANGED <<pc, streamVars, sent, ts>>
  BY DEF ReadPacket, Complete, PacketOf
<1>2. /\ r \in Seq(AnyUnit) /\ w \in Seq(AnyUnit) /\ s \in Seq(AnyUnit) /\ s = r \o w
      /\ Len(s) = Len(r) + Len(w) /\ \A k \in 1 .. Len(r) : s[k] = r[k]
  BY ComingSeq DEF Coming
<1>3. n \in Nat /\ Len(rdbuf[e]) = 0 /\ end \in Nat
  BY <1>1, PeerFacts DEF IInv, Shape
<1> HIDE DEF r, w, s
<1>4. 1 \in 1 .. Len(r) /\ s[1] = r[1] /\ s # <<>> /\ Size <= Len(s)
  BY <1>1, <1>2
<1>5. Run(s, end) /\ Follows(p, n)
  <2>1. Run(s, end) /\ Follows(s[1][1], n + Len(rdbuf[e]))
    BY <1>1, <1>4 DEF IInv, FlowInv, FlowOf, s
  <2> QED BY <1>3, <1>4, <2>1
<1>6. p \in Packet
  BY <1>2, <1>4, UnitIs
<1> HIDE DEF p
<1>7. /\ d \in Seq(1 .. MaxSent) /\ Len(d) \in 1 .. ChunkMax /\ p.kind = "data"
      /\ \A k \in 1 .. Len(d) : d[k] = n + k
  <2>1. d \in Seq(1 .. MaxSent)
    BY <1>6 DEF Packet
  <2>2. /\ Len(d) \in 1 .. ChunkMax /\ p.kind = "data" /\ d[1] = n + 1
        /\ \A k \in 1 .. Len(d) : d[k] = d[1] + (k - 1)
    BY <1>5 DEF Follows, IsData
  <2> HIDE DEF d, n
  <2>3. \A k \in 1 .. Len(d) : d[k] = n + k
    BY <1>3, <2>2
  <2> QED BY <2>1, <2>2, <2>3
<1>8. Past(p) = n + Len(d)
  <2>1. Len(d) \in 1 .. Len(d)
    BY <1>7
  <2> QED BY <1>7, <2>1 DEF Past
<1>9. n + Len(d) <= end
  <2>1. Past(s[1][1]) \in 0 .. end
    BY <1>2, <1>4, <1>5 DEF Run
  <2>2. s[1][1] = p
    BY <1>4 DEF p
  <2>3. Len(d) \in Nat
    BY <1>7
  <2> HIDE DEF n, d, end
  <2>4. n + Len(d) \in 0 .. end
    BY <1>8, <2>1, <2>2, Zenon
  <2> QED BY <1>3, <2>3, <2>4
<1> DEFINE t == Rest(s)
<1>10. /\ Rest(r) \in Seq(AnyUnit) /\ Rest(r) \o w = t /\ t \in Seq(AnyUnit)
       /\ Len(t) = Len(s) - Size /\ \A k \in 1 .. Len(s) - Size : t[k] = s[k + Size]
  <2>1. Size <= Len(r)
    BY <1>1
  <2>2. /\ Rest(r) \in Seq(AnyUnit) /\ Rest(r) \o w = Rest(r \o w)
        /\ Rest(r \o w) \in Seq(AnyUnit) /\ Len(Rest(r \o w)) = Len(r \o w) - Size
        /\ \A k \in 1 .. Len(r \o w) - Size : Rest(r \o w)[k] = (r \o w)[k + Size]
    BY <1>2, <2>1, RestJoined
  <2>3. r \o w = s
    BY <1>2
  <2> QED BY <2>2, <2>3, Zenon
<1> HIDE DEF t
<1>11. IF t = <<>> THEN Past(p) = end ELSE Run(t, end) /\ Follows(t[1][1], Past(p))
  <2>1. s[1][1] = p
    BY <1>4 DEF p
  <2>2. IF t = <<>> THEN Past(s[1][1]) = end
        ELSE Run(t, end) /\ Follows(t[1][1], Past(s[1][1]))
    BY <1>2, <1>3, <1>4, <1>5, <1>10, RunRest
  <2> QED BY <2>1, <2>2
<1> DEFINE x == Rest(r)
<1>12. IF x \o wire[Peer(e)] = <<>> THEN n + Len(d) = end
       ELSE Run(x \o wire[Peer(e)], end) /\ Follows((x \o wire[Peer(e)])[1][1], n + Len(d))
  BY <1>8, <1>10, <1>11 DEF w
<1>13. d # <<>> /\ Len(d) <= ChunkMax
  BY <1>7
<1>14. x \in Seq(AnyUnit) /\ rbuf' = [rbuf EXCEPT ![e] = x]
  BY <1>1, <1>10
<1> HIDE DEF x, d
<1> QED BY <1>1, <1>7, <1>9, <1>12, <1>13, <1>14, ReadsKeep

LEMMA ReadMoreKeeps == ASSUME IInv, NEW e \in Ends, ReadMore(e) PROVE IInv'
<1>1. PICK k \in 1 .. Len(wire[Peer(e)]) :
          Take(e, k) /\ rbuf' = [rbuf EXCEPT ![e] = Received(e, k)]
  BY DEF ReadMore
<1>2. UNCHANGED <<pc, fin, userVars, ts>>
  BY DEF ReadMore
<1> QED BY <1>1, <1>2, MovesKeeps

LEMMA CloseKeeps == ASSUME IInv, NEW e \in Ends, Close(e) PROVE IInv'
<1>1. /\ pc' = [pc EXCEPT ![e] = "closed"] /\ wire' \in [Ends -> Seq(AnyUnit)]
      /\ fin' \in [Ends -> BOOLEAN] /\ UNCHANGED <<wire, rbuf, userVars, ts>>
  BY DEF Close, Goto, IInv, Shape
<1> QED BY <1>1, LeavesKeeps, PeerFacts

(* No part of the invariant is about fin.                                  *)
LEMMA FinKeeps ==
    ASSUME IInv, fin' \in [Ends -> BOOLEAN], UNCHANGED <<pc, wire, rbuf, userVars, ts>>
    PROVE  IInv'
<1>1. UNCHANGED <<pc, wire, rbuf, rdbuf, sent, got, ts>>
  BY DEF userVars
<1>2. Shape'
  BY <1>1 DEF IInv, Shape
<1>3. \A e \in Ends : Coming(e)' = Coming(e)
  BY <1>1 DEF Coming
<1>4. FlowInv' /\ AwaitInv'
  BY <1>1, <1>3, PeerFacts DEF IInv, FlowInv, FlowOf, AwaitInv
<1>5. DialInv' /\ GotInv'
  BY <1>1 DEF IInv, DialInv, GotInv
<1> QED BY <1>2, <1>4, <1>5 DEF IInv

-----------------------------------------------------------------------------
(* The theorems                                                            *)

LEMMA InitHolds == Init => IInv
<1> SUFFICES ASSUME Init PROVE IInv
  OBVIOUS
<1>1. /\ pc = [e \in Ends |-> IF e = "client" THEN "dialed" ELSE "read"]
      /\ pc["client"] = "dialed" /\ pc["server"] = "read"
      /\ \A e \in Ends : /\ wire[e] = <<>> /\ rbuf[e] = <<>> /\ rdbuf[e] = <<>> /\ got[e] = <<>>
                         /\ sent[e] = 0
  BY PeerFacts DEF Init
<1>2. Shape
  <2>1. /\ wire \in [Ends -> Seq(AnyUnit)] /\ rbuf \in [Ends -> Seq(AnyUnit)]
        /\ rdbuf \in [Ends -> Seq(1 .. MaxSent)] /\ got \in [Ends -> Seq(1 .. MaxSent)]
        /\ fin \in [Ends -> BOOLEAN] /\ sent \in [Ends -> 0 .. MaxSent] /\ ts \in Times
    BY DEF Init
  <2>2. \A e \in Ends : Len(rdbuf[e]) < ChunkMax
    BY <1>1
  <2>3. pc \in [Ends -> {"dialed", "await", "read", "redirect", "open", "closed"}]
    BY <1>1
  <2> QED BY <1>1, <2>1, <2>2, <2>3 DEF Shape
<1>3. FlowInv /\ AwaitInv
  BY <1>1, PeerFacts DEF FlowInv, FlowOf, AwaitInv
<1>4. DialInv
  <2>1. Len(rbuf["server"]) + Len(wire["client"]) <= Size
    <3>1. rbuf["server"] = <<>> /\ wire["client"] = <<>>
      BY <1>1, PeerFacts
    <3>2. Len(<<>>) + Len(<<>>) <= Size
      OBVIOUS
    <3> QED BY <3>1, <3>2, Zenon
  <2> QED BY <1>1, <2>1, PeerFacts DEF DialInv
<1>5. GotInv
  <2> SUFFICES ASSUME NEW e \in Ends PROVE Len(got[e]) + Len(rdbuf[e]) <= sent[Peer(e)]
    <3>1. \A e \in Ends : DOMAIN got[e] = {} /\ DOMAIN rdbuf[e] = {}
      BY <1>1
    <3> QED BY <3>1 DEF GotInv
  <2>1. got[e] = <<>> /\ rdbuf[e] = <<>> /\ sent[Peer(e)] = 0
    BY <1>1, PeerFacts
  <2>2. Len(<<>>) + Len(<<>>) <= 0
    OBVIOUS
  <2> QED BY <2>1, <2>2, Zenon
<1> QED BY <1>2, <1>3, <1>4, <1>5 DEF IInv

LEMMA NextKeeps == IInv /\ [Next]_vars => IInv'
<1> SUFFICES ASSUME IInv, [Next]_vars PROVE IInv'
  OBVIOUS
<1>1. CASE SendAuth \/ SendAuthFails \/ ClientRead
  BY <1>1, SendAuthKeeps, SendAuthFailsKeeps, ClientReadKeeps
<1>2. CASE ServerReadPart \/ ServerReadAuth \/ ServerEof
  BY <1>2, ServerReadPartKeeps, ServerReadAuthKeeps, ServerEofKeeps
<1>3. CASE ClientReadFails \/ ServerTimeout \/ RedirectEnds
  BY <1>3, FailKeeps, PeerFacts DEF ClientReadFails, ServerTimeout, RedirectEnds
<1>4. ASSUME NEW e \in Ends, Write(e) \/ Reader(e) \/ Close(e) PROVE IInv'
  BY <1>4, WriteKeeps, ReadRestKeeps, ReadPacketKeeps, ReadMoreKeeps, CloseKeeps DEF Reader
<1>5. ASSUME NEW e \in Ends, Finalize(e) PROVE IInv'
  <2>1. fin' \in [Ends -> BOOLEAN] /\ UNCHANGED <<pc, wire, rbuf, userVars, ts>>
    BY <1>5 DEF Finalize, IInv, Shape
  <2> QED BY <2>1, FinKeeps
<1>6. CASE UNCHANGED vars
  <2>1. fin' \in [Ends -> BOOLEAN] /\ UNCHANGED <<pc, wire, rbuf, userVars, ts>>
    BY <1>6 DEF vars, userVars, IInv, Shape
  <2> QED BY <2>1, FinKeeps
<1> QED BY <1>1, <1>2, <1>3, <1>4, <1>5, <1>6 DEF Next, Client, Await, Server

LEMMA IInvHolds == Spec => []IInv
BY InitHolds, NextKeeps, PTL DEF Spec

(* The ends go through the states of relay_connector.go and                *)
(* relay_acceptor.go, what they exchange are packets, and what a Read      *)
(* leaves is less than one packet's data.                                  *)
THEOREM TypeCorrect == Spec => []TypeOK
<1>1. IInv => TypeOK
  BY Typed DEF IInv
<1> QED BY <1>1, IInvHolds, PTL

(* What a user reads from the RelayFrameConn is what the other end's user  *)
(* wrote, in order and without gap or repetition, for packets, buffers and *)
(* streams of any size.                                                    *)
THEOREM StreamsAreIntact == Spec => []StreamIntact
<1>1. IInv => StreamIntact
  <2> SUFFICES ASSUME IInv, NEW e \in Ends
               PROVE  /\ Len(got[e]) <= sent[Peer(e)]
                      /\ \A k \in DOMAIN got[e] : got[e][k] = k
    BY DEF StreamIntact
  <2> DEFINE a == Len(got[e])
             b == Len(rdbuf[e])
             c == sent[Peer(e)]
  <2>1. a \in Nat /\ b \in Nat /\ c \in Nat
    BY PeerFacts DEF IInv, Shape
  <2>2. a + b <= c /\ \A k \in DOMAIN got[e] : got[e][k] = k
    BY DEF IInv, GotInv
  <2> HIDE DEF a, b, c
  <2>3. a <= c
    BY <2>1, <2>2
  <2> QED BY <2>2, <2>3 DEF a, c
<1> QED BY <1>1, IInvHolds, PTL
=============================================================================
