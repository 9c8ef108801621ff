---------------------------- MODULE MixLayerProofs ----------------------------
(***************************************************************************)
(* For any padding, any key and index of the coder, any size of frames and *)
(* of reads, and every way the stream may cut and join the frames: the mix *)
(* layer is the FIFO tunnel Tunnel promises, and what it hands over        *)
(* undecoded begins with the first byte.                                   *)
(***************************************************************************)
EXTENDS MixLayer, WellFoundedInduction, TLAPS

USE PadAssumption, BoundAssumption

(* Induction for a set of numbers, from the least one that is not in it    *)
LEMMA NatInSet ==
    ASSUME NEW S, 0 \in S, \A n \in Nat : n \in S => n + 1 \in S
    PROVE  Nat \subseteq S
<1> DEFINE Missing == Nat \ S
<1> SUFFICES ASSUME Missing # {} PROVE FALSE
  OBVIOUS
<1>1. PICK x \in Missing : \A y \in Missing : <<y, x>> \notin OpToRel(<, Nat)
  <2>1. Missing \subseteq Nat
    OBVIOUS
  <2> HIDE DEF Missing
  <2> QED BY <2>1, WFMin, NatLessThanWellFounded
<1>2. x - 1 \in Nat /\ (x - 1) + 1 = x
  OBVIOUS
<1>3. <<x - 1, x>> \in OpToRel(<, Nat)
  BY <1>2 DEF OpToRel
<1>4. x - 1 \in S
  BY <1>1, <1>2, <1>3
<1> QED BY <1>2, <1>4

-----------------------------------------------------------------------------
(* The invariant                                                           *)

(* The bytes base + 1 .. base + len, encoded with coder by from index on   *)
Chunk == [by: {"none", "xor"}, iv: BOOLEAN, base: Nat, len: Nat \ {0}, index: 0 .. Wrap]
KeyOf(c, i) == IF c.by = "none" THEN 0 ELSE (c.index + i) % KeyLen
FrameOf(c) == [iv |-> c.iv, data |-> [i \in 1 .. c.len |-> <<c.base + i, KeyOf(c, i)>>]]

(* How far a coder is, and how far it is after a chunk                     *)
At(base, index, init, by) == [base |-> base, index |-> index, init |-> init, by |-> by]
IndexPast(c) == IF c.by = "none" \/ c.index + c.len > Wrap THEN 0 ELSE c.index + c.len
Past(c) == At(c.base + c.len, IndexPast(c), TRUE, c.by)
Begins(c, from) ==
    c.base = from.base /\ c.index = from.index /\ c.iv = ~from.init /\ c.by = from.by

Encoder(e) == At(sent[e], wIndex[e], ~ivKey[e], coder)
Decoder(e) == At(Len(got[e]) + Len(decbuf[e]), rIndex[e], initRead[e], coder)

(* What the peer of e has still to decode of what e sent                   *)
Visible(e) == SubSeq(wire[e], counter[Peer(e)] + 1, Len(wire[e]))
Coming(e) == rbuf[Peer(e)] \o Visible(e)

(* The unit s[k] belongs to the frame of the chunk c[k], and the units of  *)
(* a frame, and the frames, follow each other without a gap.               *)
Linked(s, c) ==
    /\ \A k \in 1 .. Len(s) : /\ s[k] = Unit("frame", FrameOf(c[k]), s[k].k)
                              /\ s[k].k \in 1 .. Total(FrameOf(c[k]))
    /\ \A k \in 1 .. Len(s) - 1 :
           IF s[k].k # Total(FrameOf(c[k])) THEN s[k + 1].k = s[k].k + 1 /\ c[k + 1] = c[k]
           ELSE s[k + 1].k = 1 /\ Begins(c[k + 1], Past(c[k]))

Stream(s, c, from) == Linked(s, c) /\ (s # <<>> => s[1].k = 1 /\ Begins(c[1], from))

To(s, c, from) == IF s = <<>> THEN from ELSE Past(c[Len(s)])

Flow(e, c) ==
    LET s == Coming(e)
    IN  /\ Stream(s, c, Decoder(Peer(e)))
        /\ pc[e] = "open" => /\ s # <<>> => s[Len(s)].k = Total(FrameOf(c[Len(s)]))
                             /\ To(s, c, Decoder(Peer(e))) = Encoder(e)
        /\ \A k \in 1 .. Len(s) :
               s[k].k = Total(FrameOf(c[k])) => c[k].base + c[k].len <= sent[e]
        /\ Decoder(Peer(e)).base <= sent[e]

GotInv == \A e \in Ends :
    /\ \A k \in DOMAIN got[e] : got[e][k] = k
    /\ \A k \in DOMAIN decbuf[e] : decbuf[e][k] = Len(got[e]) + k

(* While nothing of it was sent, the padding is all there is to skip.      *)
PadInv == \A e \in Ends :
    pc[e] = "open" => IF wbuf[e] > 0 THEN wire[e] = <<>> /\ counter[Peer(e)] = wbuf[e]
                      ELSE counter[Peer(e)] <= Len(wire[e])

RoleInv ==
    /\ \A e \in Ends : fin[e] => pc[e] = "closed"
    /\ pc["server"] = "raw" \/ rawSent["server"] > 0 =>
           pc["client"] # "open" /\ pc["server"] # "open"
    /\ rawSent["client"] > 0 => pc["client"] # "open"
    /\ pc["client"] = "stranger" => sent["client"] = 0

Stranger == pc["client"] = "stranger" \/ rawSent["client"] > 0

(* What a stranger sent, without what was taken for padding                *)
StrangerInv ==
    LET skipped == (IF padded THEN PadLen["client"] ELSE 0) - counter["server"]
        n == rawSent["client"]
    IN  Stranger =>
        /\ ~initRead["server"] /\ decbuf["server"] = <<>>
        /\ skipped >= 0
        /\ Len(raw) + Len(rbuf["server"]) + Len(wire["client"]) + skipped = n
        /\ counter["server"] > 0 => raw = <<>> /\ rbuf["server"] = <<>>
        /\ \A k \in DOMAIN raw : raw[k].k = skipped + k
        /\ \A k \in DOMAIN rbuf["server"] : rbuf["server"][k] = RawUnit(skipped + Len(raw) + k)
        /\ \A k \in DOMAIN wire["client"] :
               wire["client"][k] = RawUnit(n - Len(wire["client"]) + k)

(* What the server holds of a frame that was cut short                     *)
CutInv ==
    /\ \A e \in Ends : pc[e] = "open" /\ rawSent[Peer(e)] = 0 => 
           \A k \in DOMAIN rbuf[e] : rbuf[e][k].k = k
    /\ pc["server"] = "open" => raw = <<>>
    /\ ~Stranger /\ pc["server"] = "raw" =>
           /\ pc["client"] = "closed" /\ wire["client"] = <<>>
           /\ ~initRead["server"] =>
                 \A k \in DOMAIN rbuf["server"] : rbuf["server"][k].k = Len(raw) + k
    /\ ~Stranger /\ ~initRead["server"] => \A k \in DOMAIN raw : raw[k].k = k

(* What is on its way decodes to what the user has still to get.           *)
FlowOf(e) ==
    pc[Peer(e)] = "open" /\ rawSent[e] = 0 => \E c \in [1 .. Len(Coming(e)) -> Chunk] : Flow(e, c)

FlowInv == \A e \in Ends : FlowOf(e)

(* All that may travel                                                     *)
AnyUnit == {Unit("frame", FrameOf(c), k) : c \in Chunk, k \in Nat}
               \cup {RawUnit(k) : k \in Nat} \cup {Pad}

-----------------------------------------------------------------------------
(* Chunks and their frames                                                 *)

USE DEF At

LEMMA FrameShape ==
    ASSUME NEW c \in Chunk
    PROVE  /\ FrameOf(c).iv = c.iv /\ c.iv \in BOOLEAN
           /\ c.len \in Nat /\ c.len >= 1 /\ c.base \in Nat /\ c.index \in 0 .. Wrap
           /\ Len(FrameOf(c).data) = c.len
           /\ Total(FrameOf(c)) = 3 + IvLen(c.iv) + c.len
           /\ Total(FrameOf(c)) \in Nat /\ Total(FrameOf(c)) >= 4
<1>1. c.len \in Nat /\ c.len >= 1 /\ c.iv \in BOOLEAN
  BY DEF Chunk
<1>2. FrameOf(c).data = [i \in 1 .. c.len |-> <<c.base + i, KeyOf(c, i)>>]
  BY DEF FrameOf
<1>3. Len(FrameOf(c).data) = c.len
  BY <1>1, <1>2
<1>4. Total(FrameOf(c)) = 3 + IvLen(c.iv) + c.len
  BY <1>1, <1>3 DEF Total, HeadLen, FrameOf, IvLen
<1> QED BY <1>1, <1>3, <1>4 DEF FrameOf, IvLen, Chunk

(* A decoder at the index of the encoder gets the bytes back.              *)
LEMMA DecodeEncode ==
    ASSUME NEW c \in Chunk, c.by = coder
    PROVE  Decode(c.index, FrameOf(c).data) = [i \in 1 .. c.len |-> c.base + i]
<1> DEFINE d == FrameOf(c).data
<1>1. d = [i \in 1 .. c.len |-> <<c.base + i, KeyAt(c.index, i)>>]
  BY DEF FrameOf, KeyOf, KeyAt
<1> HIDE DEF d
<1>2. DOMAIN d = 1 .. c.len /\ \A i \in 1 .. c.len : d[i] = <<c.base + i, KeyAt(c.index, i)>>
  BY <1>1
<1>3. \A i \in 1 .. c.len : d[i][2] = KeyAt(c.index, i) /\ d[i][1] = c.base + i
  BY <1>2
<1>4. Decode(c.index, d) = [i \in 1 .. c.len |-> c.base + i]
  BY <1>2, <1>3 DEF Decode
<1> QED BY <1>4 DEF d

LEMMA AdvanceIsPast ==
    ASSUME NEW c \in Chunk
    PROVE  /\ c.by = coder => Advance(c.index, c.len) = IndexPast(c)
           /\ IndexPast(c) \in 0 .. Wrap
BY DEF Advance, IndexPast, Chunk

-----------------------------------------------------------------------------
(* Decoding                                                                *)

LEMMA DecodingUnfolds ==
    ASSUME NEW e, NEW units \in Seq(AnyUnit)
    PROVE  Decoding(e, units) =
               [n \in 0 .. Len(units) |->
                   IF n = 0 THEN [out |-> <<>>, index |-> rIndex[e], init |-> initRead[e]]
                   ELSE IF n \in Complete(units)
                   THEN DecodeFrame(Decoding(e, units)[n - 1], units[n].frame)
                   ELSE Decoding(e, units)[n - 1]]
<1> DEFINE start == [out |-> <<>>, index |-> rIndex[e], init |-> initRead[e]]
           IsDecoding(f, m) ==
               f = [n \in 0 .. m |->
                       IF n = 0 THEN start
                       ELSE IF n \in Complete(units) THEN DecodeFrame(f[n - 1], units[n].frame)
                       ELSE f[n - 1]]
           S == {m \in Nat : \E f : IsDecoding(f, m)}
<1>1. 0 \in S
  <2>1. IsDecoding([n \in 0 .. 0 |-> start], 0)
    <3> HIDE DEF start
    <3> QED OBVIOUS
  <2> QED BY <2>1
<1>2. ASSUME NEW m \in Nat, m \in S PROVE m + 1 \in S
  <2>1. PICK f : IsDecoding(f, m)
    BY <1>2
  <2> DEFINE last == IF m + 1 \in Complete(units) THEN DecodeFrame(f[m], units[m + 1].frame)
                     ELSE f[m]
             g == [n \in 0 .. m + 1 |-> IF n <= m THEN f[n] ELSE last]
  <2> HIDE DEF start
  <2>2. \A n \in 0 .. m : f[n] = IF n = 0 THEN start
                                 ELSE IF n \in Complete(units)
                                 THEN DecodeFrame(f[n - 1], units[n].frame) ELSE f[n - 1]
    BY <2>1
  <2>3. /\ \A n \in 0 .. m : g[n] = f[n]
        /\ g[m + 1] = last /\ (m + 1) - 1 = m /\ m + 1 # 0
    BY <1>2
  <2>4. \A n \in 0 .. m + 1 : g[n] = IF n = 0 THEN start
                                     ELSE IF n \in Complete(units)
                                     THEN DecodeFrame(g[n - 1], units[n].frame) ELSE g[n - 1]
    <3> SUFFICES ASSUME NEW n \in 0 .. m + 1
                 PROVE  g[n] = IF n = 0 THEN start
                               ELSE IF n \in Complete(units)
                               THEN DecodeFrame(g[n - 1], units[n].frame) ELSE g[n - 1]
      OBVIOUS
    <3> HIDE DEF g, last
    <3>1. CASE n = m + 1
      <4>1. g[n - 1] = f[m]
        BY <2>3, <3>1
      <4> QED BY <2>3, <3>1, <4>1 DEF last
    <3>2. CASE n # m + 1
      <4>1. n \in 0 .. m /\ (n # 0 => n - 1 \in 0 .. m)
        BY <3>2
      <4> QED BY <2>2, <2>3, <4>1
    <3> QED BY <3>1, <3>2
  <2>5. IsDecoding(g, m + 1)
    <3> HIDE DEF last
    <3> QED BY <2>4
  <2> HIDE DEF IsDecoding, g
  <2> QED BY <2>5
<1>3. Nat \subseteq S
  <2> HIDE DEF S
  <2> QED BY <1>1, <1>2, NatInSet
<1>4. \E f : IsDecoding(f, Len(units))
  BY <1>3
<1>5. Decoding(e, units) = CHOOSE f : IsDecoding(f, Len(units))
  BY DEF Decoding
<1>6. IsDecoding(Decoding(e, units), Len(units))
  <2> HIDE DEF IsDecoding
  <2> QED BY <1>4, <1>5
<1> QED BY <1>6

(* m bytes, the first of them b + 1                                        *)
Bytes(b, m) == [i \in 1 .. m |-> b + i]

LEMMA BytesJoin ==
    ASSUME NEW b \in Nat, NEW m \in Nat, NEW n \in Nat
    PROVE  Bytes(b, m) \o Bytes(b + m, n) = Bytes(b, m + n)
BY DEF Bytes

LEMMA BytesLen ==
    ASSUME NEW b \in Nat, NEW m \in Nat
    PROVE  Bytes(b, m) \in Seq(Nat) /\ Len(Bytes(b, m)) = m /\ Bytes(b, 0) = <<>>
BY DEF Bytes

(* What the decoder of e has made of the first n units, the last complete  *)
(* frame of which ends at u                                                *)
DecodedTo(e, units, c, from, n, u) ==
    LET d == Decoding(e, units)[n]
        now == At(from.base + Len(d.out), d.index, d.init, coder)
    IN  /\ d.index \in 0 .. Wrap /\ d.init \in BOOLEAN
        /\ \E m \in Nat : d.out = Bytes(from.base, m)
        /\ IF u = 0 THEN now = from
           ELSE units[u].k = Total(FrameOf(c[u])) /\ now = Past(c[u])
        /\ \A j \in u + 1 .. n : /\ units[j].k = j - u /\ Begins(c[j], now)
                                 /\ units[j].k # Total(FrameOf(c[j]))

LEMMA StreamDecodes ==
    ASSUME NEW e \in Ends, NEW units \in Seq(AnyUnit), NEW c \in [1 .. Len(units) -> Chunk],
           NEW from, from = At(from.base, rIndex[e], initRead[e], coder),
           from.base \in Nat, rIndex[e] \in 0 .. Wrap, initRead[e] \in BOOLEAN,
           Stream(units, c, from)
    PROVE  \A n \in 0 .. Len(units) : \E u \in 0 .. n : DecodedTo(e, units, c, from, n, u)
<1> DEFINE N == Len(units)
           D == Decoding(e, units)
           P(n) == \E u \in 0 .. n : DecodedTo(e, units, c, from, n, u)
           S == {n \in Nat : n <= N => P(n)}
<1>1. N \in Nat /\ DOMAIN units = 1 .. N
  OBVIOUS
<1>2. D[0] = [out |-> <<>>, index |-> rIndex[e], init |-> initRead[e]]
  <2> HIDE DEF At
  <2>1. 0 \in 0 .. N
    BY <1>1
  <2> QED BY <2>1, DecodingUnfolds
<1>3. \A n \in 0 .. N : n # 0 =>
          D[n] = IF n \in Complete(units) THEN DecodeFrame(D[n - 1], units[n].frame) ELSE D[n - 1]
  BY DecodingUnfolds
<1>4. \A k \in 1 .. N : /\ units[k].frame = FrameOf(c[k]) /\ c[k] \in Chunk
                        /\ units[k].k \in 1 .. Total(FrameOf(c[k]))
  <2>1. \A k \in 1 .. N : units[k] = Unit("frame", FrameOf(c[k]), units[k].k)
    BY DEF Stream, Linked
  <2>2. \A k \in 1 .. N : units[k].frame = FrameOf(c[k])
    <3> TAKE k \in 1 .. N
    <3>1. units[k] = Unit("frame", FrameOf(c[k]), units[k].k)
      BY <2>1
    <3>2. Unit("frame", FrameOf(c[k]), units[k].k).frame = FrameOf(c[k])
      BY DEF Unit
    <3> QED BY <3>1, <3>2
  <2> QED BY <2>2 DEF Stream, Linked
<1>5. \A k \in 1 .. N : k \in Complete(units) <=> units[k].k = Total(FrameOf(c[k]))
  BY <1>1, <1>4 DEF Complete
<1>6. 0 \in S
  <2>1. D[0].out = <<>> /\ D[0].index = rIndex[e] /\ D[0].init = initRead[e]
    BY <1>2
  <2>2. Len(D[0].out) = 0 /\ from.base + 0 = from.base
    BY <2>1
  <2>3. D[0].out = Bytes(from.base, 0)
    BY <2>1, BytesLen
  <2> HIDE DEF D
  <2>4. DecodedTo(e, units, c, from, 0, 0)
    <3>1. 0 + 1 .. 0 = {}
      OBVIOUS
    <3>2. At(from.base + Len(D[0].out), D[0].index, D[0].init, coder) = from
      BY <2>1, <2>2
    <3> QED BY <2>1, <2>3, <3>1, <3>2 DEF DecodedTo, D
  <2> QED BY <2>4
<1>7. ASSUME NEW n \in Nat, n \in S PROVE n + 1 \in S
  <2> SUFFICES ASSUME n + 1 <= N PROVE P(n + 1)
    OBVIOUS
  <2>1. PICK u \in 0 .. n : DecodedTo(e, units, c, from, n, u)
    BY <1>1, <1>7
  <2> DEFINE d == D[n]
             now == At(from.base + Len(d.out), d.index, d.init, coder)
             h == c[n + 1]
             x == units[n + 1]
  <2>2. /\ n + 1 \in 1 .. N /\ h \in Chunk /\ x.frame = FrameOf(h)
        /\ x.k \in 1 .. Total(FrameOf(h))
    BY <1>1, <1>4
  <2>3. /\ d.index \in 0 .. Wrap /\ d.init \in BOOLEAN
        /\ IF u = 0 THEN now = from ELSE units[u].k = Total(FrameOf(c[u])) /\ now = Past(c[u])
        /\ \A j \in u + 1 .. n : /\ units[j].k = j - u /\ Begins(c[j], now)
                                 /\ units[j].k # Total(FrameOf(c[j]))
    BY <2>1 DEF DecodedTo
  <2>4. PICK m \in Nat : d.out = Bytes(from.base, m)
    BY <2>1 DEF DecodedTo
  <2>5. Len(d.out) = m
    BY <2>4, BytesLen
  <2> HIDE DEF D, d, now, h, x
  <2>6. x.k = n + 1 - u /\ Begins(h, now)
    <3>1. CASE u = n /\ n = 0
      <4>1. x.k = 1 /\ Begins(h, from)
        BY <2>2, <3>1 DEF Stream, x, h
      <4> QED BY <2>3, <3>1, <4>1
    <3>2. CASE u = n /\ n # 0
      <4>1. n \in 1 .. N - 1 /\ units[n].k = Total(FrameOf(c[n])) /\ now = Past(c[n])
        BY <1>1, <2>2, <2>3, <3>2
      <4>2. x.k = 1 /\ Begins(h, Past(c[n]))
        BY <4>1 DEF Stream, Linked, x, h
      <4> QED BY <3>2, <4>1, <4>2
    <3>3. CASE u # n
      <4>1. n \in u + 1 .. n /\ n \in 1 .. N - 1
        BY <1>1, <2>2, <3>3, SMTT(30)
      <4>2. units[n].k = n - u /\ Begins(c[n], now) /\ units[n].k # Total(FrameOf(c[n]))
        BY <2>3, <4>1
      <4>3. x.k = units[n].k + 1 /\ h = c[n]
        BY <4>1, <4>2 DEF Stream, Linked, x, h
      <4> QED BY <4>2, <4>3
    <3> QED BY <3>1, <3>2, <3>3
  <2>7. D[n + 1] = IF x.k = Total(FrameOf(h)) THEN DecodeFrame(d, FrameOf(h)) ELSE d
    <3>1. n + 1 # 0 /\ (n + 1) - 1 = n
      OBVIOUS
    <3>2. n + 1 \in 0 .. N
      <4> HIDE DEF N
      <4> QED BY <1>1
    <3> QED BY <1>3, <1>5, <2>2, <3>1, <3>2 DEF d, x, h
  <2>8. CASE x.k # Total(FrameOf(h))
    <3>1. D[n + 1] = d
      BY <2>7, <2>8
    <3>2. \A j \in u + 1 .. n + 1 : j \in u + 1 .. n \/ j = n + 1
      OBVIOUS
    <3>3. \A j \in u + 1 .. n + 1 : /\ units[j].k = j - u /\ Begins(c[j], now)
                                    /\ units[j].k # Total(FrameOf(c[j]))
      <4> TAKE j \in u + 1 .. n + 1
      <4>1. CASE j \in u + 1 .. n
        BY <2>3, <4>1
      <4>2. CASE j = n + 1
        BY <2>6, <2>8, <4>2 DEF x, h
      <4> QED BY <3>2, <4>1, <4>2
    <3>4. DecodedTo(e, units, c, from, n + 1, u)
      BY <2>3, <2>4, <3>1, <3>3 DEF DecodedTo, D, now
    <3> QED BY <3>4
  <2>9. CASE x.k = Total(FrameOf(h))
    <3> DEFINE new == DecodeFrame(d, FrameOf(h))
    <3>1. D[n + 1] = new
      BY <2>7, <2>9
    <3>2. h.base = from.base + m /\ h.index = d.index /\ h.iv = ~d.init /\ h.by = coder
      BY <2>5, <2>6 DEF Begins, now, At
    <3>3. /\ FrameOf(h).iv = h.iv /\ h.len \in Nat /\ Len(FrameOf(h).data) = h.len
      BY <2>2, FrameShape
    <3>4. FrameOf(h).iv # d.init
      BY <2>3, <3>2, <3>3
    <3>5. new.out = d.out \o Bytes(h.base, h.len)
      <4>1. Decode(d.index, FrameOf(h).data) = Bytes(h.base, h.len)
        BY <2>2, <3>2, DecodeEncode DEF Bytes
      <4>2. new.out = d.out \o Decode(d.index, FrameOf(h).data)
        BY <3>4 DEF DecodeFrame
      <4> QED BY <4>1, <4>2
    <3>6. new.out = Bytes(from.base, m + h.len) /\ Len(new.out) = m + h.len
      <4>1. new.out = Bytes(from.base, m) \o Bytes(from.base + m, h.len)
        BY <2>4, <3>2, <3>5
      <4> HIDE DEF new
      <4>2. new.out = Bytes(from.base, m + h.len)
        BY <3>3, <4>1, BytesJoin
      <4>3. m + h.len \in Nat /\ from.base \in Nat
        BY <3>3, SMTT(30)
      <4>4. Len(Bytes(from.base, m + h.len)) = m + h.len
        BY <4>3, BytesLen
      <4> QED BY <4>2, <4>4
    <3>7. new.index = IndexPast(h) /\ new.init = TRUE
      <4>1. new.index = Advance(h.index, h.len) /\ new.init = TRUE
        BY <3>2, <3>3 DEF DecodeFrame
      <4> HIDE DEF new
      <4> QED BY <2>2, <3>2, <4>1, AdvanceIsPast
    <3> HIDE DEF new
    <3>8. new.index \in 0 .. Wrap /\ m + h.len \in Nat
      <4>1. IndexPast(h) \in 0 .. Wrap
        BY <2>2, AdvanceIsPast
      <4> QED BY <3>3, <3>7, <4>1, SMTT(30)
    <3>9. At(from.base + Len(new.out), new.index, new.init, coder) = Past(h)
      <4>1. from.base + Len(new.out) = h.base + h.len
        BY <3>2, <3>3, <3>6, SMTT(30)
      <4> QED BY <3>2, <3>7, <4>1 DEF Past, At
    <3>10. (n + 1) + 1 .. n + 1 = {} /\ n + 1 # 0 /\ n + 1 \in 0 .. n + 1
      OBVIOUS
    <3>11. DecodedTo(e, units, c, from, n + 1, n + 1)
      BY <2>9, <3>1, <3>6, <3>7, <3>8, <3>9, <3>10 DEF DecodedTo, D, x, h
    <3> QED BY <3>10, <3>11
  <2> QED BY <2>8, <2>9
<1>8. Nat \subseteq S
  <2> HIDE DEF S
  <2> QED BY <1>6, <1>7, NatInSet
<1> QED BY <1>1, <1>8

-----------------------------------------------------------------------------
(* Streams                                                                 *)

LEMMA SeqJoin ==
    ASSUME NEW S, NEW s \in Seq(S), NEW t \in Seq(S)
    PROVE  /\ s \o t \in Seq(S) /\ Len(s \o t) = Len(s) + Len(t)
           /\ \A k \in 1 .. Len(s) : (s \o t)[k] = s[k]
           /\ \A k \in Len(s) + 1 .. Len(s) + Len(t) : (s \o t)[k] = t[k - Len(s)]
OBVIOUS

ChunksOf(s) == [1 .. Len(s) -> Chunk]

LEMMA UnitShape ==
    ASSUME NEW f, NEW k
    PROVE  /\ Unit("frame", f, k).frame = f /\ Unit("frame", f, k).k = k
           /\ Unit("frame", f, k).kind = "frame"
BY DEF Unit

LEMMA FrameUnits ==
    ASSUME NEW h \in Chunk
    PROVE  LET f == EncodeHeadFrame(FrameOf(h))
           IN  /\ f \in Seq(AnyUnit) /\ Len(f) = Total(FrameOf(h))
               /\ \A k \in 1 .. Total(FrameOf(h)) : f[k] = Unit("frame", FrameOf(h), k)
<1> DEFINE n == Total(FrameOf(h))
<1>1. n \in Nat
  BY FrameShape
<1>2. \A k \in 1 .. n : Unit("frame", FrameOf(h), k) \in AnyUnit
  BY <1>1 DEF AnyUnit
<1> HIDE DEF n
<1>3. EncodeHeadFrame(FrameOf(h)) = [k \in 1 .. n |-> Unit("frame", FrameOf(h), k)]
  BY DEF EncodeHeadFrame, n
<1> QED BY <1>1, <1>2, <1>3 DEF n

(* The stream s goes on as t, with n units of the frame of h.              *)
GoesOn(s, c, h, from, n, t) ==
    /\ Len(t) = Len(s) + n
    /\ \E d \in ChunksOf(t) :
          /\ Stream(t, d, from)
          /\ \A k \in 1 .. Len(s) : t[k] = s[k] /\ d[k] = c[k]
          /\ \A k \in Len(s) + 1 .. Len(t) : t[k].k = k - Len(s) /\ d[k] = h

LEMMA StreamAppend ==
    ASSUME NEW s \in Seq(AnyUnit), NEW c \in ChunksOf(s), NEW h \in Chunk, NEW from,
           Stream(s, c, from), s # <<>> => s[Len(s)].k = Total(FrameOf(c[Len(s)])),
           Begins(h, To(s, c, from)),
           NEW n \in 0 .. Total(FrameOf(h))
    PROVE  GoesOn(s, c, h, from, n, s \o SubSeq(EncodeHeadFrame(FrameOf(h)), 1, n))
<1> DEFINE f == EncodeHeadFrame(FrameOf(h))
           b == SubSeq(f, 1, n)
           t == s \o b
           L == Len(s)
           d == [k \in 1 .. L + n |-> IF k <= L THEN c[k] ELSE h]
           u(k) == Unit("frame", FrameOf(h), k)
           full == Total(FrameOf(h))
<1>1. L \in Nat /\ n \in Nat /\ full \in Nat /\ n <= full
  BY FrameShape
<1>2. b \in Seq(AnyUnit) /\ Len(b) = n /\ \A k \in 1 .. n : b[k] = u(k)
  <2>1. f \in Seq(AnyUnit) /\ Len(f) = full /\ \A k \in 1 .. full : f[k] = u(k)
    BY FrameUnits
  <2> HIDE DEF f, full, u
  <2> QED BY <1>1, <2>1
<1> HIDE DEF b
<1>3. /\ Len(t) = L + n /\ t \in Seq(AnyUnit)
      /\ \A k \in 1 .. L : t[k] = s[k]
      /\ \A k \in L + 1 .. L + n : t[k] = b[k - L]
  <2>1. b \in Seq(AnyUnit) /\ Len(b) = n
    BY <1>2
  <2> QED BY <2>1, SeqJoin, ZenonT(40)
<1> HIDE DEF t
<1>4. /\ d \in ChunksOf(t)
      /\ \A k \in 1 .. L : d[k] = c[k]
      /\ \A k \in L + 1 .. L + n : d[k] = h
  BY <1>1, <1>3 DEF ChunksOf
<1>5. \A k \in L + 1 .. L + n : t[k] = u(k - L) /\ t[k].k = k - L
  <2> TAKE k \in L + 1 .. L + n
  <2>1. k - L \in 1 .. n
    BY <1>1
  <2>2. t[k] = u(k - L)
    BY <1>2, <1>3, <2>1
  <2> QED BY <2>2, UnitShape
<1> HIDE DEF d, u
<1>6. Linked(t, d)
  <2>1. ASSUME NEW k \in 1 .. L + n
        PROVE  /\ t[k] = Unit("frame", FrameOf(d[k]), t[k].k)
               /\ t[k].k \in 1 .. Total(FrameOf(d[k]))
    <3>1. CASE k \in 1 .. L
      BY <1>3, <1>4, <3>1 DEF Stream, Linked
    <3>2. CASE k \in L + 1 .. L + n
      <4>1. t[k] = u(k - L) /\ t[k].k = k - L /\ d[k] = h
        BY <1>4, <1>5, <3>2
      <4>2. k - L \in 1 .. full
        BY <1>1, <3>2
      <4> QED BY <4>1, <4>2 DEF u
    <3> QED BY <1>1, <3>1, <3>2
  <2>2. ASSUME NEW k \in 1 .. L + n - 1
        PROVE  IF t[k].k # Total(FrameOf(d[k]))
               THEN t[k + 1].k = t[k].k + 1 /\ d[k + 1] = d[k]
               ELSE t[k + 1].k = 1 /\ Begins(d[k + 1], Past(d[k]))
    <3>1. CASE k < L
      <4>1. k \in 1 .. L /\ k + 1 \in 1 .. L /\ k \in 1 .. L - 1
        BY <1>1, <3>1
      <4> QED BY <1>3, <1>4, <4>1 DEF Stream, Linked
    <3>2. CASE k = L
      <4>1. k \in 1 .. L /\ k + 1 \in L + 1 .. L + n /\ s # <<>>
        BY <1>1, <3>2
      <4>2. t[k].k = Total(FrameOf(d[k])) /\ d[k] = c[L]
        BY <1>3, <1>4, <3>2, <4>1
      <4>3. t[k + 1].k = 1 /\ d[k + 1] = h
        BY <1>1, <1>4, <1>5, <3>2, <4>1
      <4>4. Begins(h, Past(c[L]))
        BY <4>1 DEF To
      <4> QED BY <4>2, <4>3, <4>4
    <3>3. CASE k > L
      <4>1. k \in L + 1 .. L + n /\ k + 1 \in L + 1 .. L + n /\ k - L # full
        BY <1>1, <3>3
      <4>2. t[k].k = k - L /\ t[k + 1].k = (k + 1) - L /\ d[k] = h /\ d[k + 1] = h
        BY <1>4, <1>5, <4>1
      <4> QED BY <1>1, <4>1, <4>2
    <3> QED BY <1>1, <3>1, <3>2, <3>3
  <2> QED BY <1>3, <2>1, <2>2 DEF Linked
<1>7. Stream(t, d, from)
  <2> SUFFICES ASSUME t # <<>> PROVE t[1].k = 1 /\ Begins(d[1], from)
    BY <1>6 DEF Stream
  <2>1. CASE L > 0
    <3>1. 1 \in 1 .. L /\ s # <<>>
      BY <1>1, <2>1
    <3> QED BY <1>3, <1>4, <3>1 DEF Stream
  <2>2. CASE L = 0
    <3>1. s = <<>> /\ To(s, c, from) = from
      BY <2>2 DEF To
    <3>2. 1 \in L + 1 .. L + n
      BY <1>1, <1>3, <2>2
    <3> QED BY <1>4, <1>5, <2>2, <3>1, <3>2
  <2> QED BY <1>1, <2>1, <2>2
<1> QED BY <1>3, <1>4, <1>5, <1>7 DEF GoesOn, t, b

(* The front of a stream is one too.                                       *)
LEMMA StreamFront ==
    ASSUME NEW units \in Seq(AnyUnit), NEW rest \in Seq(AnyUnit),
           NEW c \in ChunksOf(units \o rest), NEW from, Stream(units \o rest, c, from)
    PROVE  \E d \in ChunksOf(units) : /\ Stream(units, d, from)
                                      /\ \A k \in 1 .. Len(units) : d[k] = c[k]
<1> DEFINE s == units \o rest
           N == Len(units)
           d == [k \in 1 .. N |-> c[k]]
<1>1. N \in Nat /\ Len(rest) \in Nat /\ Len(s) = N + Len(rest) /\ \A k \in 1 .. N : s[k] = units[k]
  OBVIOUS
<1>2. d \in ChunksOf(units) /\ \A k \in 1 .. N : d[k] = c[k]
  BY <1>1 DEF ChunksOf
<1>3. \A k \in 1 .. N : k \in 1 .. Len(s)
  BY <1>1
<1>4. \A k \in 1 .. N - 1 : k \in 1 .. Len(s) - 1 /\ k \in 1 .. N /\ k + 1 \in 1 .. N
  BY <1>1
<1>5. Linked(s, c) /\ (s # <<>> => s[1].k = 1 /\ Begins(c[1], from))
  BY DEF Stream
<1> HIDE DEF d, s
<1>6. Linked(units, d)
  <2>1. \A k \in 1 .. N : /\ units[k] = Unit("frame", FrameOf(d[k]), units[k].k)
                          /\ units[k].k \in 1 .. Total(FrameOf(d[k]))
    BY <1>1, <1>2, <1>3, <1>5 DEF Linked
  <2>2. \A k \in 1 .. N - 1 :
           IF units[k].k # Total(FrameOf(d[k]))
           THEN units[k + 1].k = units[k].k + 1 /\ d[k + 1] = d[k]
           ELSE units[k + 1].k = 1 /\ Begins(d[k + 1], Past(d[k]))
    BY <1>1, <1>2, <1>4, <1>5 DEF Linked
  <2> QED BY <2>1, <2>2 DEF Linked
<1>7. units # <<>> => 1 \in 1 .. N /\ s # <<>>
  BY <1>1 DEF s
<1> QED BY <1>1, <1>2, <1>5, <1>6, <1>7 DEF Stream

LEMMA UsedIs ==
    ASSUME NEW units \in Seq(AnyUnit), NEW u \in 0 .. Len(units),
           u = 0 \/ u \in Complete(units),
           \A j \in u + 1 .. Len(units) : j \notin Complete(units)
    PROVE  Used(units) = u
<1> DEFINE A == Complete(units) \cup {0}
           m == CHOOSE x \in A : \A y \in A : x >= y
<1>1. Len(units) \in Nat /\ Complete(units) \subseteq 1 .. Len(units)
  BY DEF Complete
<1>2. u \in A /\ \A y \in A : u >= y /\ y \in Nat
  BY <1>1
<1> HIDE DEF A
<1>3. m \in A /\ \A y \in A : m >= y
  BY <1>2
<1>4. m >= u /\ u >= m /\ m \in Nat
  BY <1>2, <1>3
<1> HIDE DEF m
<1>5. m = u
  BY <1>4
<1> QED BY <1>5 DEF Used, Max, m, A

LEMMA SeqEmpty ==
    ASSUME NEW S, NEW s \in Seq(S)
    PROVE  Len(s) \in Nat /\ (Len(s) = 0 <=> s = <<>>)
OBVIOUS

(* What is left of two sequences when the first u elements are taken off   *)
LEMMA SeqRest ==
    ASSUME NEW S, NEW s \in Seq(S), NEW t \in Seq(S), NEW u \in 0 .. Len(s)
    PROVE  LET r == SubSeq(s, u + 1, Len(s)) \o t
           IN  /\ r \in Seq(S) /\ Len(r) = Len(s) + Len(t) - u
               /\ \A k \in 1 .. Len(s) + Len(t) - u : r[k] = (s \o t)[k + u]
<1> DEFINE b == SubSeq(s, u + 1, Len(s))
           m == Len(s)
           n == Len(t)
           w == s \o t
           r == b \o t
<1>1. m \in Nat /\ n \in Nat /\ u \in Nat /\ u <= m
  OBVIOUS
<1>2. b \in Seq(S) /\ Len(b) = m - u /\ \A k \in 1 .. m - u : b[k] = s[k + u]
  OBVIOUS
<1>3. /\ \A k \in 1 .. m : w[k] = s[k]
      /\ \A k \in m + 1 .. m + n : w[k] = t[k - m]
  BY SeqJoin
<1> HIDE DEF b, w
<1>4. /\ r \in Seq(S) /\ Len(r) = Len(b) + n
      /\ \A k \in 1 .. Len(b) : r[k] = b[k]
      /\ \A k \in Len(b) + 1 .. Len(b) + n : r[k] = t[k - Len(b)]
  BY <1>2, SeqJoin
<1> HIDE DEF r, m, n
<1>5. Len(r) = m + n - u
  BY <1>1, <1>2, <1>4
<1>6. \A k \in 1 .. m + n - u : r[k] = w[k + u]
  <2> TAKE k \in 1 .. m + n - u
  <2>1. CASE k <= m - u
    <3>1. k \in 1 .. m - u /\ k + u \in 1 .. m
      BY <1>1, <2>1
    <3>2. r[k] = b[k] /\ b[k] = s[k + u] /\ w[k + u] = s[k + u]
      BY <1>2, <1>3, <1>4, <3>1
    <3> QED BY <3>2
  <2>2. CASE ~(k <= m - u)
    <3>1. /\ k \in (m - u) + 1 .. (m - u) + n /\ k + u \in m + 1 .. m + n
          /\ k - (m - u) = (k + u) - m
      BY <1>1, <2>2
    <3>2. r[k] = t[k - (m - u)] /\ w[k + u] = t[(k + u) - m]
      BY <1>2, <1>3, <1>4, <3>1
    <3> QED BY <3>1, <3>2
  <2> QED BY <2>1, <2>2
<1> QED BY <1>4, <1>5, <1>6 DEF r, b, w, m, n

(* The rest of a stream is linked as the stream is.                        *)
LEMMA LinkedRest ==
    ASSUME NEW s \in Seq(AnyUnit), NEW t \in Seq(AnyUnit), NEW c \in ChunksOf(s),
           NEW u \in 0 .. Len(s), Len(t) = Len(s) - u,
           \A k \in 1 .. Len(s) - u : t[k] = s[k + u], Linked(s, c)
    PROVE  \E f \in ChunksOf(t) : Linked(t, f) /\ \A k \in 1 .. Len(s) - u : f[k] = c[k + u]
<1> DEFINE L == Len(s)
           f == [k \in 1 .. L - u |-> c[k + u]]
<1>0. L \in Nat /\ u \in 0 .. L /\ Len(s) = L /\ Len(t) = L - u /\ c \in [1 .. L -> Chunk]
  BY DEF ChunksOf
<1> HIDE DEF L
<1>1. \A k \in 1 .. L - u : k + u \in 1 .. L
  BY <1>0
<1>2. f \in ChunksOf(t) /\ \A k \in 1 .. L - u : f[k] = c[k + u]
  BY <1>0, <1>1 DEF ChunksOf
<1> HIDE DEF f
<1>3. ASSUME NEW k \in 1 .. L - u
      PROVE  /\ t[k] = Unit("frame", FrameOf(f[k]), t[k].k)
             /\ t[k].k \in 1 .. Total(FrameOf(f[k]))
  <2>1. t[k] = s[k + u] /\ f[k] = c[k + u] /\ k + u \in 1 .. Len(s)
    BY <1>0, <1>1, <1>2
  <2> QED BY <2>1 DEF Linked
<1>4. ASSUME NEW k \in 1 .. L - u - 1
      PROVE  IF t[k].k # Total(FrameOf(f[k]))
             THEN t[k + 1].k = t[k].k + 1 /\ f[k + 1] = f[k]
             ELSE t[k + 1].k = 1 /\ Begins(f[k + 1], Past(f[k]))
  <2>1. /\ k \in 1 .. L - u /\ k + 1 \in 1 .. L - u /\ k + u \in 1 .. L - 1
        /\ (k + 1) + u = (k + u) + 1
    BY <1>0
  <2>2. /\ t[k] = s[k + u] /\ f[k] = c[k + u]
        /\ t[k + 1] = s[(k + 1) + u] /\ f[k + 1] = c[(k + 1) + u]
    BY <1>0, <1>2, <2>1
  <2>3. t[k + 1] = s[(k + u) + 1] /\ f[k + 1] = c[(k + u) + 1]
    BY <2>1, <2>2
  <2> QED BY <1>0, <2>1, <2>2, <2>3 DEF Linked
<1>5. Linked(t, f)
  BY <1>0, <1>3, <1>4 DEF Linked
<1> QED BY <1>0, <1>2, <1>5

LEMMA StreamRest ==
    ASSUME NEW units \in Seq(AnyUnit), NEW rest \in Seq(AnyUnit), NEW u \in 0 .. Len(units),
           NEW c \in ChunksOf(units \o rest), Linked(units \o rest, c)
    PROVE  LET s == units \o rest
               t == SubSeq(units, u + 1, Len(units)) \o rest
           IN  /\ t \in Seq(AnyUnit) /\ Len(t) = Len(s) - u
               /\ \A k \in 1 .. Len(s) - u : t[k] = s[k + u]
               /\ \E f \in ChunksOf(t) :
                     Linked(t, f) /\ \A k \in 1 .. Len(s) - u : f[k] = c[k + u]
<1> DEFINE s == units \o rest
           L == Len(s)
           t == SubSeq(units, u + 1, Len(units)) \o rest
<1>1. s \in Seq(AnyUnit) /\ L = Len(units) + Len(rest) /\ Len(units) \in Nat /\ Len(rest) \in Nat
  BY SeqJoin
<1>2. L \in Nat /\ u \in 0 .. L
  BY <1>1
<1>3. /\ t \in Seq(AnyUnit) /\ Len(t) = Len(units) + Len(rest) - u
      /\ \A k \in 1 .. Len(units) + Len(rest) - u : t[k] = s[k + u]
  BY SeqRest
<1> HIDE DEF t
<1>4. Linked(s, c) /\ c \in ChunksOf(s)
  OBVIOUS
<1> HIDE DEF s
<1>5. Len(t) = L - u /\ \A k \in 1 .. L - u : t[k] = s[k + u]
  BY <1>1, <1>3
<1>6. \E f \in ChunksOf(t) : Linked(t, f) /\ \A k \in 1 .. L - u : f[k] = c[k + u]
  BY <1>1, <1>2, <1>3, <1>4, <1>5, LinkedRest, ZenonT(40)
<1> QED BY <1>3, <1>5, <1>6 DEF s, t, L

IsDecoder(e, from) ==
    /\ from = At(from.base, rIndex[e], initRead[e], coder)
    /\ from.base \in Nat /\ rIndex[e] \in 0 .. Wrap /\ initRead[e] \in BOOLEAN

ReadsTo(e, units, rest, c, from) ==
    LET s == units \o rest
        d == Decoded(e, units)
        u == Used(units)
        t == SubSeq(units, u + 1, Len(units)) \o rest
        now == At(from.base + Len(d.out), d.index, d.init, coder)
    IN  /\ d.index \in 0 .. Wrap /\ d.init \in BOOLEAN /\ u \in 0 .. Len(units)
        /\ \E m \in Nat : d.out = Bytes(from.base, m)
        /\ Len(t) = Len(s) - u
        /\ \A k \in 1 .. Len(units) - u : t[k].k = k
        /\ now = from \/ \E j \in 1 .. Len(s) : /\ s[j].k = Total(FrameOf(c[j]))
                                                /\ now = Past(c[j])
        /\ \E f \in ChunksOf(t) :
              /\ Stream(t, f, now) /\ To(t, f, now) = To(s, c, from)
              /\ \A k \in 1 .. Len(t) : t[k] = s[k + u] /\ f[k] = c[k + u]

(* A Read: the complete frames leave the front of the stream, and what is  *)
(* left goes on where the decoder is.                                      *)
LEMMA StreamRead ==
    ASSUME NEW e \in Ends, NEW units \in Seq(AnyUnit), NEW rest \in Seq(AnyUnit),
           NEW c \in ChunksOf(units \o rest), NEW from, IsDecoder(e, from),
           Stream(units \o rest, c, from)
    PROVE  ReadsTo(e, units, rest, c, from)
<1> DEFINE s == units \o rest
           d == Decoded(e, units)
           N == Len(units)
           now == At(from.base + Len(d.out), d.index, d.init, coder)
<1>1. /\ N \in Nat /\ Len(rest) \in Nat /\ Len(s) = N + Len(rest) /\ s \in Seq(AnyUnit)
      /\ \A k \in 1 .. N : units[k] = s[k]
      /\ \A k \in N + 1 .. Len(s) : s[k] = rest[k - N]
  BY SeqJoin
<1>2. PICK cu \in ChunksOf(units) : Stream(units, cu, from) /\ \A k \in 1 .. N : cu[k] = c[k]
  BY StreamFront
<1>3. PICK u \in 0 .. N : DecodedTo(e, units, cu, from, N, u)
  <2>1. cu \in [1 .. N -> Chunk] /\ N \in 0 .. N
    BY <1>1, <1>2 DEF ChunksOf
  <2>2. /\ from = At(from.base, rIndex[e], initRead[e], coder)
        /\ from.base \in Nat /\ rIndex[e] \in 0 .. Wrap /\ initRead[e] \in BOOLEAN
    BY DEF IsDecoder
  <2> QED BY <1>2, <2>1, <2>2, StreamDecodes
<1>4. /\ d.index \in 0 .. Wrap /\ d.init \in BOOLEAN
      /\ \E m \in Nat : d.out = Bytes(from.base, m)
      /\ IF u = 0 THEN now = from ELSE units[u].k = Total(FrameOf(cu[u])) /\ now = Past(cu[u])
      /\ \A j \in u + 1 .. N : /\ units[j].k = j - u /\ Begins(cu[j], now)
                               /\ units[j].k # Total(FrameOf(cu[j]))
  BY <1>3 DEF DecodedTo, Decoded
<1>5. Used(units) = u
  <2>1. \A k \in 1 .. N : units[k].frame = FrameOf(cu[k])
    <3> TAKE k \in 1 .. N
    <3>1. units[k] = Unit("frame", FrameOf(cu[k]), units[k].k)
      BY <1>2 DEF Stream, Linked
    <3> QED BY <3>1, UnitShape
  <2>2. \A k \in 1 .. N : k \in Complete(units) <=> units[k].k = Total(FrameOf(cu[k]))
    BY <1>1, <2>1 DEF Complete
  <2>3. u = 0 \/ u \in Complete(units)
    BY <1>1, <1>4, <2>2
  <2>4. \A j \in u + 1 .. N : j \notin Complete(units)
    BY <1>1, <1>4, <2>2
  <2> QED BY <2>3, <2>4, UsedIs
<1> DEFINE t == SubSeq(units, u + 1, N) \o rest
           L == Len(s)
<1>6. L \in Nat /\ N \in Nat /\ u \in Nat /\ u <= N /\ N <= L /\ u \in 0 .. L
  BY <1>1
<1>7. /\ t \in Seq(AnyUnit) /\ Len(t) = L - u
      /\ \A k \in 1 .. L - u : t[k] = s[k + u]
      /\ \E f \in ChunksOf(t) : Linked(t, f) /\ \A k \in 1 .. L - u : f[k] = c[k + u]
  BY StreamRest, ZenonT(40) DEF Stream
<1>8. c \in [1 .. L -> Chunk] /\ Linked(s, c)
  BY DEF ChunksOf, Stream
<1>9. L = 0 <=> s = <<>>
  BY <1>1, SeqEmpty
<1>10. L = u <=> t = <<>>
  <2> HIDE DEF t, L, N
  <2>1. Len(t) = 0 <=> t = <<>>
    BY <1>7, SeqEmpty
  <2> QED BY <1>6, <1>7, <2>1
<1>11. \A k \in 1 .. N : units[k] = s[k] /\ cu[k] = c[k]
  BY <1>1, <1>2
<1>12. s # <<>> => s[1].k = 1 /\ Begins(c[1], from)
  BY DEF Stream
<1> HIDE DEF t, s, L, N, now, d
<1>13. PICK f \in ChunksOf(t) : Linked(t, f) /\ \A k \in 1 .. L - u : f[k] = c[k + u]
  BY <1>7
<1>14. Stream(t, f, now)
  <2>1. ASSUME t # <<>> PROVE t[1].k = 1 /\ Begins(f[1], now)
    <3>1. 1 \in 1 .. L - u /\ 1 + u = u + 1 /\ u # L
      BY <1>6, <1>10, <2>1
    <3>2. t[1] = s[u + 1] /\ f[1] = c[u + 1]
      BY <1>7, <1>13, <3>1
    <3>3. CASE u < N
      <4>1. u + 1 \in u + 1 .. N /\ u + 1 \in 1 .. N /\ (u + 1) - u = 1
        BY <1>6, <3>3
      <4>2. units[u + 1].k = (u + 1) - u /\ Begins(cu[u + 1], now)
        BY <1>4, <4>1
      <4> QED BY <1>11, <3>2, <4>1, <4>2
    <3>4. CASE u = N /\ u # 0
      <4>1. u \in 1 .. L - 1 /\ u \in 1 .. N
        BY <1>6, <3>1, <3>4
      <4>2. s[u].k = Total(FrameOf(c[u])) /\ now = Past(c[u])
        BY <1>4, <1>11, <3>4, <4>1
      <4>3. s[u + 1].k = 1 /\ Begins(c[u + 1], Past(c[u]))
        BY <1>8, <4>1, <4>2 DEF Linked, L
      <4> QED BY <3>2, <4>2, <4>3
    <3>5. CASE u = N /\ u = 0
      <4>1. s # <<>> /\ now = from
        BY <1>4, <1>6, <1>9, <3>1, <3>5
      <4>2. u + 1 = 1
        BY <3>5
      <4> QED BY <1>12, <3>2, <4>1, <4>2
    <3> QED BY <1>6, <3>3, <3>4, <3>5
  <2> QED BY <1>13, <2>1 DEF Stream
<1>15. To(t, f, now) = To(s, c, from)
  <2>1. CASE t = <<>>
    <3>1. u = L /\ u = N
      BY <1>6, <1>10, <2>1
    <3>2. CASE u = 0
      <4>1. s = <<>> /\ now = from
        BY <1>4, <1>9, <3>1, <3>2
      <4> QED BY <2>1, <4>1 DEF To
    <3>3. CASE u # 0
      <4>1. s # <<>> /\ u \in 1 .. N
        BY <1>6, <1>9, <3>1, <3>3
      <4>2. now = Past(c[u])
        BY <1>4, <1>11, <3>3, <4>1
      <4> QED BY <2>1, <3>1, <4>1, <4>2 DEF To, L
    <3> QED BY <3>2, <3>3
  <2>2. CASE t # <<>>
    <3>1. s # <<>> /\ L - u \in 1 .. L - u /\ (L - u) + u = L
      BY <1>6, <1>9, <1>10, <2>2
    <3>2. f[L - u] = c[L]
      BY <1>13, <3>1
    <3> QED BY <1>7, <2>2, <3>1, <3>2 DEF To, L
  <2> QED BY <2>1, <2>2
<1>16. \A k \in 1 .. N - u : t[k].k = k
  <2> TAKE k \in 1 .. N - u
  <2>1. k + u \in u + 1 .. N /\ k + u \in 1 .. N /\ k \in 1 .. L - u /\ (k + u) - u = k
    BY <1>6
  <2>2. t[k] = s[k + u] /\ s[k + u] = units[k + u]
    BY <1>7, <1>11, <2>1
  <2>3. units[k + u].k = (k + u) - u
    BY <1>4, <2>1
  <2> QED BY <2>1, <2>2, <2>3
<1>17. now = from \/ \E j \in 1 .. L : s[j].k = Total(FrameOf(c[j])) /\ now = Past(c[j])
  <2>1. u # 0 => u \in 1 .. N /\ u \in 1 .. L
    BY <1>6
  <2> QED BY <1>4, <1>11, <2>1
<1>18. Len(t) = L - u
  BY <1>7
<1>19. \E g \in ChunksOf(t) :
          /\ Stream(t, g, now) /\ To(t, g, now) = To(s, c, from)
          /\ \A k \in 1 .. Len(t) : t[k] = s[k + u] /\ g[k] = c[k + u]
  BY <1>7, <1>13, <1>14, <1>15
<1> QED BY <1>4, <1>5, <1>16, <1>17, <1>18, <1>19 DEF t, s, L, N, now, d, ReadsTo

(* The first frame of a stream is not complete.                            *)
LEMMA Incomplete ==
    ASSUME NEW units \in Seq(AnyUnit), NEW c \in ChunksOf(units), NEW from,
           Stream(units, c, from), units # <<>>, Len(units) < Total(units[1].frame)
    PROVE  \A k \in 1 .. Len(units) : units[k].k = k
<1> DEFINE N == Len(units)
           full == Total(FrameOf(c[1]))
           P(k) == units[k].k = k /\ c[k] = c[1]
           S == {n \in Nat : n + 1 <= N => P(n + 1)}
<1>1. N \in Nat /\ N # 0 /\ 1 \in 1 .. N /\ c[1] \in Chunk
  <2>1. N \in Nat /\ N # 0
    BY SeqEmpty
  <2> HIDE DEF N
  <2>2. 1 \in 1 .. N
    BY <2>1
  <2> QED BY <2>1, <2>2 DEF ChunksOf, N
<1>2. units[1].k = 1 /\ N < full
  <2>1. units[1] = Unit("frame", FrameOf(c[1]), units[1].k)
    BY <1>1 DEF Stream, Linked
  <2>2. units[1].frame = FrameOf(c[1])
    BY <2>1, UnitShape
  <2> QED BY <2>2 DEF Stream
<1>3. full \in Nat
  BY <1>1, FrameShape
<1>4. 0 \in S
  <2>1. 0 + 1 = 1
    OBVIOUS
  <2>2. P(0 + 1)
    BY <1>2, <2>1
  <2> QED BY <2>2
<1>5. ASSUME NEW n \in Nat, n \in S PROVE n + 1 \in S
  <2> SUFFICES ASSUME (n + 1) + 1 <= N PROVE P((n + 1) + 1)
    OBVIOUS
  <2> HIDE DEF full, N
  <2>1. n + 1 <= N /\ n + 1 \in 1 .. N - 1
    BY <1>1
  <2>2. P(n + 1)
    BY <1>5, <2>1
  <2>3. units[n + 1].k # Total(FrameOf(c[n + 1]))
    <3>1. n + 1 # full
      BY <1>1, <1>2, <1>3, <2>1
    <3> QED BY <2>2, <3>1 DEF full
  <2>4. units[(n + 1) + 1].k = units[n + 1].k + 1 /\ c[(n + 1) + 1] = c[n + 1]
    BY <2>1, <2>3 DEF Stream, Linked, N
  <2> QED BY <2>2, <2>4
<1>6. Nat \subseteq S
  <2> HIDE DEF S
  <2> QED BY <1>4, <1>5, NatInSet
<1>7. ASSUME NEW k \in 1 .. N PROVE units[k].k = k
  <2> HIDE DEF N, full
  <2>1. k - 1 \in Nat /\ (k - 1) + 1 = k /\ k <= N
    BY <1>1
  <2>2. k - 1 \in S
    BY <1>6, <2>1
  <2> QED BY <2>1, <2>2
<1> QED BY <1>7

-----------------------------------------------------------------------------
(* The connection                                                          *)

LEMMA SeqEqual ==
    ASSUME NEW S, NEW s \in Seq(S), NEW t \in Seq(S), Len(s) = Len(t),
           \A k \in 1 .. Len(s) : s[k] = t[k]
    PROVE  s = t
OBVIOUS

LEMMA SubSeqShape ==
    ASSUME NEW S, NEW s \in Seq(S), NEW a \in Nat, NEW b \in 0 .. Len(s)
    PROVE  /\ SubSeq(s, a + 1, b) \in Seq(S)
           /\ Len(SubSeq(s, a + 1, b)) = IF a <= b THEN b - a ELSE 0
           /\ \A k \in 1 .. b - a : SubSeq(s, a + 1, b)[k] = s[k + a]
OBVIOUS

(* A Read of k bytes leaves to be seen what was to be seen without what it *)
(* returns, c of the bytes being padding that is skipped.                  *)
LEMMA GetVisible ==
    ASSUME NEW S, NEW w \in Seq(S), NEW c \in Nat, NEW k \in 1 .. Len(w)
    PROVE  LET skip == IF c < k THEN c ELSE k
               rest == SubSeq(w, k + 1, Len(w))
           IN  SubSeq(w, c + 1, Len(w)) =
                   SubSeq(w, 1 + skip, k) \o SubSeq(rest, (c - skip) + 1, Len(rest))
<1> DEFINE L == Len(w)
           skip == IF c < k THEN c ELSE k
           rest == SubSeq(w, k + 1, L)
           x == SubSeq(w, skip + 1, k)
           y == SubSeq(rest, (c - skip) + 1, Len(rest))
           z == SubSeq(w, c + 1, L)
<1>1. L \in Nat /\ k \in Nat /\ k <= L /\ k >= 1 /\ skip \in 0 .. k /\ c - skip \in Nat
  OBVIOUS
<1>2. rest \in Seq(S) /\ Len(rest) = L - k /\ \A i \in 1 .. L - k : rest[i] = w[i + k]
  <2>1. L \in 0 .. Len(w) /\ k \in Nat
    BY <1>1
  <2>2. /\ rest \in Seq(S) /\ Len(rest) = IF k <= L THEN L - k ELSE 0
        /\ \A i \in 1 .. L - k : rest[i] = w[i + k]
    BY <2>1, SubSeqShape
  <2> QED BY <1>1, <2>2
<1>3. /\ x \in Seq(S) /\ Len(x) = k - skip
      /\ \A i \in 1 .. k - skip : x[i] = w[i + skip]
  <2>1. k \in 0 .. Len(w) /\ skip \in Nat
    BY <1>1
  <2>2. /\ x \in Seq(S) /\ Len(x) = IF skip <= k THEN k - skip ELSE 0
        /\ \A i \in 1 .. k - skip : x[i] = w[i + skip]
    <3> HIDE DEF skip
    <3> QED BY <2>1, SubSeqShape
  <2> HIDE DEF x, skip, L
  <2> QED BY <1>1, <2>2
<1>4. /\ z \in Seq(S) /\ Len(z) = IF c <= L THEN L - c ELSE 0
      /\ \A i \in 1 .. L - c : z[i] = w[i + c]
  <2>1. L \in 0 .. Len(w)
    BY <1>1
  <2> QED BY <2>1, SubSeqShape
<1> HIDE DEF z, x, rest
<1>5. /\ y \in Seq(S) /\ Len(y) = IF c - skip <= L - k THEN (L - k) - (c - skip) ELSE 0
      /\ \A i \in 1 .. (L - k) - (c - skip) : y[i] = rest[i + (c - skip)]
  <2>1. Len(rest) \in 0 .. Len(rest)
    BY <1>1, <1>2
  <2> DEFINE a == c - skip
             q == SubSeq(rest, a + 1, Len(rest))
  <2>2. a \in Nat
    BY <1>1
  <2> HIDE DEF a
  <2>3. /\ q \in Seq(S) /\ Len(q) = IF a <= Len(rest) THEN Len(rest) - a ELSE 0
        /\ \A i \in 1 .. Len(rest) - a : q[i] = rest[i + a]
    <3>1. rest \in Seq(S)
      BY <1>2
    <3> HIDE DEF rest, skip, L, y
    <3> QED BY <2>1, <2>2, <3>1, SubSeqShape
  <2>4. q = y
    BY DEF a
  <2> HIDE DEF q, y, skip, L
  <2> QED BY <1>2, <2>3, <2>4 DEF a
<1> HIDE DEF y
<1>6. /\ x \o y \in Seq(S) /\ Len(x \o y) = Len(x) + Len(y)
      /\ \A i \in 1 .. Len(x) : (x \o y)[i] = x[i]
      /\ \A i \in Len(x) + 1 .. Len(x) + Len(y) : (x \o y)[i] = y[i - Len(x)]
  BY <1>3, <1>5, SeqJoin
<1> DEFINE v == x \o y
<1> HIDE DEF v, L
<1>7. Len(v) = Len(z)
  BY <1>1, <1>3, <1>4, <1>5, <1>6 DEF v
<1>8. ASSUME NEW i \in 1 .. Len(z) PROVE z[i] = v[i]
  <2>1. c <= L /\ i \in 1 .. L - c /\ z[i] = w[i + c]
    BY <1>1, <1>4
  <2>2. CASE c < k
    <3>1. skip = c
      BY <2>2
    <3>2. CASE i <= k - c
      <4>1. i \in 1 .. Len(x) /\ i \in 1 .. k - skip
        BY <1>3, <2>1, <3>1, <3>2
      <4>2. v[i] = x[i] /\ x[i] = w[i + skip]
        BY <1>3, <1>6, <4>1 DEF v
      <4> QED BY <2>1, <3>1, <4>2
    <3>3. CASE i > k - c
      <4> DEFINE j == i - (k - c)
      <4>1. /\ j \in 1 .. (L - k) - (c - skip) /\ j + (c - skip) = j /\ j \in 1 .. L - k
            /\ j + k = i + c
        BY <1>1, <2>1, <2>2, <3>1, <3>3
      <4>2. i \in Len(x) + 1 .. Len(x) + Len(y) /\ i - Len(x) = j
        BY <1>1, <1>3, <1>5, <2>1, <2>2, <3>1, <3>3
      <4> HIDE DEF j, skip
      <4>3. v[i] = y[j]
        BY <1>6, <4>2 DEF v
      <4>4. y[j] = rest[j] /\ rest[j] = w[i + c]
        BY <1>2, <1>5, <4>1
      <4> QED BY <2>1, <4>3, <4>4
    <3> QED BY <1>1, <2>1, <3>2, <3>3
  <2>3. CASE c >= k
    <3>1. skip = k /\ Len(x) = 0
      BY <1>1, <1>3, <2>3
    <3>2. /\ i \in 1 .. (L - k) - (c - skip) /\ i + (c - skip) \in 1 .. L - k
          /\ (i + (c - skip)) + k = i + c
      BY <1>1, <2>1, <2>3, <3>1
    <3>3. i \in Len(x) + 1 .. Len(x) + Len(y) /\ i - Len(x) = i
      BY <1>1, <1>5, <2>1, <3>1, <3>2
    <3> HIDE DEF skip
    <3>4. v[i] = y[i]
      BY <1>6, <3>3 DEF v
    <3>5. y[i] = rest[i + (c - skip)] /\ rest[i + (c - skip)] = w[i + c]
      BY <1>2, <1>5, <3>2
    <3> QED BY <2>1, <3>4, <3>5
  <2> QED BY <1>1, <2>2, <2>3
<1>9. z = v
  <2>1. v \in Seq(S)
    BY <1>6 DEF v
  <2> QED BY <1>4, <1>7, <1>8, <2>1, SeqEqual
<1>10. 1 + skip = skip + 1
  BY <1>1
<1> QED BY <1>9, <1>10 DEF z, v, x, y, rest, L

(* Of w, p is still to be sent and c to be skipped.                        *)
Covered(w, p, c) == IF Len(p) > 0 THEN w = <<>> /\ c = Len(p) ELSE c <= Len(w)

(* When j units of p and f are put behind w, those of f are seen.          *)
PutSeen(w, p, f, c, j) ==
    LET b == SubSeq(p \o f, 1, j)
        new == w \o b
        m == IF j <= Len(p) THEN 0 ELSE j - Len(p)
    IN  /\ new \in Seq(AnyUnit) /\ Len(new) = Len(w) + j /\ b \in Seq(AnyUnit)
        /\ m \in 0 .. Len(f)
        /\ SubSeq(new, c + 1, Len(new)) = SubSeq(w, c + 1, Len(w)) \o SubSeq(f, 1, m)

(* What is sent of a padding p and of data f while nothing was sent, or    *)
(* when nothing of a padding is left: the padding is not seen.             *)
LEMMA PutVisible ==
    ASSUME NEW w \in Seq(AnyUnit), NEW p \in Seq(AnyUnit), NEW f \in Seq(AnyUnit), NEW c \in Nat,
           NEW j \in 0 .. Len(p) + Len(f), Covered(w, p, c)
    PROVE  PutSeen(w, p, f, c, j)
<1> DEFINE W == Len(w)
           P == Len(p)
           F == Len(f)
           m == IF j <= P THEN 0 ELSE j - P
           b == SubSeq(p \o f, 0 + 1, j)
           new == w \o b
           now == SubSeq(new, c + 1, Len(new))
           old == SubSeq(w, c + 1, W)
           g == SubSeq(f, 0 + 1, m)
           v == old \o g
<1>1. W \in Nat /\ P \in Nat /\ F \in Nat /\ j \in Nat /\ j <= P + F /\ m \in 0 .. F
  OBVIOUS
<1>2. /\ b \in Seq(AnyUnit) /\ Len(b) = j
      /\ \A i \in 1 .. j : b[i] = IF i <= P THEN p[i] ELSE f[i - P]
  <2>1. /\ p \o f \in Seq(AnyUnit) /\ Len(p \o f) = P + F
        /\ \A i \in 1 .. P : (p \o f)[i] = p[i]
        /\ \A i \in P + 1 .. P + F : (p \o f)[i] = f[i - P]
    BY SeqJoin
  <2> DEFINE q == p \o f
  <2> HIDE DEF q
  <2>2. j \in 0 .. Len(q) /\ 0 \in Nat /\ q \in Seq(AnyUnit)
    BY <1>1, <2>1 DEF q
  <2>3. /\ SubSeq(q, 0 + 1, j) \in Seq(AnyUnit)
        /\ Len(SubSeq(q, 0 + 1, j)) = IF 0 <= j THEN j - 0 ELSE 0
        /\ \A i \in 1 .. j - 0 : SubSeq(q, 0 + 1, j)[i] = q[i + 0]
    BY <2>2, SubSeqShape
  <2>4. b = SubSeq(q, 0 + 1, j)
    BY DEF q
  <2> HIDE DEF b, P, F
  <2>5. ASSUME NEW i \in 1 .. j PROVE b[i] = IF i <= P THEN p[i] ELSE f[i - P]
    <3>1. i \in 1 .. j - 0 /\ i + 0 = i /\ (i <= P => i \in 1 .. P)
          /\ (~(i <= P) => i \in P + 1 .. P + F)
      BY <1>1
    <3>2. b[i] = q[i]
      BY <2>3, <2>4, <3>1
    <3> QED BY <2>1, <3>1, <3>2 DEF q
  <2> QED BY <1>1, <2>3, <2>4, <2>5
<1>3. /\ g \in Seq(AnyUnit) /\ Len(g) = m /\ \A i \in 1 .. m : g[i] = f[i]
  <2> HIDE DEF m
  <2>1. m \in 0 .. Len(f) /\ 0 \in Nat
    BY <1>1
  <2>2. /\ g \in Seq(AnyUnit) /\ Len(g) = IF 0 <= m THEN m - 0 ELSE 0
        /\ \A i \in 1 .. m - 0 : g[i] = f[i + 0]
    BY <2>1, SubSeqShape
  <2> HIDE DEF g
  <2>3. \A i \in 1 .. m : i \in 1 .. m - 0 /\ i + 0 = i
    BY <1>1
  <2> QED BY <1>1, <2>2, <2>3
<1>4. /\ old \in Seq(AnyUnit) /\ Len(old) = IF c <= W THEN W - c ELSE 0
      /\ \A i \in 1 .. W - c : old[i] = w[i + c]
  <2> HIDE DEF new, now, v, b, g, m, P, F
  <2>1. W \in 0 .. Len(w)
    BY <1>1
  <2> QED BY <2>1, SubSeqShape
<1> HIDE DEF b, g, old
<1>5. /\ new \in Seq(AnyUnit) /\ Len(new) = W + j
      /\ \A i \in 1 .. W : new[i] = w[i]
      /\ \A i \in W + 1 .. W + j : new[i] = b[i - W]
  <2> HIDE DEF v, m, P, F, now
  <2> QED BY <1>2, SeqJoin, ZenonT(40)
<1> HIDE DEF new
<1>6. /\ now \in Seq(AnyUnit) /\ Len(now) = IF c <= W + j THEN W + j - c ELSE 0
      /\ \A i \in 1 .. W + j - c : now[i] = new[i + c]
  <2>1. new \in Seq(AnyUnit) /\ Len(new) \in 0 .. Len(new)
    BY <1>1, <1>5
  <2> HIDE DEF W, P, F, m, v
  <2>2. /\ now \in Seq(AnyUnit) /\ Len(now) = IF c <= Len(new) THEN Len(new) - c ELSE 0
        /\ \A i \in 1 .. Len(new) - c : now[i] = new[i + c]
    BY <2>1, SubSeqShape
  <2> HIDE DEF now
  <2> QED BY <1>1, <1>5, <2>2
<1>7. /\ v \in Seq(AnyUnit) /\ Len(v) = Len(old) + Len(g)
      /\ \A i \in 1 .. Len(old) : v[i] = old[i]
      /\ \A i \in Len(old) + 1 .. Len(old) + Len(g) : v[i] = g[i - Len(old)]
  BY <1>3, <1>4, SeqJoin
<1>8. P > 0 => W = 0 /\ c = P
  BY <1>1 DEF Covered
<1>9. P = 0 => c <= W
  BY DEF Covered
<1> HIDE DEF now, v, W, P, F
<1>10. Len(now) = Len(v) /\ Len(now) \in Nat
  BY <1>1, <1>3, <1>4, <1>6, <1>7, <1>8, <1>9, SMTT(30)
<1>11. ASSUME NEW i \in 1 .. Len(now) PROVE now[i] = v[i]
  <2>1. i \in 1 .. W + j - c /\ now[i] = new[i + c]
    BY <1>1, <1>6
  <2>2. CASE P > 0
    <3>1. /\ Len(old) = 0 /\ i \in 1 .. m /\ i + c \in W + 1 .. W + j /\ i + c \in 1 .. j
          /\ (i + c) - W = i + c /\ ~(i + c <= P) /\ (i + c) - P = i
      BY <1>1, <1>4, <1>8, <2>1, <2>2
    <3>2. new[i + c] = b[i + c] /\ b[i + c] = f[i]
      BY <1>2, <1>5, <3>1
    <3>3. i \in Len(old) + 1 .. Len(old) + Len(g) /\ i - Len(old) = i
      BY <1>1, <1>3, <3>1
    <3>4. v[i] = g[i] /\ g[i] = f[i]
      BY <1>3, <1>7, <3>1, <3>3
    <3> QED BY <2>1, <3>2, <3>4
  <2>3. CASE P = 0 /\ i <= W - c
    <3>1. i \in 1 .. W - c /\ i + c \in 1 .. W /\ i \in 1 .. Len(old)
      BY <1>1, <1>4, <1>9, <2>1, <2>3
    <3> QED BY <1>4, <1>5, <1>7, <2>1, <3>1
  <2>4. CASE P = 0 /\ ~(i <= W - c)
    <3> DEFINE n == i - (W - c)
    <3>1. /\ i + c \in W + 1 .. W + j /\ (i + c) - W = n /\ n \in 1 .. j /\ ~(n <= P)
          /\ n - P = n /\ n \in 1 .. m
          /\ i \in Len(old) + 1 .. Len(old) + Len(g) /\ i - Len(old) = n
      BY <1>1, <1>3, <1>4, <1>9, <2>1, <2>4
    <3> HIDE DEF n
    <3>2. new[i + c] = b[n] /\ b[n] = f[n]
      BY <1>2, <1>5, <3>1
    <3>3. v[i] = g[n] /\ g[n] = f[n]
      BY <1>3, <1>7, <3>1
    <3> QED BY <2>1, <3>2, <3>3
  <2> QED BY <1>1, <2>2, <2>3, <2>4
<1>12. now = v
  BY <1>6, <1>7, <1>10, <1>11, SeqEqual
<1>13. 0 + 1 = 1
  OBVIOUS
<1> QED BY <1>1, <1>2, <1>5, <1>12, <1>13 DEF PutSeen, now, v, new, b, g, old, W, P, F

LEMMA SubSeqAll ==
    ASSUME NEW S, NEW s \in Seq(S)
    PROVE  SubSeq(s, 1, Len(s)) = s
OBVIOUS

LEMMA SeqAssoc ==
    \A s, t, r \in Seq(AnyUnit) : (s \o t) \o r = s \o (t \o r)
OBVIOUS

-----------------------------------------------------------------------------
(* The inductive invariant                                                 *)

Shape ==
    /\ wire \in [Ends -> Seq(AnyUnit)] /\ rbuf \in [Ends -> Seq(AnyUnit)] /\ raw \in Seq(AnyUnit)
    /\ sent \in [Ends -> Nat] /\ got \in [Ends -> Seq(Nat)] /\ decbuf \in [Ends -> Seq(Nat)]
    /\ wbuf \in [Ends -> Nat] /\ counter \in [Ends -> Nat]
    /\ pc \in [Ends -> {"open", "stranger", "raw", "closed"}]

IInv == /\ TypeOK /\ Shape /\ GotInv /\ PadInv /\ RoleInv
        /\ StrangerInv /\ CutInv /\ FlowInv

LEMMA PeerFacts ==
    /\ "client" \in Ends /\ "server" \in Ends /\ "client" # "server"
    /\ Peer("client") = "server" /\ Peer("server") = "client"
    /\ \A e \in Ends : /\ e = "client" \/ e = "server"
                       /\ Peer(e) \in Ends /\ Peer(e) # e /\ Peer(Peer(e)) = e
    /\ \A e, f \in Ends : e = f \/ e = Peer(f)
BY DEF Ends, Peer

LEMMA BoundFacts ==
    /\ \A e \in Ends : PadLen[e] \in Nat /\ MaxSent[e] \in Nat
    /\ Wrap \in Nat /\ KeyLen \in Nat /\ KeyLen > 0 /\ MaxRaw \in Nat
    /\ ChunkMax \in Nat /\ ReadMax \in Nat /\ ReadMax >= 1
BY PadAssumption, BoundAssumption

(* A step that changes nothing a direction depends on                      *)
LEMMA FlowSame ==
    ASSUME NEW e \in Ends, FlowOf(e), coder' = coder,
           wire'[e] = wire[e], rbuf'[Peer(e)] = rbuf[Peer(e)],
           counter'[Peer(e)] = counter[Peer(e)],
           Len(got'[Peer(e)]) + Len(decbuf'[Peer(e)]) = Len(got[Peer(e)]) + Len(decbuf[Peer(e)]),
           rIndex'[Peer(e)] = rIndex[Peer(e)], initRead'[Peer(e)] = initRead[Peer(e)],
           sent'[e] = sent[e], wIndex'[e] = wIndex[e], ivKey'[e] = ivKey[e],
           pc'[e] = "open" => pc[e] = "open", pc'[Peer(e)] = "open" => pc[Peer(e)] = "open",
           rawSent'[e] = 0 => rawSent[e] = 0
    PROVE  FlowOf(e)'
<1>1. Coming(e)' = Coming(e)
  BY DEF Coming, Visible
<1>2. Decoder(Peer(e))' = Decoder(Peer(e)) /\ Encoder(e)' = Encoder(e)
  BY DEF Decoder, Encoder
<1> SUFFICES ASSUME pc'[Peer(e)] = "open" /\ rawSent'[e] = 0
             PROVE  \E c \in [1 .. Len(Coming(e)') -> Chunk] : Flow(e, c)'
  BY DEF FlowOf
<1>3. PICK c \in [1 .. Len(Coming(e)) -> Chunk] : Flow(e, c)
  BY DEF FlowOf
<1>4. Flow(e, c)'
  BY <1>1, <1>2, <1>3 DEF Flow
<1> QED BY <1>1, <1>3, <1>4

LEMMA FlowNew ==
    ASSUME NEW e \in Ends, NEW s, NEW c \in ChunksOf(s), NEW from,
           s = Coming(e)', from = Decoder(Peer(e))', Stream(s, c, from),
           pc'[e] = "open" => /\ s # <<>> => s[Len(s)].k = Total(FrameOf(c[Len(s)]))
                              /\ To(s, c, from) = Encoder(e)',
           \A k \in 1 .. Len(s) :
               s[k].k = Total(FrameOf(c[k])) => c[k].base + c[k].len <= sent'[e],
           from.base <= sent'[e]
    PROVE  FlowOf(e)'
<1>1. Flow(e, c)'
  BY DEF Flow
<1> QED BY <1>1 DEF FlowOf, ChunksOf

(* The bytes a user writes make a chunk.                                   *)
LEMMA ChunkOfWrite ==
    ASSUME TypeOK, NEW e \in Ends, NEW n \in Nat \ {0}, sent[e] \in Nat
    PROVE  LET h == [by |-> coder, iv |-> ivKey[e], base |-> sent[e], len |-> n,
                     index |-> wIndex[e]]
           IN  /\ h \in Chunk /\ Framed(e, n) = FrameOf(h) /\ Begins(h, Encoder(e))
               /\ Past(h) = At(sent[e] + n, Advance(wIndex[e], n), TRUE, coder)
<1> DEFINE h == [by |-> coder, iv |-> ivKey[e], base |-> sent[e], len |-> n,
                 index |-> wIndex[e]]
<1>1. h \in Chunk
  BY DEF TypeOK, Chunk
<1>2. Framed(e, n) = FrameOf(h)
  BY DEF Framed, FrameOf, Encode, KeyAt, KeyOf
<1>3. Begins(h, Encoder(e))
  BY DEF Begins, Encoder, TypeOK
<1>4. Past(h) = At(sent[e] + n, Advance(wIndex[e], n), TRUE, coder)
  BY DEF Past, IndexPast, Advance
<1> QED BY <1>1, <1>2, <1>3, <1>4

LEMMA PaddingSeq ==
    ASSUME NEW e, wbuf[e] \in Nat
    PROVE  LET p == [k \in 1 .. wbuf[e] |-> Pad]
           IN  p \in Seq(AnyUnit) /\ Len(p) = wbuf[e]
BY DEF AnyUnit

-----------------------------------------------------------------------------
(* Each action keeps the invariant.                                        *)

(* Write and WriteFails: of the padding and a frame of n bytes, the first  *)
(* j units go out, all of them when w stays open.                          *)
FrameOut(w, n, j) ==
    /\ wire' = [wire EXCEPT
                   ![w] = @ \o SubSeq(WithPadding(w, EncodeHeadFrame(Framed(w, n))), 1, j)]
    /\ UNCHANGED <<coder, rbuf, decbuf, got, counter, rIndex, initRead, rawSent>>
    /\ pc' = [pc EXCEPT ![w] = pc'[w]]
    /\ IF pc'[w] = "open"
       THEN /\ j = wbuf[w] + Total(Framed(w, n)) /\ sent'[w] = sent[w] + n
            /\ wIndex'[w] = Advance(wIndex[w], n) /\ ivKey'[w] = FALSE
       ELSE j < wbuf[w] + Total(Framed(w, n)) /\ sent'[w] = sent[w]

LEMMA FrameGoesOut ==
    ASSUME IInv, NEW w \in Ends, pc[w] = "open", NEW n \in Nat \ {0},
           NEW j \in 0 .. wbuf[w] + Total(Framed(w, n)), FrameOut(w, n, j)
    PROVE  /\ wire' \in [Ends -> Seq(AnyUnit)] /\ FlowOf(w)'
           /\ Len(wire'[w]) = Len(wire[w]) + j
<1> DEFINE f == EncodeHeadFrame(Framed(w, n))
           p == [k \in 1 .. wbuf[w] |-> Pad]
           c0 == counter[Peer(w)]
           full == Total(Framed(w, n))
           m == IF j <= wbuf[w] THEN 0 ELSE j - wbuf[w]
           h == [by |-> coder, iv |-> ivKey[w], base |-> sent[w], len |-> n,
                 index |-> wIndex[w]]
<1>1. /\ h \in Chunk /\ Framed(w, n) = FrameOf(h) /\ Begins(h, Encoder(w))
      /\ Past(h) = At(sent[w] + n, Advance(wIndex[w], n), TRUE, coder)
  <2>1. sent[w] \in Nat
    BY DEF IInv, Shape
  <2> QED BY <2>1, ChunkOfWrite DEF IInv
<1>2. /\ f \in Seq(AnyUnit) /\ Len(f) = full /\ full \in Nat
      /\ f = EncodeHeadFrame(FrameOf(h)) /\ full = Total(FrameOf(h))
  <2> HIDE DEF h
  <2> QED BY <1>1, FrameUnits, FrameShape
<1>3. p \in Seq(AnyUnit) /\ Len(p) = wbuf[w] /\ wbuf[w] \in Nat
  BY PaddingSeq DEF IInv, Shape
<1>4. wire[w] \in Seq(AnyUnit) /\ c0 \in Nat /\ rbuf[Peer(w)] \in Seq(AnyUnit)
  BY PeerFacts DEF IInv, Shape
<1>5. WithPadding(w, f) = p \o f
  BY DEF WithPadding
<1>6. Covered(wire[w], p, c0)
  BY <1>3 DEF Covered, IInv, PadInv
<1> DEFINE b == SubSeq(p \o f, 1, j)
           new == wire[w] \o b
<1> HIDE DEF f, p, h, full, c0
<1>7. /\ new \in Seq(AnyUnit) /\ Len(new) = Len(wire[w]) + j /\ m \in 0 .. full
      /\ SubSeq(new, c0 + 1, Len(new)) =
             SubSeq(wire[w], c0 + 1, Len(wire[w])) \o SubSeq(f, 1, m)
  <2>1. j \in 0 .. Len(p) + Len(f)
    BY <1>2, <1>3 DEF full
  <2> DEFINE mm == IF j <= Len(p) THEN 0 ELSE j - Len(p)
  <2>2. /\ new \in Seq(AnyUnit) /\ Len(new) = Len(wire[w]) + j /\ mm \in 0 .. Len(f)
        /\ SubSeq(new, c0 + 1, Len(new)) =
               SubSeq(wire[w], c0 + 1, Len(wire[w])) \o SubSeq(f, 1, mm)
    <3> DEFINE x == wire[w]
    <3>1. /\ f \in Seq(AnyUnit) /\ p \in Seq(AnyUnit) /\ x \in Seq(AnyUnit) /\ c0 \in Nat
          /\ Covered(x, p, c0) /\ j \in 0 .. Len(p) + Len(f)
      BY <1>2, <1>3, <1>4, <1>6, <2>1
    <3> HIDE DEF m, x
    <3>2. PutSeen(x, p, f, c0, j)
      BY <3>1, PutVisible
    <3> HIDE DEF new, b
    <3> QED BY <3>2 DEF PutSeen, x, new, b
  <2>3. mm = m
    BY <1>3
  <2> HIDE DEF m, mm, new
  <2> QED BY <1>2, <2>2, <2>3
<1>8. wire' = [wire EXCEPT ![w] = new] /\ wire'[w] = new
  BY <1>5 DEF f, IInv, Shape, FrameOut
<1> HIDE DEF m, new
<1>9. wire' \in [Ends -> Seq(AnyUnit)]
  BY <1>7, <1>8 DEF IInv, Shape
<1> SUFFICES FlowOf(w)'
  BY <1>7, <1>8, <1>9
<1> SUFFICES ASSUME pc'[Peer(w)] = "open" /\ rawSent'[w] = 0
             PROVE  FlowOf(w)'
  BY DEF FlowOf
<1>10. pc[Peer(w)] = "open" /\ rawSent[w] = 0
  BY PeerFacts DEF FrameOut, IInv, Shape
<1> DEFINE s == Coming(w)
           from == Decoder(Peer(w))
<1>11. PICK c \in [1 .. Len(s) -> Chunk] : Flow(w, c)
  BY <1>10 DEF IInv, FlowInv, FlowOf
<1>12. c \in ChunksOf(s)
  BY DEF ChunksOf
<1>13. /\ Stream(s, c, from) /\ from.base <= sent[w]
       /\ s # <<>> => s[Len(s)].k = Total(FrameOf(c[Len(s)]))
       /\ To(s, c, from) = Encoder(w)
       /\ \A k \in 1 .. Len(s) :
             s[k].k = Total(FrameOf(c[k])) => c[k].base + c[k].len <= sent[w]
  BY <1>11 DEF Flow
<1> DEFINE t == s \o SubSeq(f, 1, m)
<1>14. t = Coming(w)' /\ s \in Seq(AnyUnit)
  <2> DEFINE v == SubSeq(wire[w], c0 + 1, Len(wire[w]))
             g == SubSeq(f, 1, m)
  <2>1. v \in Seq(AnyUnit) /\ g \in Seq(AnyUnit)
    BY <1>2, <1>4, <1>7, SMTT(30)
  <2>2. Coming(w)' = rbuf[Peer(w)] \o (v \o g)
    <3>1. UNCHANGED <<rbuf, counter>>
      BY DEF FrameOut
    <3> QED BY <1>7, <1>8, <3>1 DEF Coming, Visible, c0
  <2>3. s = rbuf[Peer(w)] \o v
    BY DEF Coming, Visible, c0
  <2> HIDE DEF v, g, s, t, from, b
  <2>4. (rbuf[Peer(w)] \o v) \o g = rbuf[Peer(w)] \o (v \o g)
    <3> DEFINE x == rbuf[Peer(w)]
    <3>1. x \in Seq(AnyUnit)
      BY <1>4
    <3> HIDE DEF x
    <3>2. (x \o v) \o g = x \o (v \o g)
      BY <2>1, <3>1, SeqAssoc, Zenon
    <3> QED BY <3>2 DEF x
  <2>5. s \in Seq(AnyUnit)
    BY <1>4, <2>1, <2>3, SeqJoin
  <2> QED BY <2>2, <2>3, <2>4, <2>5 DEF g, t
<1>15. from = Decoder(Peer(w))'
  BY DEF Decoder, FrameOut
<1> HIDE DEF s, from
<1>16. /\ Len(t) = Len(s) + m
       /\ \E d \in ChunksOf(t) :
             /\ Stream(t, d, from)
             /\ \A k \in 1 .. Len(s) : t[k] = s[k] /\ d[k] = c[k]
             /\ \A k \in Len(s) + 1 .. Len(t) : t[k].k = k - Len(s) /\ d[k] = h
  <2>1. m \in 0 .. Total(FrameOf(h)) /\ Begins(h, To(s, c, from)) /\ h \in Chunk
    BY <1>1, <1>2, <1>7, <1>13
  <2>2. /\ s \in Seq(AnyUnit) /\ Stream(s, c, from)
        /\ s # <<>> => s[Len(s)].k = Total(FrameOf(c[Len(s)]))
    BY <1>13, <1>14
  <2>3. t = s \o SubSeq(EncodeHeadFrame(FrameOf(h)), 1, m)
    BY <1>2
  <2> DEFINE x == s \o SubSeq(EncodeHeadFrame(FrameOf(h)), 1, m)
  <2> HIDE DEF t, b
  <2>4. GoesOn(s, c, h, from, m, x)
    BY <1>12, <2>1, <2>2, StreamAppend
  <2> HIDE DEF x
  <2>5. GoesOn(s, c, h, from, m, t)
    <3>1. x = t
      BY <2>3 DEF x
    <3> QED BY <2>4, <3>1
  <2> QED BY <2>5 DEF GoesOn
<1>17. PICK d \in ChunksOf(t) :
             /\ Stream(t, d, from)
             /\ \A k \in 1 .. Len(s) : t[k] = s[k] /\ d[k] = c[k]
             /\ \A k \in Len(s) + 1 .. Len(t) : t[k].k = k - Len(s) /\ d[k] = h
  BY <1>16
<1> HIDE DEF t
<1>18. Len(s) \in Nat /\ m \in Nat /\ m <= full /\ sent[w] \in Nat /\ sent[w] <= sent'[w]
       /\ full \in Nat /\ sent'[w] \in Nat
  <2>1. Len(s) \in Nat
    BY <1>14
  <2>2. sent[w] \in Nat
    BY DEF IInv, Shape
  <2> QED BY <1>2, <1>7, <2>1, <2>2, SMTT(30) DEF FrameOut
<1>19. \A k \in 1 .. Len(t) :
           t[k].k = Total(FrameOf(d[k])) => d[k].base + d[k].len <= sent'[w]
  <2> SUFFICES ASSUME NEW k \in 1 .. Len(t), t[k].k = Total(FrameOf(d[k]))
               PROVE  d[k].base + d[k].len <= sent'[w]
    OBVIOUS
  <2>1. CASE k <= Len(s)
    <3>1. k \in 1 .. Len(s)
      BY <1>18, <2>1
    <3>2. d[k].base + d[k].len <= sent[w]
      BY <1>13, <1>17, <3>1
    <3>3. d[k].base + d[k].len \in Nat
      <4>1. d[k] \in Chunk
        BY <1>17 DEF ChunksOf
      <4> QED BY <4>1 DEF Chunk
    <3> QED BY <1>18, <3>2, <3>3
  <2>2. CASE ~(k <= Len(s))
    <3>1. k \in Len(s) + 1 .. Len(t) /\ k - Len(s) <= m
      BY <1>16, <1>18, <2>2
    <3>2. k - Len(s) = full /\ d[k] = h
      BY <1>2, <1>17, <3>1
    <3>3. m = full
      BY <1>18, <3>1, <3>2
    <3>4. pc'[w] = "open"
      <4>1. full >= 1
        BY <1>1, <1>2, FrameShape
      <4> QED BY <1>2, <1>3, <1>18, <3>3, <4>1 DEF m, full, FrameOut
    <3> QED BY <3>2, <3>4, <1>18 DEF h, FrameOut
  <2> QED BY <2>1, <2>2
<1>20. ASSUME pc'[w] = "open"
       PROVE  /\ t # <<>> => t[Len(t)].k = Total(FrameOf(d[Len(t)]))
              /\ To(t, d, from) = Encoder(w)'
  <2>1. m = full /\ full >= 1
    <3>1. full >= 1
      BY <1>1, <1>2, FrameShape
    <3> QED BY <1>2, <1>3, <1>20, <3>1 DEF m, full, FrameOut
  <2>2. Len(t) \in Len(s) + 1 .. Len(t) /\ Len(t) - Len(s) = full /\ Len(t) # 0
    BY <1>2, <1>16, <1>18, <2>1
  <2>3. t[Len(t)].k = full /\ d[Len(t)] = h
    BY <1>17, <2>2
  <2>4. To(t, d, from) = Past(h)
    BY <2>2, <2>3 DEF To
  <2>5. Encoder(w)' = Past(h)
    BY <1>1, <1>20 DEF Encoder, FrameOut
  <2> QED BY <1>2, <2>3, <2>4, <2>5
<1>21. from.base <= sent'[w]
  <2>1. from.base \in Nat
    <3>1. got[Peer(w)] \in Seq(Nat) /\ decbuf[Peer(w)] \in Seq(Nat)
      BY PeerFacts DEF IInv, Shape
    <3>2. Len(got[Peer(w)]) + Len(decbuf[Peer(w)]) \in Nat
      <4> DEFINE x == got[Peer(w)]
                 y == decbuf[Peer(w)]
      <4> HIDE DEF x, y
      <4>1. x \in Seq(Nat) /\ y \in Seq(Nat)
        BY <3>1 DEF x, y
      <4>2. Len(x) + Len(y) \in Nat
        BY <4>1
      <4> QED BY <4>2 DEF x, y
    <3> QED BY <3>2 DEF from, Decoder
  <2> QED BY <1>13, <1>18, <2>1
<1> QED BY <1>14, <1>15, <1>17, <1>19, <1>20, <1>21, FlowNew DEF t

LEMMA FramedTotal ==
    ASSUME IInv, NEW w \in Ends, NEW n \in Nat \ {0}
    PROVE  /\ EncodeHeadFrame(Framed(w, n)) \in Seq(AnyUnit)
           /\ Len(EncodeHeadFrame(Framed(w, n))) = Total(Framed(w, n))
           /\ Total(Framed(w, n)) \in Nat /\ Total(Framed(w, n)) >= 4
           /\ wbuf[w] \in Nat
           /\ WithPadding(w, EncodeHeadFrame(Framed(w, n))) \in Seq(AnyUnit)
           /\ Len(WithPadding(w, EncodeHeadFrame(Framed(w, n)))) = wbuf[w] + Total(Framed(w, n))
<1> DEFINE h == [by |-> coder, iv |-> ivKey[w], base |-> sent[w], len |-> n,
                 index |-> wIndex[w]]
           f == EncodeHeadFrame(Framed(w, n))
           p == [k \in 1 .. wbuf[w] |-> Pad]
<1>1. h \in Chunk /\ Framed(w, n) = FrameOf(h)
  <2>1. sent[w] \in Nat
    BY DEF IInv, Shape
  <2> QED BY <2>1, ChunkOfWrite DEF IInv
<1> HIDE DEF h
<1>2. f \in Seq(AnyUnit) /\ Len(f) = Total(Framed(w, n))
  BY <1>1, FrameUnits
<1>3. Total(Framed(w, n)) \in Nat /\ Total(Framed(w, n)) >= 4
  BY <1>1, FrameShape
<1>4. p \in Seq(AnyUnit) /\ Len(p) = wbuf[w] /\ wbuf[w] \in Nat
  BY PaddingSeq DEF IInv, Shape
<1> HIDE DEF f, p
<1>5. p \o f \in Seq(AnyUnit) /\ Len(p \o f) = Len(p) + Len(f)
  BY <1>2, <1>4, SeqJoin
<1>6. WithPadding(w, f) = p \o f
  BY DEF WithPadding, p
<1> QED BY <1>2, <1>3, <1>4, <1>5, <1>6 DEF f

LEMMA WriteKeeps == ASSUME IInv, NEW w \in Ends, Write(w) PROVE IInv'
<1>1. PICK n \in 1 .. ChunkMax :
          /\ sent[w] + n <= MaxSent[w]
          /\ Put(w, EncodeHeadFrame(Framed(w, n)))
          /\ sent' = [sent EXCEPT ![w] = @ + n]
          /\ wIndex' = [wIndex EXCEPT ![w] = Advance(@, n)]
  BY DEF Write
<1>2. /\ pc[w] = "open" /\ ivKey' = [ivKey EXCEPT ![w] = FALSE]
      /\ UNCHANGED <<fin, pc, coder, initRead, rIndex, rbuf, decbuf, got, rawSent, raw>>
      /\ UNCHANGED <<padded, counter>> /\ wbuf' = [wbuf EXCEPT ![w] = 0]
      /\ wire' = [wire EXCEPT ![w] = @ \o WithPadding(w, EncodeHeadFrame(Framed(w, n)))]
  BY <1>1 DEF Write, Put, bufVars
<1> DEFINE all == wbuf[w] + Total(Framed(w, n))
<1>3. /\ n \in Nat \ {0} /\ all \in Nat /\ all \in 0 .. all
      /\ WithPadding(w, EncodeHeadFrame(Framed(w, n))) \in Seq(AnyUnit)
      /\ Len(WithPadding(w, EncodeHeadFrame(Framed(w, n)))) = all /\ all > wbuf[w]
      /\ wbuf[w] \in Nat
  <2>1. n \in Nat \ {0}
    BY BoundFacts
  <2>2. /\ WithPadding(w, EncodeHeadFrame(Framed(w, n))) \in Seq(AnyUnit)
        /\ Len(WithPadding(w, EncodeHeadFrame(Framed(w, n)))) = all
        /\ Total(Framed(w, n)) \in Nat /\ Total(Framed(w, n)) >= 4 /\ wbuf[w] \in Nat
    BY <2>1, FramedTotal
  <2> QED BY <2>1, <2>2
<1>4. FrameOut(w, n, all)
  <2> DEFINE u == WithPadding(w, EncodeHeadFrame(Framed(w, n)))
  <2>1. SubSeq(u, 1, all) = u
    <3>1. u \in Seq(AnyUnit) /\ Len(u) = all
      BY <1>3
    <3> HIDE DEF u
    <3>2. SubSeq(u, 1, Len(u)) = u
      BY <3>1, SubSeqAll
    <3> QED BY <3>1, <3>2
  <2>2. wire' = [wire EXCEPT ![w] = @ \o SubSeq(u, 1, all)]
    BY <1>2, <2>1
  <2>3. sent'[w] = sent[w] + n /\ wIndex'[w] = Advance(wIndex[w], n) /\ ivKey'[w] = FALSE
    BY <1>1, <1>2 DEF IInv, Shape, TypeOK
  <2>4. pc' = [pc EXCEPT ![w] = pc'[w]] /\ pc'[w] = "open"
    BY <1>2 DEF IInv, Shape
  <2> HIDE DEF all, u
  <2> QED BY <1>2, <2>2, <2>3, <2>4 DEF FrameOut, all, u
<1>5. /\ wire' \in [Ends -> Seq(AnyUnit)] /\ FlowOf(w)'
      /\ Len(wire'[w]) = Len(wire[w]) + all
  <2> HIDE DEF all
  <2> QED BY <1>2, <1>3, <1>4, FrameGoesOut DEF all
<1>6. /\ sent' \in [Ends -> Nat] /\ \A e \in Ends : sent'[e] \in 0 .. MaxSent[e]
      /\ \A e \in Ends : e # w => /\ sent'[e] = sent[e] /\ wIndex'[e] = wIndex[e]
                                  /\ wire'[e] = wire[e] /\ wbuf'[e] = wbuf[e]
                                  /\ ivKey'[e] = ivKey[e]
      /\ sent[w] \in Nat
  <2>1. /\ sent \in [Ends -> Nat] /\ \A e \in Ends : sent[e] \in 0 .. MaxSent[e]
        /\ wire \in [Ends -> Seq(AnyUnit)] /\ wbuf \in [Ends -> Nat]
        /\ ivKey \in [Ends -> BOOLEAN] /\ wIndex \in [Ends -> 0 .. Wrap]
    BY DEF IInv, TypeOK, Shape
  <2>2. /\ sent' \in [Ends -> Nat] /\ sent'[w] = sent[w] + n
        /\ \A e \in Ends : e # w => sent'[e] = sent[e]
    BY <1>1, <1>3, <2>1
  <2>3. \A e \in Ends : e # w => /\ wIndex'[e] = wIndex[e] /\ wbuf'[e] = wbuf[e]
                                 /\ wire'[e] = wire[e] /\ ivKey'[e] = ivKey[e]
    BY <1>1, <1>2, <2>1
  <2>4. ASSUME NEW e \in Ends PROVE sent'[e] \in 0 .. MaxSent[e]
    <3>1. MaxSent[e] \in Nat /\ sent[e] \in 0 .. MaxSent[e]
      BY <2>1, BoundFacts
    <3>2. CASE e = w
      <4>1. sent[w] + n <= MaxSent[w]
        BY <1>1
      <4> QED BY <1>3, <2>2, <3>1, <3>2, <4>1
    <3>3. CASE e # w
      BY <2>2, <3>1, <3>3
    <3> QED BY <3>2, <3>3
  <2> QED BY <2>1, <2>2, <2>3, <2>4
<1>7. wIndex' \in [Ends -> 0 .. Wrap]
  <2>1. Advance(wIndex[w], n) \in 0 .. Wrap
    BY <1>3, BoundFacts DEF Advance, IInv, TypeOK
  <2> QED BY <1>1, <2>1 DEF IInv, TypeOK
<1>8. /\ wbuf' \in [Ends -> Nat] /\ wbuf'[w] = 0
      /\ \A e \in Ends : wbuf'[e] \in 0 .. PadLen[e]
  <2>1. wbuf \in [Ends -> Nat] /\ \A e \in Ends : wbuf[e] \in 0 .. PadLen[e]
    BY DEF IInv, TypeOK, Shape, ConnTypeOK
  <2>2. \A e \in Ends : PadLen[e] \in Nat
    BY BoundFacts
  <2>3. wbuf' \in [Ends -> Nat] /\ \A e \in Ends : wbuf'[e] = IF e = w THEN 0 ELSE wbuf[e]
    BY <1>2, <2>1
  <2> QED BY <2>1, <2>2, <2>3
<1>9. ivKey' \in [Ends -> BOOLEAN]
  BY <1>2 DEF IInv, TypeOK
<1>10. TypeOK'
  <2>1. ConnTypeOK'
    BY <1>2, <1>8 DEF IInv, TypeOK, ConnTypeOK
  <2> QED BY <1>2, <1>6, <1>7, <1>9, <2>1 DEF IInv, TypeOK
<1>11. Shape'
  BY <1>2, <1>5, <1>6, <1>8 DEF IInv, Shape
<1>12. GotInv'
  BY <1>2 DEF IInv, GotInv
<1>13. PadInv'
  <2> SUFFICES ASSUME NEW e \in Ends, pc'[e] = "open"
               PROVE  IF wbuf'[e] > 0 THEN wire'[e] = <<>> /\ counter'[Peer(e)] = wbuf'[e]
                      ELSE counter'[Peer(e)] <= Len(wire'[e])
    BY DEF PadInv
  <2>1. IF wbuf[e] > 0 THEN wire[e] = <<>> /\ counter[Peer(e)] = wbuf[e]
        ELSE counter[Peer(e)] <= Len(wire[e])
    BY <1>2 DEF IInv, PadInv
  <2>2. CASE e = w
    <3>1. counter[Peer(w)] \in Nat /\ wire[w] \in Seq(AnyUnit)
      BY PeerFacts DEF IInv, Shape
    <3>2. Len(wire[w]) \in Nat
      BY <3>1
    <3>3. counter[Peer(w)] <= Len(wire[w]) + all
      <4> HIDE DEF all
      <4> QED BY <1>3, <2>1, <2>2, <3>1, <3>2
    <3> QED BY <1>2, <1>5, <1>8, <2>2, <3>3
  <2>3. CASE e # w
    BY <1>2, <1>6, <2>1, <2>3
  <2> QED BY <2>2, <2>3
<1>14. RoleInv'
  BY <1>2, <1>6, PeerFacts DEF IInv, RoleInv
<1>15. Stranger' = Stranger /\ (Stranger => w = "server")
  BY <1>2, PeerFacts DEF IInv, RoleInv, Stranger
<1>16. StrangerInv'
  <2> SUFFICES ASSUME Stranger PROVE StrangerInv'
    BY <1>15 DEF StrangerInv
  <2>1. wire'["client"] = wire["client"]
    BY <1>6, <1>15, PeerFacts
  <2> QED BY <1>2, <2>1 DEF IInv, StrangerInv
<1>17. CutInv'
  <2>1. ~Stranger /\ pc["server"] = "raw" => wire'["client"] = wire["client"]
    BY <1>2, <1>6, PeerFacts DEF IInv, CutInv
  <2> QED BY <1>2, <1>15, <2>1 DEF IInv, CutInv
<1>18. FlowInv'
  <2> SUFFICES ASSUME NEW e \in Ends, e # w PROVE FlowOf(e)'
    BY <1>5 DEF FlowInv
  <2>1. FlowOf(e)
    BY DEF IInv, FlowInv
  <2> QED BY <1>2, <1>6, <2>1, FlowSame
<1> QED BY <1>10, <1>11, <1>12, <1>13, <1>14, <1>16, <1>17, <1>18 DEF IInv

LEMMA WriteFailsKeeps == ASSUME IInv, NEW w \in Ends, WriteFails(w) PROVE IInv'
<1> DEFINE u == WithPadding(w, EncodeHeadFrame(Framed(w, 1)))
           all == wbuf[w] + Total(Framed(w, 1))
<1>1. /\ pc[w] = "open" /\ pc' = [pc EXCEPT ![w] = "closed"]
      /\ fin' = [fin EXCEPT ![w] = @ \/ ~padded]
      /\ UNCHANGED <<padded, wbuf, counter, coder, ivKey, initRead, wIndex, rIndex>>
      /\ UNCHANGED <<rbuf, decbuf, sent, got, rawSent, raw>>
  BY DEF WriteFails, CloseConn, coderVars, bufVars, userVars
<1>2. PICK k \in 0 .. Len(u) - 1 : wire' = [wire EXCEPT ![w] = @ \o SubSeq(u, 1, k)]
  BY DEF WriteFails
<1>3. 1 \in Nat \ {0} /\ Len(u) = all /\ all \in Nat /\ k \in 0 .. all /\ k < all
  <2>1. 1 \in Nat \ {0}
    OBVIOUS
  <2>2. /\ Len(u) = all /\ Total(Framed(w, 1)) \in Nat /\ wbuf[w] \in Nat
    BY <2>1, FramedTotal
  <2>3. all \in Nat
    BY <2>2
  <2> HIDE DEF all, u
  <2> QED BY <1>2, <2>1, <2>2, <2>3
<1>4. FrameOut(w, 1, k)
  <2>1. pc' = [pc EXCEPT ![w] = pc'[w]] /\ pc'[w] = "closed"
    BY <1>1 DEF IInv, Shape
  <2> QED BY <1>1, <1>2, <1>3, <2>1 DEF FrameOut
<1>5. wire' \in [Ends -> Seq(AnyUnit)] /\ FlowOf(w)'
  <2> HIDE DEF all, u
  <2> QED BY <1>1, <1>3, <1>4, FrameGoesOut DEF all
<1>6. /\ pc' \in [Ends -> {"open", "stranger", "raw", "closed"}]
      /\ \A e \in Ends : pc'[e] = IF e = w THEN "closed" ELSE pc[e]
      /\ \A e \in Ends : e # w => wire'[e] = wire[e]
  <2>1. /\ pc \in [Ends -> {"open", "stranger", "raw", "closed"}]
        /\ wire \in [Ends -> Seq(AnyUnit)]
    BY DEF IInv, Shape
  <2> QED BY <1>1, <1>2, <2>1
<1>7. fin' \in [Ends -> BOOLEAN] /\ \A e \in Ends : e # w => fin'[e] = fin[e]
  <2>1. fin \in [Ends -> BOOLEAN] /\ padded \in BOOLEAN
    BY DEF IInv, TypeOK, ConnTypeOK
  <2> QED BY <1>1, <2>1
<1> HIDE DEF u, all
<1>8. TypeOK'
  <2>1. ConnTypeOK'
    BY <1>1, <1>7 DEF IInv, TypeOK, ConnTypeOK
  <2>2. pc'["client"] \in {"open", "stranger", "closed"} /\ pc'["server"] \in {"open", "raw", "closed"}
    BY <1>6, PeerFacts DEF IInv, TypeOK
  <2> QED BY <1>1, <2>1, <2>2 DEF IInv, TypeOK
<1>9. Shape'
  BY <1>1, <1>5, <1>6 DEF IInv, Shape
<1>10. GotInv'
  BY <1>1 DEF IInv, GotInv
<1>11. PadInv'
  BY <1>1, <1>6 DEF IInv, PadInv
<1>12. RoleInv'
  <2>1. \A e \in Ends : fin'[e] => pc'[e] = "closed"
    BY <1>6, <1>7 DEF IInv, RoleInv
  <2> QED BY <1>1, <1>6, <2>1, PeerFacts DEF IInv, RoleInv
<1>13. Stranger' = Stranger /\ (Stranger => w = "server")
  BY <1>1, <1>6, PeerFacts DEF IInv, RoleInv, Stranger
<1>14. StrangerInv'
  <2> SUFFICES ASSUME Stranger PROVE StrangerInv'
    BY <1>13 DEF StrangerInv
  <2>1. wire'["client"] = wire["client"]
    BY <1>6, <1>13, PeerFacts
  <2> QED BY <1>1, <2>1 DEF IInv, StrangerInv
<1>15. CutInv'
  <2>1. ~Stranger /\ pc'["server"] = "raw" =>
            /\ pc["server"] = "raw" /\ wire'["client"] = wire["client"]
            /\ pc'["client"] = pc["client"]
    BY <1>1, <1>6, PeerFacts DEF IInv, CutInv
  <2> QED BY <1>1, <1>6, <1>13, <2>1 DEF IInv, CutInv
<1>16. FlowInv'
  <2> SUFFICES ASSUME NEW e \in Ends, e # w PROVE FlowOf(e)'
    BY <1>5 DEF FlowInv
  <2>1. FlowOf(e)
    BY DEF IInv, FlowInv
  <2>2. Peer(e) = w /\ pc'[w] = "closed"
    BY <1>6, PeerFacts
  <2> QED BY <2>2 DEF FlowOf
<1> QED BY <1>8, <1>9, <1>10, <1>11, <1>12, <1>14, <1>15, <1>16 DEF IInv

(* WriteRaw of the redirector                                              *)
LEMMA RawServerKeeps == ASSUME IInv, WriteRaw("server") PROVE IInv'
<1> DEFINE w == "server"
           n == rawSent[w] + 1
           p == [k \in 1 .. wbuf[w] |-> Pad]
<1>1. /\ pc[w] = "raw" /\ rawSent[w] < MaxRaw /\ rawSent' = [rawSent EXCEPT ![w] = @ + 1]
      /\ UNCHANGED <<padded, counter, fin, pc, coder, ivKey, initRead, wIndex, rIndex>>
      /\ UNCHANGED <<rbuf, decbuf, sent, got, raw>>
      /\ wbuf' = [wbuf EXCEPT ![w] = 0]
      /\ wire' = [wire EXCEPT ![w] = @ \o WithPadding(w, <<RawUnit(n)>>)]
  <2>1. pc[w] = "raw"
    BY DEF WriteRaw, IInv, TypeOK
  <2> QED BY <2>1 DEF WriteRaw, Put, coderVars, bufVars
<1>2. rawSent \in [Ends -> 0 .. MaxRaw] /\ MaxRaw \in Nat /\ "server" \in Ends
  BY BoundFacts, PeerFacts DEF IInv, TypeOK
<1>3. /\ rawSent' \in [Ends -> 0 .. MaxRaw] /\ rawSent'["server"] > 0
      /\ rawSent'["client"] = rawSent["client"] /\ n \in Nat
  BY <1>1, <1>2, PeerFacts
<1>4. /\ wire' \in [Ends -> Seq(AnyUnit)] /\ wire'["client"] = wire["client"]
  <2>1. p \in Seq(AnyUnit)
    BY <1>2, PaddingSeq DEF IInv, Shape
  <2>2. <<RawUnit(n)>> \in Seq(AnyUnit)
    BY <1>3 DEF AnyUnit
  <2> DEFINE q == <<RawUnit(n)>>
             x == wire[w]
  <2>3. x \in Seq(AnyUnit) /\ wire \in [Ends -> Seq(AnyUnit)]
    BY <1>2 DEF IInv, Shape
  <2> HIDE DEF p, q, x
  <2>4. p \o q \in Seq(AnyUnit)
    BY <2>1, <2>2, SeqJoin DEF q
  <2>5. x \o (p \o q) \in Seq(AnyUnit)
    BY <2>3, <2>4, SeqJoin
  <2>6. wire' = [wire EXCEPT ![w] = x \o (p \o q)]
    BY <1>1 DEF p, q, x, WithPadding
  <2> QED BY <2>3, <2>5, <2>6, PeerFacts
<1>5. /\ wbuf' \in [Ends -> Nat] /\ wbuf'["client"] = wbuf["client"]
      /\ \A e \in Ends : wbuf'[e] \in 0 .. PadLen[e]
  <2>1. wbuf \in [Ends -> Nat] /\ \A e \in Ends : wbuf[e] \in 0 .. PadLen[e]
    BY DEF IInv, TypeOK, Shape, ConnTypeOK
  <2>2. \A e \in Ends : PadLen[e] \in Nat
    BY BoundFacts
  <2>3. wbuf' \in [Ends -> Nat] /\ \A e \in Ends : wbuf'[e] = IF e = w THEN 0 ELSE wbuf[e]
    BY <1>1, <2>1
  <2> QED BY <2>1, <2>2, <2>3, PeerFacts
<1>6. TypeOK'
  <2>1. ConnTypeOK'
    BY <1>1, <1>5 DEF IInv, TypeOK, ConnTypeOK
  <2> QED BY <1>1, <1>3, <2>1 DEF IInv, TypeOK
<1>7. Shape'
  BY <1>1, <1>4, <1>5 DEF IInv, Shape
<1>8. GotInv'
  BY <1>1 DEF IInv, GotInv
<1>9. PadInv'
  <2> SUFFICES ASSUME NEW e \in Ends, pc'[e] = "open"
               PROVE  IF wbuf'[e] > 0 THEN wire'[e] = <<>> /\ counter'[Peer(e)] = wbuf'[e]
                      ELSE counter'[Peer(e)] <= Len(wire'[e])
    BY DEF PadInv
  <2>1. e = "client"
    BY <1>1, PeerFacts
  <2> QED BY <1>1, <1>4, <1>5, <2>1 DEF IInv, PadInv
<1>10. RoleInv'
  BY <1>1, <1>3 DEF IInv, RoleInv
<1>11. StrangerInv'
  <2>1. Stranger' = Stranger
    BY <1>1, <1>3 DEF Stranger
  <2> QED BY <1>1, <1>3, <1>4, <2>1 DEF IInv, StrangerInv
<1>12. CutInv'
  <2>1. Stranger' = Stranger
    BY <1>1, <1>3 DEF Stranger
  <2>2. \A e \in Ends : pc'[e] = "open" /\ rawSent'[Peer(e)] = 0 =>
            \A k \in DOMAIN rbuf'[e] : rbuf'[e][k].k = k
    BY <1>1, <1>3, PeerFacts
  <2> QED BY <1>1, <1>3, <1>4, <2>1, <2>2 DEF IInv, CutInv
<1>13. FlowInv'
  <2> SUFFICES ASSUME NEW e \in Ends PROVE FlowOf(e)'
    BY DEF FlowInv
  <2>1. CASE e = "server"
    BY <1>3, <2>1 DEF FlowOf
  <2>2. CASE e = "client"
    BY <1>1, <2>2, PeerFacts DEF FlowOf
  <2> QED BY <2>1, <2>2, PeerFacts
<1> QED BY <1>6, <1>7, <1>8, <1>9, <1>10, <1>11, <1>12, <1>13 DEF IInv

(* WriteRaw of a stranger                                                  *)
LEMMA RawClientKeeps == ASSUME IInv, WriteRaw("client") PROVE IInv'
<1> DEFINE w == "client"
           n == rawSent[w]
           x == wire[w]
           new == x \o <<RawUnit(n + 1)>>
<1>1. /\ pc[w] = "stranger" /\ n < MaxRaw /\ rawSent' = [rawSent EXCEPT ![w] = @ + 1]
      /\ UNCHANGED <<padded, counter, wbuf, fin, pc, coder, ivKey, initRead, wIndex, rIndex>>
      /\ UNCHANGED <<rbuf, decbuf, sent, got, raw>>
      /\ wire' = [wire EXCEPT ![w] = new]
  <2>1. pc[w] = "stranger"
    BY DEF WriteRaw, IInv, TypeOK
  <2> QED BY <2>1 DEF WriteRaw, coderVars, bufVars
<1>2. rawSent \in [Ends -> 0 .. MaxRaw] /\ MaxRaw \in Nat /\ "client" \in Ends
  BY BoundFacts, PeerFacts DEF IInv, TypeOK
<1>3. /\ rawSent' \in [Ends -> 0 .. MaxRaw] /\ rawSent'["client"] = n + 1
      /\ rawSent'["server"] = rawSent["server"] /\ n \in Nat
  BY <1>1, <1>2, PeerFacts
<1>4. /\ wire \in [Ends -> Seq(AnyUnit)] /\ x \in Seq(AnyUnit)
  BY <1>2 DEF IInv, Shape
<1>5. /\ new \in Seq(AnyUnit) /\ Len(new) = Len(x) + 1 /\ Len(x) \in Nat
      /\ \A k \in 1 .. Len(x) : new[k] = x[k]
      /\ new[Len(x) + 1] = RawUnit(n + 1)
  <2>1. RawUnit(n + 1) \in AnyUnit
    BY <1>3 DEF AnyUnit
  <2> DEFINE r == RawUnit(n + 1)
  <2> HIDE DEF x, r, n
  <2> QED BY <1>4, <2>1 DEF r
<1> HIDE DEF new
<1>6. /\ wire' \in [Ends -> Seq(AnyUnit)] /\ wire'["client"] = new
      /\ wire'["server"] = wire["server"]
  BY <1>1, <1>4, <1>5, PeerFacts
<1>7. TypeOK'
  <2>1. ConnTypeOK'
    BY <1>1 DEF IInv, TypeOK, ConnTypeOK
  <2> QED BY <1>1, <1>3, <2>1 DEF IInv, TypeOK
<1>8. Shape'
  BY <1>1, <1>6 DEF IInv, Shape
<1>9. GotInv'
  BY <1>1 DEF IInv, GotInv
<1>10. PadInv'
  <2> SUFFICES ASSUME NEW e \in Ends, pc'[e] = "open"
               PROVE  IF wbuf'[e] > 0 THEN wire'[e] = <<>> /\ counter'[Peer(e)] = wbuf'[e]
                      ELSE counter'[Peer(e)] <= Len(wire'[e])
    BY DEF PadInv
  <2>1. e = "server"
    BY <1>1, PeerFacts
  <2> QED BY <1>1, <1>6, <2>1 DEF IInv, PadInv
<1>11. RoleInv'
  BY <1>1, <1>3 DEF IInv, RoleInv
<1>12. Stranger /\ Stranger'
  BY <1>1 DEF Stranger
<1>13. StrangerInv'
  <2> DEFINE skipped == (IF padded THEN PadLen["client"] ELSE 0) - counter["server"]
  <2>1. /\ ~initRead["server"] /\ decbuf["server"] = <<>> /\ skipped >= 0
        /\ Len(raw) + Len(rbuf["server"]) + Len(x) + skipped = n
        /\ counter["server"] > 0 => raw = <<>> /\ rbuf["server"] = <<>>
        /\ \A k \in DOMAIN raw : raw[k].k = skipped + k
        /\ \A k \in DOMAIN rbuf["server"] : rbuf["server"][k] = RawUnit(skipped + Len(raw) + k)
        /\ \A k \in DOMAIN x : x[k] = RawUnit(n - Len(x) + k)
    BY <1>12 DEF IInv, StrangerInv
  <2>2. skipped' = skipped
    BY <1>1
  <2>3. raw \in Seq(AnyUnit) /\ rbuf["server"] \in Seq(AnyUnit)
    BY PeerFacts DEF IInv, Shape
  <2>4. Len(raw) \in Nat /\ Len(rbuf["server"]) \in Nat
    <3> DEFINE y == rbuf["server"]
    <3> HIDE DEF y
    <3>1. Len(y) \in Nat /\ Len(raw) \in Nat
      BY <2>3 DEF y
    <3> QED BY <3>1 DEF y
  <2>5. skipped \in Int
    BY BoundFacts, PeerFacts, SMTT(30) DEF IInv, Shape
  <2> HIDE DEF skipped, n, x
  <2>6. Len(raw) + Len(rbuf["server"]) + Len(new) + skipped = n + 1
    <3>1. Len(raw) + Len(rbuf["server"]) + Len(x) + skipped = n
      BY <2>1
    <3>2. Len(new) = Len(x) + 1 /\ Len(x) \in Nat /\ n \in Nat
      BY <1>3, <1>5
    <3> DEFINE a == Len(raw)
               b == Len(rbuf["server"])
    <3>3. a \in Nat /\ b \in Nat /\ a + b + Len(x) + skipped = n
      BY <2>4, <3>1
    <3> HIDE DEF a, b
    <3>4. a + b + Len(new) + skipped = n + 1
      BY <2>5, <3>2, <3>3
    <3> QED BY <3>4 DEF a, b
  <2>7. \A k \in DOMAIN new : new[k] = RawUnit((n + 1) - Len(new) + k)
    <3> SUFFICES ASSUME NEW k \in 1 .. Len(x) + 1
                 PROVE  new[k] = RawUnit((n + 1) - Len(new) + k)
      <4>1. DOMAIN new = 1 .. Len(x) + 1
        BY <1>5
      <4> QED BY <4>1
    <3>1. (n + 1) - Len(new) + k = n - Len(x) + k
      BY <1>3, <1>5
    <3>2. CASE k \in 1 .. Len(x)
      <4>1. x[k] = RawUnit(n - Len(x) + k)
        <5>1. DOMAIN x = 1 .. Len(x)
          BY <1>4
        <5> QED BY <2>1, <3>2, <5>1
      <4> QED BY <1>5, <3>1, <3>2, <4>1
    <3>3. CASE k = Len(x) + 1
      <4>1. n - Len(x) + k = n + 1
        BY <1>3, <1>5, <3>3
      <4> QED BY <1>5, <3>1, <3>3, <4>1
    <3> QED BY <1>5, <3>2, <3>3
  <2>8. rawSent'["client"] = n + 1 /\ wire'["client"] = new /\ UNCHANGED <<initRead, decbuf, raw, rbuf, counter>>
    BY <1>1, <1>3, <1>6
  <2> QED BY <2>1, <2>2, <2>6, <2>7, <2>8 DEF StrangerInv, skipped
<1>14. CutInv'
  <2>1. \A e \in Ends : pc'[e] = "open" /\ rawSent'[Peer(e)] = 0 =>
            \A k \in DOMAIN rbuf'[e] : rbuf'[e][k].k = k
    BY <1>1, <1>3, PeerFacts
  <2> QED BY <1>1, <1>12, <2>1 DEF IInv, CutInv
<1>15. FlowInv'
  <2> SUFFICES ASSUME NEW e \in Ends PROVE FlowOf(e)'
    BY DEF FlowInv
  <2>1. CASE e = "client"
    <3>1. n + 1 # 0
      BY <1>3
    <3> QED BY <1>3, <2>1, <3>1 DEF FlowOf
  <2>2. CASE e = "server"
    BY <1>1, <2>2, PeerFacts DEF FlowOf
  <2> QED BY <2>1, <2>2, PeerFacts
<1> QED BY <1>7, <1>8, <1>9, <1>10, <1>11, <1>13, <1>14, <1>15 DEF IInv

LEMMA SeqOf ==
    ASSUME NEW S, NEW R, NEW s \in Seq(S), \A k \in 1 .. Len(s) : s[k] \in R
    PROVE  s \in Seq(R)
OBVIOUS

(* The bytes are the next e has to get, and no more than the peer may send.*)
Due(e, bytes) ==
    /\ \A k \in 1 .. Len(bytes) : bytes[k] = Len(got[e]) + k
    /\ Len(got[e]) + Len(bytes) <= MaxSent[Peer(e)]

(* A Read hands over the next bytes, and keeps the ones after them.        *)
LEMMA DeliverGot ==
    ASSUME IInv, NEW e \in Ends, NEW bytes \in Seq(Nat), Deliver(e, bytes), Due(e, bytes)
    PROVE  /\ got' \in [Ends -> Seq(Nat)] /\ decbuf' \in [Ends -> Seq(Nat)]
           /\ \A f \in Ends : f # e => got'[f] = got[f] /\ decbuf'[f] = decbuf[f]
           /\ Len(got'[e]) + Len(decbuf'[e]) = Len(got[e]) + Len(bytes)
           /\ GotInv'
           /\ \A f \in Ends : /\ got'[f] \in Seq(Garbled .. MaxSent[Peer(f)])
                              /\ decbuf'[f] \in Seq(Garbled .. MaxSent[Peer(f)])
<1> DEFINE n == IF Len(bytes) > ReadMax THEN ReadMax ELSE Len(bytes)
           L == Len(bytes)
           g == got[e]
           M == MaxSent[Peer(e)]
           now == g \o SubSeq(bytes, 0 + 1, n)
           rest == SubSeq(bytes, n + 1, L)
<1>1. /\ got \in [Ends -> Seq(Nat)] /\ decbuf \in [Ends -> Seq(Nat)]
      /\ \A f \in Ends : /\ got[f] \in Seq(Garbled .. MaxSent[Peer(f)])
                         /\ decbuf[f] \in Seq(Garbled .. MaxSent[Peer(f)])
      /\ GotInv
  BY DEF IInv, Shape, TypeOK
<1>2. /\ got' = [got EXCEPT ![e] = now] /\ decbuf' = [decbuf EXCEPT ![e] = rest]
  <2>1. 0 + 1 = 1
    OBVIOUS
  <2> QED BY <2>1 DEF Deliver
<1>3. g \in Seq(Nat) /\ \A k \in 1 .. Len(g) : g[k] = k
  <2>1. g \in Seq(Nat)
    BY <1>1
  <2>2. DOMAIN g = 1 .. Len(g)
    BY <2>1
  <2> QED BY <1>1, <2>1, <2>2 DEF GotInv
<1>4. L \in Nat /\ n \in 0 .. L /\ n \in Nat /\ Len(g) \in Nat /\ M \in Nat /\ L = Len(bytes)
      /\ Len(g) + L <= M
  <2>1. M \in Nat
    BY BoundFacts, PeerFacts
  <2>2. Len(g) \in Nat
    BY <1>3
  <2>3. ReadMax \in Nat /\ L \in Nat
    BY BoundFacts
  <2>4. n \in 0 .. L
    BY <2>3
  <2>5. Len(g) + L <= M
    BY DEF Due
  <2> HIDE DEF M, g, n, L
  <2>6. L = Len(bytes) /\ n \in Nat
    BY <2>3, <2>4 DEF L
  <2> QED BY <2>1, <2>2, <2>3, <2>4, <2>5, <2>6
<1>5. \A k \in 1 .. L : bytes[k] = Len(g) + k
  BY DEF Due
<1> HIDE DEF g, M, n, L
<1> DEFINE part == SubSeq(bytes, 0 + 1, n)
<1>6. /\ part \in Seq(Nat) /\ Len(part) = n /\ \A k \in 1 .. n : part[k] = bytes[k]
  <2>1. 0 \in Nat /\ n \in 0 .. Len(bytes)
    BY <1>4
  <2>2. /\ part \in Seq(Nat) /\ Len(part) = IF 0 <= n THEN n - 0 ELSE 0
        /\ \A k \in 1 .. n - 0 : part[k] = bytes[k + 0]
    BY <2>1, SubSeqShape
  <2> HIDE DEF part
  <2>3. \A k \in 1 .. n : k \in 1 .. n - 0 /\ k + 0 = k
    BY <1>4
  <2> QED BY <1>4, <2>2, <2>3
<1>7. /\ rest \in Seq(Nat) /\ Len(rest) = L - n /\ \A k \in 1 .. L - n : rest[k] = bytes[k + n]
  <2>1. L \in 0 .. Len(bytes) /\ n \in Nat
    BY <1>4
  <2>2. /\ rest \in Seq(Nat) /\ Len(rest) = IF n <= L THEN L - n ELSE 0
        /\ \A k \in 1 .. L - n : rest[k] = bytes[k + n]
    BY <2>1, SubSeqShape
  <2> QED BY <1>4, <2>2
<1> HIDE DEF part, rest
<1>8. /\ now \in Seq(Nat) /\ Len(now) = Len(g) + n
      /\ \A k \in 1 .. Len(g) : now[k] = g[k]
      /\ \A k \in Len(g) + 1 .. Len(g) + n : now[k] = part[k - Len(g)]
  <2>1. now = g \o part
    BY DEF part
  <2>2. /\ g \o part \in Seq(Nat) /\ Len(g \o part) = Len(g) + Len(part)
        /\ \A k \in 1 .. Len(g) : (g \o part)[k] = g[k]
        /\ \A k \in Len(g) + 1 .. Len(g) + Len(part) : (g \o part)[k] = part[k - Len(g)]
    BY <1>3, <1>6, SeqJoin
  <2> QED BY <1>6, <2>1, <2>2
<1> HIDE DEF now
<1>9. \A k \in 1 .. Len(now) : now[k] = k
  <2> TAKE k \in 1 .. Len(now)
  <2>1. CASE k \in 1 .. Len(g)
    BY <1>3, <1>8, <2>1
  <2>2. CASE k \notin 1 .. Len(g)
    <3>1. /\ k \in Len(g) + 1 .. Len(g) + n /\ k - Len(g) \in 1 .. n /\ k - Len(g) \in 1 .. L
          /\ Len(g) + (k - Len(g)) = k
      BY <1>4, <1>8, <2>2, SMTT(30)
    <3> QED BY <1>5, <1>6, <1>8, <3>1
  <2> QED BY <2>1, <2>2
<1>10. \A k \in 1 .. Len(rest) : rest[k] = Len(now) + k
  <2> TAKE k \in 1 .. Len(rest)
  <2>1. k \in 1 .. L - n /\ k + n \in 1 .. L /\ Len(g) + (k + n) = Len(now) + k
    BY <1>4, <1>7, <1>8
  <2> QED BY <1>5, <1>7, <2>1
<1>11. /\ got'[e] = now /\ decbuf'[e] = rest
       /\ \A f \in Ends : f # e => got'[f] = got[f] /\ decbuf'[f] = decbuf[f]
       /\ got' \in [Ends -> Seq(Nat)] /\ decbuf' \in [Ends -> Seq(Nat)]
  BY <1>1, <1>2, <1>7, <1>8
<1>12. Len(now) + Len(rest) = Len(g) + L
  BY <1>4, <1>7, <1>8
<1>13. now \in Seq(Garbled .. M) /\ rest \in Seq(Garbled .. M)
  <2>1. \A k \in 1 .. Len(now) : now[k] \in 0 .. M
    <3> TAKE k \in 1 .. Len(now)
    <3>1. k \in 0 .. M
      BY <1>4, <1>8
    <3> QED BY <1>9, <3>1
  <2>2. \A k \in 1 .. Len(rest) : rest[k] \in 0 .. M
    <3> TAKE k \in 1 .. Len(rest)
    <3>1. Len(now) + k \in 0 .. M
      BY <1>4, <1>7, <1>8, SMTT(30)
    <3> QED BY <1>10, <3>1
  <2> DEFINE R == 0 .. M
  <2>3. /\ \A k \in 1 .. Len(now) : now[k] \in R
        /\ \A k \in 1 .. Len(rest) : rest[k] \in R
    BY <2>1, <2>2
  <2> HIDE DEF R
  <2>4. now \in Seq(R) /\ rest \in Seq(R)
    BY <1>7, <1>8, <2>3, SeqOf
  <2> QED BY <2>4 DEF R, Garbled
<1>14. GotInv'
  <2> SUFFICES ASSUME NEW f \in Ends
               PROVE  /\ \A k \in DOMAIN got'[f] : got'[f][k] = k
                      /\ \A k \in DOMAIN decbuf'[f] : decbuf'[f][k] = Len(got'[f]) + k
    BY DEF GotInv
  <2>1. CASE f = e
    <3>1. DOMAIN now = 1 .. Len(now) /\ DOMAIN rest = 1 .. Len(rest)
      BY <1>7, <1>8
    <3> QED BY <1>9, <1>10, <1>11, <2>1, <3>1
  <2>2. CASE f # e
    BY <1>1, <1>11, <2>2 DEF GotInv
  <2> QED BY <2>1, <2>2
<1>15. \A f \in Ends : /\ got'[f] \in Seq(Garbled .. MaxSent[Peer(f)])
                       /\ decbuf'[f] \in Seq(Garbled .. MaxSent[Peer(f)])
  <2> SUFFICES ASSUME NEW f \in Ends
               PROVE  /\ got'[f] \in Seq(Garbled .. MaxSent[Peer(f)])
                      /\ decbuf'[f] \in Seq(Garbled .. MaxSent[Peer(f)])
    OBVIOUS
  <2>1. CASE f = e
    BY <1>11, <1>13, <2>1 DEF M
  <2>2. CASE f # e
    BY <1>1, <1>11, <2>2
  <2> QED BY <2>1, <2>2
<1> QED BY <1>11, <1>12, <1>14, <1>15 DEF g, L

(* What is decoded was sent, so an open end never has more than that.      *)
LEMMA DecodedWasSent ==
    ASSUME IInv, NEW e \in Ends, FlowOf(Peer(e)), pc[e] = "open", rawSent[Peer(e)] = 0
    PROVE  /\ Len(got[e]) + Len(decbuf[e]) <= sent[Peer(e)]
           /\ sent[Peer(e)] \in Nat /\ sent[Peer(e)] <= MaxSent[Peer(e)]
           /\ Len(got[e]) \in Nat /\ Len(decbuf[e]) \in Nat
<1>1. Peer(Peer(e)) = e /\ Peer(e) \in Ends
  BY PeerFacts
<1>2. PICK c \in [1 .. Len(Coming(Peer(e))) -> Chunk] : Flow(Peer(e), c)
  BY <1>1 DEF FlowOf
<1>3. Decoder(e).base <= sent[Peer(e)]
  BY <1>1, <1>2 DEF Flow
<1>4. Len(got[e]) + Len(decbuf[e]) <= sent[Peer(e)]
  BY <1>3 DEF Decoder
<1>5. sent[Peer(e)] \in Nat /\ sent[Peer(e)] <= MaxSent[Peer(e)]
  BY <1>1, BoundFacts DEF IInv, TypeOK, Shape
<1>6. got[e] \in Seq(Nat) /\ decbuf[e] \in Seq(Nat)
  BY DEF IInv, Shape
<1>7. Len(got[e]) \in Nat /\ Len(decbuf[e]) \in Nat
  <2> DEFINE x == got[e]
             y == decbuf[e]
  <2>1. x \in Seq(Nat) /\ y \in Seq(Nat)
    BY <1>6
  <2> HIDE DEF x, y
  <2>2. Len(x) \in Nat /\ Len(y) \in Nat
    BY <2>1
  <2> QED BY <2>2 DEF x, y
<1> QED BY <1>4, <1>5, <1>7

(* The peer of an open end sends frames, but for a stranger.               *)
LEMMA OpenPeer ==
    ASSUME IInv, NEW e \in Ends, pc[e] = "open", ~Stranger
    PROVE  rawSent[Peer(e)] = 0
<1>1. \A f \in Ends : rawSent[f] \in 0 .. MaxRaw /\ MaxRaw \in Nat
  BY BoundFacts DEF IInv, TypeOK
<1>2. ~(rawSent["client"] > 0)
  BY DEF Stranger
<1>3. e = "client" => ~(rawSent["server"] > 0)
  BY DEF IInv, RoleInv
<1> QED BY <1>1, <1>2, <1>3, PeerFacts

LEMMA ReadRestKeeps == ASSUME IInv, NEW e \in Ends, ReadRest(e) PROVE IInv'
<1>1. /\ pc[e] = "open" /\ decbuf[e] # <<>> /\ Deliver(e, decbuf[e])
      /\ UNCHANGED <<padded, wire, fin, wbuf, counter, pc, coder, ivKey, initRead, wIndex>>
      /\ UNCHANGED <<rIndex, rbuf, sent, rawSent, raw>>
  BY DEF ReadRest, connVars, coderVars
<1>2. ~Stranger \/ e = "client"
  BY <1>1, PeerFacts DEF IInv, StrangerInv
<1>3. ~Stranger
  BY <1>1, <1>2 DEF IInv, RoleInv, Stranger
<1>4. rawSent[Peer(e)] = 0
  BY <1>1, <1>3, OpenPeer
<1>5. FlowOf(Peer(e)) /\ decbuf[e] \in Seq(Nat) /\ got[e] \in Seq(Nat)
  BY PeerFacts DEF IInv, FlowInv, Shape
<1>6. Due(e, decbuf[e])
  <2>1. DOMAIN decbuf[e] = 1 .. Len(decbuf[e])
    BY <1>5
  <2>2. MaxSent[Peer(e)] \in Nat
    BY PeerFacts, BoundFacts
  <2>3. \A k \in 1 .. Len(decbuf[e]) : decbuf[e][k] = Len(got[e]) + k
    BY <2>1 DEF IInv, GotInv
  <2> DEFINE a == Len(got[e])
             b == Len(decbuf[e])
  <2>4. a + b <= sent[Peer(e)] /\ sent[Peer(e)] <= MaxSent[Peer(e)] /\ sent[Peer(e)] \in Nat
        /\ a \in Nat /\ b \in Nat
    BY <1>1, <1>4, <1>5, DecodedWasSent
  <2> HIDE DEF a, b
  <2>5. a + b <= MaxSent[Peer(e)]
    BY <2>2, <2>4
  <2> QED BY <2>3, <2>5 DEF Due, a, b
<1>7. /\ got' \in [Ends -> Seq(Nat)] /\ decbuf' \in [Ends -> Seq(Nat)]
      /\ \A f \in Ends : f # e => got'[f] = got[f] /\ decbuf'[f] = decbuf[f]
      /\ Len(got'[e]) + Len(decbuf'[e]) = Len(got[e]) + Len(decbuf[e])
      /\ GotInv'
      /\ \A f \in Ends : /\ got'[f] \in Seq(Garbled .. MaxSent[Peer(f)])
                         /\ decbuf'[f] \in Seq(Garbled .. MaxSent[Peer(f)])
  BY <1>1, <1>5, <1>6, DeliverGot
<1>8. TypeOK'
  <2>1. ConnTypeOK'
    BY <1>1 DEF IInv, TypeOK, ConnTypeOK
  <2> QED BY <1>1, <1>7, <2>1 DEF IInv, TypeOK
<1>9. Shape'
  BY <1>1, <1>7 DEF IInv, Shape
<1>10. PadInv' /\ RoleInv'
  BY <1>1 DEF IInv, PadInv, RoleInv
<1>11. ~Stranger'
  BY <1>1, <1>3 DEF Stranger
<1>12. StrangerInv'
  BY <1>11 DEF StrangerInv
<1>13. CutInv'
  BY <1>1, <1>3 DEF IInv, CutInv
<1>14. FlowInv'
  <2> SUFFICES ASSUME NEW f \in Ends PROVE FlowOf(f)'
    BY DEF FlowInv
  <2>1. FlowOf(f) /\ Peer(f) \in Ends
    BY PeerFacts DEF IInv, FlowInv
  <2>2. Len(got'[Peer(f)]) + Len(decbuf'[Peer(f)]) = Len(got[Peer(f)]) + Len(decbuf[Peer(f)])
    BY <1>7, <2>1
  <2> QED BY <1>1, <2>1, <2>2, FlowSame
<1> QED BY <1>7, <1>8, <1>9, <1>10, <1>12, <1>13, <1>14 DEF IInv

(* ReadEof, Close and Finalize: e ends, or the server takes the connection *)
(* of a client that is gone to the redirector.                             *)
Leaves(e) ==
    /\ pc' = [pc EXCEPT ![e] = pc'[e]]
    /\ \/ pc'[e] = "closed"
       \/ /\ e = "server" /\ pc[e] = "open" /\ pc'[e] = "raw"
          /\ wire["client"] = <<>> /\ pc["client"] = "closed"
    /\ fin' \in [Ends -> BOOLEAN]
    /\ \A f \in Ends : fin'[f] => fin[f] \/ (f = e /\ pc'[e] = "closed")
    /\ UNCHANGED <<padded, wire, wbuf, counter, coder, ivKey, initRead, wIndex, rIndex>>
    /\ UNCHANGED <<rbuf, decbuf, sent, got, rawSent, raw>>

(* A stranger that sent nothing leaves nothing behind.                     *)
LEMMA NothingSent ==
    ASSUME IInv, Stranger, rawSent["client"] = 0
    PROVE  raw = <<>> /\ rbuf["server"] = <<>> /\ wire["client"] = <<>>
<1> DEFINE skipped == (IF padded THEN PadLen["client"] ELSE 0) - counter["server"]
           x == rbuf["server"]
           y == wire["client"]
<1>1. skipped >= 0 /\ Len(raw) + Len(x) + Len(y) + skipped = 0
  BY DEF IInv, StrangerInv
<1>2. skipped \in Int
  <2>1. PadLen["client"] \in Nat /\ counter["server"] \in Nat
    BY BoundFacts, PeerFacts DEF IInv, Shape
  <2> QED BY <2>1
<1>3. raw \in Seq(AnyUnit) /\ x \in Seq(AnyUnit) /\ y \in Seq(AnyUnit)
  BY PeerFacts DEF IInv, Shape
<1> SUFFICES raw = <<>> /\ x = <<>> /\ y = <<>>
  OBVIOUS
<1> HIDE DEF skipped, x, y
<1>4. /\ Len(raw) \in Nat /\ (Len(raw) = 0 <=> raw = <<>>)
      /\ Len(x) \in Nat /\ (Len(x) = 0 <=> x = <<>>)
      /\ Len(y) \in Nat /\ (Len(y) = 0 <=> y = <<>>)
  BY <1>3, SeqEmpty
<1>5. Len(raw) = 0 /\ Len(x) = 0 /\ Len(y) = 0
  BY <1>1, <1>2, <1>4
<1> QED BY <1>4, <1>5

LEMMA LeavesKeeps == ASSUME IInv, NEW e \in Ends, Leaves(e) PROVE IInv'
<1>1. /\ fin' \in [Ends -> BOOLEAN]
      /\ \A f \in Ends : fin'[f] => fin[f] \/ (f = e /\ pc'[e] = "closed")
      /\ UNCHANGED <<padded, wire, wbuf, counter, coder, ivKey, initRead, wIndex, rIndex>>
      /\ UNCHANGED <<rbuf, decbuf, sent, got, rawSent, raw>>
  BY DEF Leaves
<1>2. /\ pc' \in [Ends -> {"open", "stranger", "raw", "closed"}]
      /\ \A f \in Ends : f # e => pc'[f] = pc[f]
      /\ \/ pc'[e] = "closed"
         \/ /\ e = "server" /\ pc[e] = "open" /\ pc'[e] = "raw"
            /\ wire["client"] = <<>> /\ pc["client"] = "closed"
  <2>1. pc \in [Ends -> {"open", "stranger", "raw", "closed"}]
    BY DEF IInv, Shape
  <2>2. \/ pc'[e] = "closed"
        \/ /\ e = "server" /\ pc[e] = "open" /\ pc'[e] = "raw"
           /\ wire["client"] = <<>> /\ pc["client"] = "closed"
    BY DEF Leaves
  <2>3. pc' = [pc EXCEPT ![e] = pc'[e]]
    BY DEF Leaves
  <2>4. pc'[e] \in {"open", "stranger", "raw", "closed"}
    BY <2>2
  <2> DEFINE v == pc'[e]
  <2> HIDE DEF v
  <2>5. pc' = [pc EXCEPT ![e] = v] /\ v \in {"open", "stranger", "raw", "closed"}
    BY <2>3, <2>4 DEF v
  <2>6. /\ pc' \in [Ends -> {"open", "stranger", "raw", "closed"}]
        /\ \A f \in Ends : f # e => pc'[f] = pc[f]
    BY <2>1, <2>5
  <2> QED BY <2>2, <2>6
<1>3. \A f \in Ends : pc'[f] = "open" => pc[f] = "open"
  BY <1>2
<1>4. TypeOK'
  <2>1. ConnTypeOK'
    BY <1>1 DEF IInv, TypeOK, ConnTypeOK
  <2>2. /\ pc'["client"] \in {"open", "stranger", "closed"}
        /\ pc'["server"] \in {"open", "raw", "closed"}
    BY <1>2, PeerFacts DEF IInv, TypeOK
  <2> QED BY <1>1, <2>1, <2>2 DEF IInv, TypeOK
<1>5. Shape'
  BY <1>1, <1>2 DEF IInv, Shape
<1>6. GotInv'
  BY <1>1 DEF IInv, GotInv
<1>7. PadInv'
  BY <1>1, <1>3 DEF IInv, PadInv
<1>8. RoleInv'
  <2>1. \A f \in Ends : fin'[f] => pc'[f] = "closed"
    BY <1>1, <1>2 DEF IInv, RoleInv
  <2>2. pc'["client"] = "open" => pc["client"] = "open"
    BY <1>3, PeerFacts
  <2>3. pc'["server"] = "open" => pc["server"] = "open"
    BY <1>3, PeerFacts
  <2>4. pc'["server"] = "raw" => pc'["client"] # "open"
    BY <1>2, PeerFacts DEF IInv, RoleInv
  <2>5. pc'["client"] = "stranger" => pc["client"] = "stranger"
    BY <1>2, PeerFacts
  <2> QED BY <1>1, <2>1, <2>2, <2>3, <2>4, <2>5 DEF IInv, RoleInv
<1>9. Stranger' => Stranger
  BY <1>1, <1>2, PeerFacts DEF Stranger
<1>10. StrangerInv'
  <2> SUFFICES ASSUME Stranger PROVE StrangerInv'
    BY <1>9 DEF StrangerInv
  <2> QED BY <1>1 DEF IInv, StrangerInv
<1>11. CutInv'
  <2>1. /\ \A f \in Ends : pc'[f] = "open" /\ rawSent'[Peer(f)] = 0 =>
               \A k \in DOMAIN rbuf'[f] : rbuf'[f][k].k = k
        /\ pc'["server"] = "open" => raw' = <<>>
    BY <1>1, <1>3, PeerFacts DEF IInv, CutInv
  <2>2. CASE Stranger'
    BY <2>1, <2>2 DEF CutInv
  <2>3. CASE ~Stranger' /\ Stranger
    <3>1. e = "client" /\ pc'["client"] = "closed" /\ rawSent["client"] = 0
      <4>1. rawSent["client"] \in 0 .. MaxRaw /\ MaxRaw \in Nat
        BY BoundFacts, PeerFacts DEF IInv, TypeOK
      <4> QED BY <1>1, <1>2, <2>3, <4>1, PeerFacts DEF Stranger
    <3>2. raw = <<>> /\ rbuf["server"] = <<>> /\ wire["client"] = <<>>
      BY <2>3, <3>1, NothingSent
    <3>3. DOMAIN <<>> = {}
      OBVIOUS
    <3> QED BY <1>1, <2>1, <3>1, <3>2, <3>3 DEF CutInv
  <2>4. CASE ~Stranger
    <3>1. ~initRead["server"] => \A k \in DOMAIN raw : raw[k].k = k
      BY <2>4 DEF IInv, CutInv
    <3>2. ASSUME pc'["server"] = "raw"
          PROVE  /\ pc'["client"] = "closed" /\ wire["client"] = <<>>
                 /\ ~initRead["server"] =>
                       \A k \in DOMAIN rbuf["server"] : rbuf["server"][k].k = Len(raw) + k
      <4>1. CASE pc["server"] = "raw"
        <5>1. pc["client"] = "closed" /\ wire["client"] = <<>>
              /\ (~initRead["server"] =>
                     \A k \in DOMAIN rbuf["server"] : rbuf["server"][k].k = Len(raw) + k)
          BY <2>4, <4>1 DEF IInv, CutInv
        <5> QED BY <1>2, <5>1, PeerFacts
      <4>2. CASE pc["server"] # "raw"
        <5>1. /\ e = "server" /\ pc["server"] = "open" /\ wire["client"] = <<>>
              /\ pc["client"] = "closed"
          BY <1>2, <3>2, <4>2, PeerFacts
        <5>2. rawSent["client"] = 0
          BY <2>4, <5>1, OpenPeer, PeerFacts
        <5>3. raw = <<>> /\ \A k \in DOMAIN rbuf["server"] : rbuf["server"][k].k = k
          BY <5>1, <5>2, PeerFacts DEF IInv, CutInv
        <5>4. Len(raw) = 0
          BY <5>3
        <5>5. \A k \in DOMAIN rbuf["server"] : k \in Nat
          <6> DEFINE x == rbuf["server"]
          <6>1. x \in Seq(AnyUnit)
            BY PeerFacts DEF IInv, Shape
          <6> HIDE DEF x
          <6>2. DOMAIN x = 1 .. Len(x)
            BY <6>1
          <6>3. \A k \in DOMAIN x : k \in Nat
            BY <6>2
          <6> QED BY <6>3 DEF x
        <5>6. \A k \in DOMAIN rbuf["server"] : rbuf["server"][k].k = Len(raw) + k
          BY <5>3, <5>4, <5>5
        <5> QED BY <1>2, <5>1, <5>6, PeerFacts
      <4> QED BY <4>1, <4>2
    <3> QED BY <1>1, <2>1, <3>1, <3>2 DEF CutInv
  <2> QED BY <2>2, <2>3, <2>4
<1>12. FlowInv'
  <2> SUFFICES ASSUME NEW f \in Ends PROVE FlowOf(f)'
    BY DEF FlowInv
  <2>1. FlowOf(f) /\ Peer(f) \in Ends
    BY PeerFacts DEF IInv, FlowInv
  <2> QED BY <1>1, <1>3, <2>1, FlowSame
<1> QED BY <1>4, <1>5, <1>6, <1>7, <1>8, <1>10, <1>11, <1>12 DEF IInv

LEMMA ReadEofKeeps == ASSUME IInv, NEW e \in Ends, ReadEof(e) PROVE IInv'
<1>1. /\ pc \in [Ends -> {"open", "stranger", "raw", "closed"}]
      /\ fin \in [Ends -> BOOLEAN] /\ padded \in BOOLEAN
  BY DEF IInv, Shape, TypeOK, ConnTypeOK
<1>2. wire[Peer(e)] = <<>> /\ pc[Peer(e)] = "closed" /\ pc[e] = "open"
  BY PeerFacts DEF ReadEof, AtEof, IInv, RoleInv
<1>3. /\ UNCHANGED <<padded, wire, wbuf, counter, coder, ivKey, initRead, wIndex, rIndex>>
      /\ UNCHANGED <<rbuf, decbuf, sent, got, rawSent, raw>>
  BY DEF ReadEof, connVars, CloseConn, coderVars, bufVars, userVars
<1>4. CASE e = "server" /\ pc' = [pc EXCEPT ![e] = "raw"] /\ UNCHANGED fin
  <2>1. pc'[e] = "raw" /\ pc' = [pc EXCEPT ![e] = pc'[e]]
    BY <1>1, <1>4
  <2>2. Leaves(e)
    BY <1>1, <1>2, <1>3, <1>4, <2>1, PeerFacts DEF Leaves
  <2> QED BY <2>2, LeavesKeeps
<1>5. CASE pc' = [pc EXCEPT ![e] = "closed"] /\ fin' = [fin EXCEPT ![e] = @ \/ ~padded]
  <2>1. pc'[e] = "closed" /\ pc' = [pc EXCEPT ![e] = pc'[e]]
    BY <1>1, <1>5
  <2>2. fin' \in [Ends -> BOOLEAN] /\ \A f \in Ends : f # e => fin'[f] = fin[f]
    BY <1>1, <1>5
  <2>3. Leaves(e)
    BY <1>3, <2>1, <2>2 DEF Leaves
  <2> QED BY <2>3, LeavesKeeps
<1> QED BY <1>4, <1>5 DEF ReadEof, connVars, CloseConn

LEMMA CloseKeeps == ASSUME IInv, NEW e \in Ends, Close(e) PROVE IInv'
<1>1. /\ pc \in [Ends -> {"open", "stranger", "raw", "closed"}]
      /\ fin \in [Ends -> BOOLEAN] /\ padded \in BOOLEAN
  BY DEF IInv, Shape, TypeOK, ConnTypeOK
<1>2. /\ UNCHANGED <<padded, wire, wbuf, counter, coder, ivKey, initRead, wIndex, rIndex>>
      /\ UNCHANGED <<rbuf, decbuf, sent, got, rawSent, raw>>
      /\ pc' = [pc EXCEPT ![e] = "closed"]
  BY DEF Close, CloseConn, coderVars, bufVars, userVars
<1>3. fin' = [fin EXCEPT ![e] = TRUE] \/ fin' = [fin EXCEPT ![e] = @ \/ ~padded]
  BY DEF Close, CloseConn
<1>4. fin' \in [Ends -> BOOLEAN] /\ \A f \in Ends : f # e => fin'[f] = fin[f]
  BY <1>1, <1>3
<1>5. pc'[e] = "closed" /\ pc' = [pc EXCEPT ![e] = pc'[e]]
  BY <1>1, <1>2
<1>6. Leaves(e)
  BY <1>2, <1>4, <1>5 DEF Leaves
<1> QED BY <1>6, LeavesKeeps

LEMMA FinalizeKeeps == ASSUME IInv, NEW e \in Ends, Finalize(e) PROVE IInv'
<1>1. /\ pc \in [Ends -> {"open", "stranger", "raw", "closed"}] /\ fin \in [Ends -> BOOLEAN]
  BY DEF IInv, Shape, TypeOK, ConnTypeOK
<1>2. /\ UNCHANGED <<padded, wire, wbuf, counter, coder, ivKey, initRead, wIndex, rIndex>>
      /\ UNCHANGED <<rbuf, decbuf, sent, got, rawSent, raw>>
      /\ pc[e] = "closed" /\ pc' = pc /\ fin' = [fin EXCEPT ![e] = TRUE]
  BY DEF Finalize, coderVars, bufVars, userVars
<1>3. fin' \in [Ends -> BOOLEAN] /\ \A f \in Ends : f # e => fin'[f] = fin[f]
  BY <1>1, <1>2
<1>4. pc'[e] = "closed" /\ pc' = [pc EXCEPT ![e] = pc'[e]]
  BY <1>1, <1>2
<1>5. Leaves(e)
  BY <1>2, <1>3, <1>4 DEF Leaves
<1> QED BY <1>5, LeavesKeeps

(* A Read of k bytes of the connection                                     *)
LEMMA GetKeeps ==
    ASSUME IInv, NEW e \in Ends, NEW k \in 1 .. Len(wire[Peer(e)]), Get(e, k)
    PROVE  /\ wire' \in [Ends -> Seq(AnyUnit)] /\ counter' \in [Ends -> Nat]
           /\ wire'[e] = wire[e] /\ counter'[Peer(e)] = counter[Peer(e)]
           /\ wire'[Peer(e)] = SubSeq(wire[Peer(e)], k + 1, Len(wire[Peer(e)]))
           /\ counter'[e] = counter[e] - Skipped(e, k) /\ UNCHANGED <<padded, wbuf>>
           /\ Skipped(e, k) \in 0 .. k /\ Skipped(e, k) <= counter[e]
           /\ k \in Nat /\ counter[e] \in Nat /\ Len(wire[Peer(e)]) \in Nat
           /\ \A f \in Ends : counter'[f] \in 0 .. PadLen[Peer(f)]
           /\ \A f \in Ends : pc[f] = "open" =>
                  IF wbuf[f] > 0 THEN wire'[f] = <<>> /\ counter'[Peer(f)] = wbuf[f]
                  ELSE counter'[Peer(f)] <= Len(wire'[f])
<1> DEFINE W == wire[Peer(e)]
           sk == Skipped(e, k)
           rest == SubSeq(W, k + 1, Len(W))
<1>1. /\ wire \in [Ends -> Seq(AnyUnit)] /\ counter \in [Ends -> Nat] /\ W \in Seq(AnyUnit)
      /\ counter[e] \in Nat /\ Peer(e) \in Ends /\ Peer(e) # e
  BY PeerFacts DEF IInv, Shape
<1>2. Len(W) \in Nat /\ k \in Nat /\ k <= Len(W)
  <2>1. Len(W) \in Nat
    <3> HIDE DEF W
    <3> QED BY <1>1
  <2> QED BY <2>1
<1>3. sk \in 0 .. k /\ sk <= counter[e] /\ sk \in Nat /\ counter[e] - sk \in Nat
      /\ (counter[e] - sk > 0 => sk = k)
  BY <1>1, <1>2 DEF Skipped
<1>4. /\ wire' = [wire EXCEPT ![Peer(e)] = rest]
      /\ counter' = [counter EXCEPT ![e] = @ - sk] /\ UNCHANGED <<padded, wbuf>>
  BY DEF Get
<1>5. rest \in Seq(AnyUnit) /\ Len(rest) = Len(W) - k
  <2>1. Len(W) \in 0 .. Len(W) /\ k \in Nat
    BY <1>2
  <2> HIDE DEF W
  <2>2. rest \in Seq(AnyUnit) /\ Len(rest) = IF k <= Len(W) THEN Len(W) - k ELSE 0
    BY <1>1, <2>1, SubSeqShape
  <2> HIDE DEF rest
  <2> QED BY <1>2, <2>2
<1> HIDE DEF rest, W, sk
<1>6. /\ wire' \in [Ends -> Seq(AnyUnit)] /\ counter' \in [Ends -> Nat]
      /\ wire'[Peer(e)] = rest /\ wire'[e] = wire[e]
      /\ counter'[e] = counter[e] - sk /\ counter'[Peer(e)] = counter[Peer(e)]
  BY <1>1, <1>3, <1>4, <1>5
<1>7. \A f \in Ends : counter'[f] \in 0 .. PadLen[Peer(f)]
  <2> SUFFICES ASSUME NEW f \in Ends PROVE counter'[f] \in 0 .. PadLen[Peer(f)]
    OBVIOUS
  <2>1. counter[f] \in 0 .. PadLen[Peer(f)] /\ PadLen[Peer(f)] \in Nat
    BY BoundFacts, PeerFacts DEF IInv, TypeOK, ConnTypeOK
  <2>2. f = e \/ f = Peer(e)
    BY PeerFacts
  <2> QED BY <1>1, <1>3, <1>6, <2>1, <2>2, SMTT(30)
<1>8. ASSUME NEW f \in Ends, pc[f] = "open"
      PROVE  IF wbuf[f] > 0 THEN wire'[f] = <<>> /\ counter'[Peer(f)] = wbuf[f]
             ELSE counter'[Peer(f)] <= Len(wire'[f])
  <2>1. IF wbuf[f] > 0 THEN wire[f] = <<>> /\ counter[Peer(f)] = wbuf[f]
        ELSE counter[Peer(f)] <= Len(wire[f])
    BY <1>8 DEF IInv, PadInv
  <2>2. CASE f = e
    BY <1>6, <2>1, <2>2
  <2>3. CASE f = Peer(e)
    <3>1. Peer(f) = e /\ wire[f] = W
      BY <2>3, PeerFacts DEF W
    <3>2. W # <<>>
      <4>1. Len(W) # 0
        BY <1>2 DEF W
      <4> QED BY <1>1, <4>1, SeqEmpty
    <3>3. ~(wbuf[f] > 0) /\ counter[e] <= Len(W)
      BY <2>1, <3>1, <3>2
    <3>4. counter[e] - sk <= Len(W) - k
      BY <1>1, <1>2, <1>3, <3>3 DEF Skipped, sk
    <3> QED BY <1>5, <1>6, <2>3, <3>1, <3>3, <3>4
  <2> QED BY <2>2, <2>3, PeerFacts
<1> QED BY <1>1, <1>2, <1>3, <1>4, <1>6, <1>7, <1>8 DEF rest, W, sk

LEMMA FilteredShape ==
    ASSUME IInv, NEW e \in Ends, NEW k \in 1 .. Len(wire[Peer(e)])
    PROVE  /\ Filtered(e, k) \in Seq(AnyUnit) /\ Len(Filtered(e, k)) = k - Skipped(e, k)
           /\ \A j \in 1 .. k - Skipped(e, k) :
                 Filtered(e, k)[j] = wire[Peer(e)][j + Skipped(e, k)]
<1> DEFINE W == wire[Peer(e)]
           sk == Skipped(e, k)
           u == SubSeq(W, sk + 1, k)
<1>1. W \in Seq(AnyUnit) /\ counter[e] \in Nat
  BY PeerFacts DEF IInv, Shape
<1>2. Len(W) \in Nat /\ k \in Nat /\ k <= Len(W)
  <2>1. Len(W) \in Nat
    <3> HIDE DEF W
    <3> QED BY <1>1
  <2> QED BY <2>1
<1>3. sk \in 0 .. k /\ sk \in Nat /\ 1 + sk = sk + 1
  BY <1>1, <1>2 DEF Skipped
<1>4. Filtered(e, k) = u
  BY <1>3 DEF Filtered
<1> HIDE DEF W, sk
<1>5. k \in 0 .. Len(W)
  BY <1>2
<1>6. /\ u \in Seq(AnyUnit) /\ Len(u) = IF sk <= k THEN k - sk ELSE 0
      /\ \A j \in 1 .. k - sk : u[j] = W[j + sk]
  BY <1>1, <1>3, <1>5, SubSeqShape
<1> HIDE DEF u
<1>7. Len(u) = k - sk
  BY <1>2, <1>3, <1>6
<1> QED BY <1>4, <1>6, <1>7 DEF W, sk

(* What a stranger sent and what was taken of it for padding               *)
Gone == (IF padded THEN PadLen["client"] ELSE 0) - counter["server"]

LEMMA StrangerFacts ==
    ASSUME IInv, Stranger
    PROVE  /\ ~initRead["server"] /\ decbuf["server"] = <<>>
           /\ Gone >= 0 /\ Gone \in Nat
           /\ Len(raw) + Len(rbuf["server"]) + Len(wire["client"]) + Gone = rawSent["client"]
           /\ rawSent["client"] \in Nat
           /\ counter["server"] > 0 => raw = <<>> /\ rbuf["server"] = <<>>
           /\ \A k \in 1 .. Len(raw) : raw[k].k = Gone + k
           /\ \A k \in 1 .. Len(rbuf["server"]) : rbuf["server"][k] = RawUnit(Gone + Len(raw) + k)
           /\ \A k \in 1 .. Len(wire["client"]) :
                  wire["client"][k] = RawUnit(rawSent["client"] - Len(wire["client"]) + k)
           /\ raw \in Seq(AnyUnit) /\ rbuf["server"] \in Seq(AnyUnit) /\ wire["client"] \in Seq(AnyUnit)
           /\ Len(raw) \in Nat /\ Len(rbuf["server"]) \in Nat /\ Len(wire["client"]) \in Nat
<1> DEFINE x == rbuf["server"]
           y == wire["client"]
<1>1. PadLen["client"] \in Nat /\ counter["server"] \in Nat
  BY BoundFacts, PeerFacts DEF IInv, Shape
<1>2. Gone \in Int
  BY <1>1 DEF Gone
<1>3. rawSent["client"] \in Nat
  <2>1. rawSent["client"] \in 0 .. MaxRaw
    BY PeerFacts DEF IInv, TypeOK
  <2> QED BY <2>1
<1>4. raw \in Seq(AnyUnit) /\ x \in Seq(AnyUnit) /\ y \in Seq(AnyUnit)
  BY PeerFacts DEF IInv, Shape
<1>5. /\ ~initRead["server"] /\ decbuf["server"] = <<>> /\ Gone >= 0
      /\ Len(raw) + Len(x) + Len(y) + Gone = rawSent["client"]
      /\ counter["server"] > 0 => raw = <<>> /\ x = <<>>
      /\ \A k \in DOMAIN raw : raw[k].k = Gone + k
      /\ \A k \in DOMAIN x : x[k] = RawUnit(Gone + Len(raw) + k)
      /\ \A k \in DOMAIN y : y[k] = RawUnit(rawSent["client"] - Len(y) + k)
  BY DEF IInv, StrangerInv, Gone
<1> SUFFICES /\ \A k \in 1 .. Len(raw) : raw[k].k = Gone + k
             /\ \A k \in 1 .. Len(x) : x[k] = RawUnit(Gone + Len(raw) + k)
             /\ \A k \in 1 .. Len(y) : y[k] = RawUnit(rawSent["client"] - Len(y) + k)
             /\ Len(raw) \in Nat /\ Len(x) \in Nat /\ Len(y) \in Nat /\ Gone \in Nat
  BY <1>3, <1>4, <1>5
<1> HIDE DEF x, y
<1>6. /\ DOMAIN raw = 1 .. Len(raw) /\ DOMAIN x = 1 .. Len(x) /\ DOMAIN y = 1 .. Len(y)
      /\ Len(raw) \in Nat /\ Len(x) \in Nat /\ Len(y) \in Nat
  BY <1>4
<1>7. Gone \in Nat
  BY <1>2, <1>5
<1> QED BY <1>5, <1>6, <1>7

(* A Read from a stranger                                                  *)
LEMMA StrangerGet ==
    ASSUME IInv, Stranger, NEW k \in 1 .. Len(wire["client"]), Get("server", k)
    PROVE  LET u == Filtered("server", k)
               sk == Skipped("server", k)
               held == Len(raw) + Len(rbuf["server"])
               y == wire'["client"]
           IN  /\ u \in Seq(AnyUnit) /\ Len(u) = k - sk /\ Len(u) \in Nat /\ sk \in Nat
               /\ Gone' = Gone + sk
               /\ \A j \in 1 .. Len(u) : u[j] = RawUnit(Gone' + held + j)
               /\ y \in Seq(AnyUnit) /\ Len(y) \in Nat
               /\ \A j \in 1 .. Len(y) : y[j] = RawUnit(rawSent["client"] - Len(y) + j)
               /\ held + Len(u) + Len(y) + Gone' = rawSent["client"]
               /\ counter'["server"] > 0 => u = <<>>
               /\ counter'["server"] > 0 \/ sk > 0 => raw = <<>> /\ rbuf["server"] = <<>>
<1> DEFINE u == Filtered("server", k)
           sk == Skipped("server", k)
           held == Len(raw) + Len(rbuf["server"])
           W == wire["client"]
           y == wire'["client"]
           n == rawSent["client"]
           c == counter["server"]
<1>1. /\ Peer("server") = "client" /\ "server" \in Ends /\ k \in 1 .. Len(wire[Peer("server")])
  BY PeerFacts
<1>2. /\ y = SubSeq(W, k + 1, Len(W)) /\ y \in Seq(AnyUnit)
      /\ counter'["server"] = c - sk /\ sk \in 0 .. k /\ sk <= c /\ c \in Nat /\ k \in Nat
      /\ UNCHANGED padded /\ Len(W) \in Nat
  <2>1. /\ wire' \in [Ends -> Seq(AnyUnit)]
        /\ wire'[Peer("server")] = SubSeq(wire[Peer("server")], k + 1, Len(wire[Peer("server")]))
        /\ counter'["server"] = counter["server"] - Skipped("server", k) /\ UNCHANGED padded
        /\ Skipped("server", k) \in 0 .. k /\ Skipped("server", k) <= counter["server"]
        /\ k \in Nat /\ counter["server"] \in Nat /\ Len(wire[Peer("server")]) \in Nat
    BY <1>1, GetKeeps
  <2> QED BY <1>1, <2>1, PeerFacts
<1>3. /\ u \in Seq(AnyUnit) /\ Len(u) = k - sk
      /\ \A j \in 1 .. k - sk : u[j] = W[j + sk]
  BY <1>1, FilteredShape
<1>4. sk \in Nat /\ k - sk \in Nat /\ k <= Len(W)
  BY <1>2
<1>5. Gone' = Gone + sk
  <2>1. PadLen["client"] \in Nat
    BY BoundFacts, PeerFacts
  <2> QED BY <1>2, <1>4, <2>1 DEF Gone
<1>6. /\ W \in Seq(AnyUnit) /\ n \in Nat /\ Gone \in Nat /\ held \in Nat
      /\ held + Len(W) + Gone = n
      /\ \A j \in 1 .. Len(W) : W[j] = RawUnit(n - Len(W) + j)
      /\ c > 0 => raw = <<>> /\ rbuf["server"] = <<>>
  <2> DEFINE a == Len(raw)
             b == Len(rbuf["server"])
  <2>1. /\ W \in Seq(AnyUnit) /\ n \in Nat /\ Gone \in Nat /\ a \in Nat /\ b \in Nat
        /\ a + b + Len(W) + Gone = n
        /\ \A j \in 1 .. Len(W) : W[j] = RawUnit(n - Len(W) + j)
        /\ c > 0 => raw = <<>> /\ rbuf["server"] = <<>>
    BY StrangerFacts
  <2>2. held = a + b
    OBVIOUS
  <2> HIDE DEF a, b, held, W, n, c
  <2>3. held \in Nat
    BY <2>1, <2>2
  <2> QED BY <2>1, <2>2, <2>3
<1>7. Len(y) = Len(W) - k /\ \A j \in 1 .. Len(W) - k : y[j] = W[j + k]
  <2>1. Len(W) \in 0 .. Len(W)
    BY <1>2
  <2> HIDE DEF W, y, u, sk, held, n, c
  <2>2. /\ Len(SubSeq(W, k + 1, Len(W))) = IF k <= Len(W) THEN Len(W) - k ELSE 0
        /\ \A j \in 1 .. Len(W) - k : SubSeq(W, k + 1, Len(W))[j] = W[j + k]
    BY <1>2, <1>6, <2>1, SubSeqShape
  <2> QED BY <1>2, <1>4, <2>2
<1> DEFINE lw == Len(W)
           lu == Len(u)
           ly == Len(y)
           g == Gone
           g2 == Gone'
<1> HIDE DEF u, sk, held, W, y, n, c, lw, lu, ly, g, g2
<1>8. /\ lw \in Nat /\ n \in Nat /\ held \in Nat /\ g \in Nat /\ held + lw + g = n
      /\ sk \in Nat /\ k \in Nat /\ sk <= k /\ k <= lw
      /\ lu = k - sk /\ ly = lw - k /\ g2 = g + sk
  <2>1. lw \in Nat /\ k \in Nat /\ sk \in 0 .. k
    BY <1>2 DEF lw
  <2>2. n \in Nat /\ held \in Nat /\ g \in Nat /\ held + lw + g = n
    BY <1>6 DEF lw, g
  <2>3. lu = k - sk /\ ly = lw - k
    BY <1>3, <1>7 DEF lw, lu, ly
  <2>4. k <= lw /\ sk \in Nat /\ sk <= k
    BY <1>2, <1>4 DEF lw
  <2>5. g2 = g + sk
    BY <1>5 DEF g, g2
  <2> QED BY <2>1, <2>2, <2>3, <2>4, <2>5
<1>9. \A j \in 1 .. lu : u[j] = RawUnit(g2 + held + j)
  <2> TAKE j \in 1 .. lu
  <2>1. /\ j \in 1 .. k - sk /\ j + sk \in 1 .. lw
        /\ n - lw + (j + sk) = g2 + held + j
    BY <1>8
  <2>2. W[j + sk] = RawUnit(n - lw + (j + sk))
    BY <1>6, <2>1 DEF lw
  <2> QED BY <1>3, <2>1, <2>2
<1>10. \A j \in 1 .. ly : y[j] = RawUnit(n - ly + j)
  <2> TAKE j \in 1 .. ly
  <2>1. /\ j \in 1 .. lw - k /\ j + k \in 1 .. lw /\ n - lw + (j + k) = n - ly + j
    BY <1>8
  <2>2. W[j + k] = RawUnit(n - lw + (j + k))
    BY <1>6, <2>1 DEF lw
  <2> QED BY <1>7, <2>1, <2>2 DEF lw
<1>11. held + lu + ly + g2 = n /\ lu \in Nat /\ ly \in Nat
  BY <1>8
<1>12. c - sk > 0 => lu = 0 /\ c > 0
  <2>1. c - sk > 0 => sk = k
    BY <1>1, <1>2 DEF sk, Skipped, c
  <2> QED BY <1>2, <1>8, <2>1
<1>13. lu = 0 => u = <<>>
  BY <1>3, SeqEmpty DEF lu
<1>14. sk > 0 => c > 0
  BY <1>2, <1>8
<1> QED BY <1>2, <1>3, <1>4, <1>5, <1>6, <1>9, <1>10, <1>11, <1>12, <1>13, <1>14
        DEF u, sk, held, W, y, n, c, lu, ly, g2

LEMMA StrangerNext ==
    ASSUME NEW r \in Seq(AnyUnit), r = raw', NEW x \in Seq(AnyUnit), x = rbuf'["server"],
           NEW y \in Seq(AnyUnit), y = wire'["client"],
           ~initRead'["server"], decbuf'["server"] = <<>>, Gone' >= 0,
           Len(r) + Len(x) + Len(y) + Gone' = rawSent'["client"],
           counter'["server"] > 0 => r = <<>> /\ x = <<>>,
           \A k \in 1 .. Len(r) : r[k].k = Gone' + k,
           \A k \in 1 .. Len(x) : x[k] = RawUnit(Gone' + Len(r) + k),
           \A k \in 1 .. Len(y) : y[k] = RawUnit(rawSent'["client"] - Len(y) + k)
    PROVE  StrangerInv'
<1>1. DOMAIN r = 1 .. Len(r) /\ DOMAIN x = 1 .. Len(x) /\ DOMAIN y = 1 .. Len(y)
  OBVIOUS
<1>2. /\ \A k \in DOMAIN r : r[k].k = Gone' + k
      /\ \A k \in DOMAIN x : x[k] = RawUnit(Gone' + Len(r) + k)
      /\ \A k \in DOMAIN y : y[k] = RawUnit(rawSent'["client"] - Len(y) + k)
  BY <1>1
<1> QED BY <1>2 DEF StrangerInv, Gone

(* n elements go from the beginning of x to the end of r.                  *)
LEMMA Moved ==
    ASSUME NEW S, NEW r \in Seq(S), NEW x \in Seq(S), NEW n \in 0 .. Len(x)
    PROVE  LET z == r \o SubSeq(x, 1, n)
               y == SubSeq(x, n + 1, Len(x))
           IN  /\ z \in Seq(S) /\ Len(z) = Len(r) + n /\ y \in Seq(S) /\ Len(y) = Len(x) - n
               /\ \A k \in 1 .. Len(r) : z[k] = r[k]
               /\ \A k \in Len(r) + 1 .. Len(r) + n : z[k] = x[k - Len(r)]
               /\ \A k \in 1 .. Len(x) - n : y[k] = x[k + n]
<1> DEFINE f == SubSeq(x, 0 + 1, n)
           y == SubSeq(x, n + 1, Len(x))
           z == r \o f
<1>1. Len(x) \in Nat /\ Len(r) \in Nat /\ n \in Nat /\ n <= Len(x) /\ Len(x) \in 0 .. Len(x)
  OBVIOUS
<1>2. /\ f \in Seq(S) /\ Len(f) = IF 0 <= n THEN n - 0 ELSE 0
      /\ \A k \in 1 .. n - 0 : f[k] = x[k + 0]
  BY <1>1, SubSeqShape
<1>3. /\ y \in Seq(S) /\ Len(y) = IF n <= Len(x) THEN Len(x) - n ELSE 0
      /\ \A k \in 1 .. Len(x) - n : y[k] = x[k + n]
  BY <1>1, SubSeqShape
<1> HIDE DEF f, y
<1>4. Len(f) = n /\ \A k \in 1 .. n : f[k] = x[k]
  BY <1>1, <1>2
<1>5. /\ z \in Seq(S) /\ Len(z) = Len(r) + Len(f)
      /\ \A k \in 1 .. Len(r) : z[k] = r[k]
      /\ \A k \in Len(r) + 1 .. Len(r) + Len(f) : z[k] = f[k - Len(r)]
  BY <1>2, SeqJoin
<1> HIDE DEF z
<1>6. \A k \in Len(r) + 1 .. Len(r) + n : z[k] = x[k - Len(r)]
  <2> TAKE k \in Len(r) + 1 .. Len(r) + n
  <2>1. k - Len(r) \in 1 .. n
    BY <1>1
  <2> QED BY <1>4, <1>5, <2>1
<1>7. Len(y) = Len(x) - n
  BY <1>1, <1>3
<1>8. z = r \o SubSeq(x, 1, n)
  BY DEF z, f
<1> QED BY <1>3, <1>4, <1>5, <1>6, <1>7, <1>8 DEF y

(* What is numbered on from g in r, and then in x, still is.               *)
LEMMA MovedCounts ==
    ASSUME NEW r \in Seq(AnyUnit), NEW x \in Seq(AnyUnit), NEW n \in 0 .. Len(x), NEW g \in Nat,
           \A k \in 1 .. Len(r) : r[k].k = g + k,
           \A k \in 1 .. Len(x) : x[k].k = g + Len(r) + k
    PROVE  LET z == r \o SubSeq(x, 1, n)
               y == SubSeq(x, n + 1, Len(x))
           IN  /\ \A k \in 1 .. Len(z) : z[k].k = g + k
               /\ \A k \in 1 .. Len(y) : y[k].k = g + Len(z) + k
<1> DEFINE y == SubSeq(x, n + 1, Len(x))
           z == r \o SubSeq(x, 1, n)
           lr == Len(r)
           lx == Len(x)
<1>1. lx \in Nat /\ lr \in Nat /\ n \in Nat /\ n <= lx
  OBVIOUS
<1>2. /\ Len(z) = lr + n /\ Len(y) = lx - n
      /\ \A k \in 1 .. lr : z[k] = r[k]
      /\ \A k \in lr + 1 .. lr + n : z[k] = x[k - lr]
      /\ \A k \in 1 .. lx - n : y[k] = x[k + n]
  BY Moved
<1>3. /\ \A k \in 1 .. lr : r[k].k = g + k
      /\ \A k \in 1 .. lx : x[k].k = g + lr + k
  OBVIOUS
<1> HIDE DEF y, z, lr, lx
<1>4. \A k \in 1 .. lr + n : z[k].k = g + k
  <2> TAKE k \in 1 .. lr + n
  <2>1. CASE k \in 1 .. lr
    BY <1>2, <1>3, <2>1
  <2>2. CASE k \in lr + 1 .. lr + n
    <3>1. k - lr \in 1 .. lx /\ g + lr + (k - lr) = g + k
      BY <1>1, <2>2
    <3>2. x[k - lr].k = g + lr + (k - lr)
      BY <1>3, <3>1
    <3> QED BY <1>2, <2>2, <3>1, <3>2
  <2> QED BY <1>1, <2>1, <2>2
<1>5. \A k \in 1 .. lx - n : y[k].k = g + (lr + n) + k
  <2> TAKE k \in 1 .. lx - n
  <2>1. k + n \in 1 .. lx /\ g + lr + (k + n) = g + (lr + n) + k
    BY <1>1
  <2>2. x[k + n].k = g + lr + (k + n)
    BY <1>3, <2>1
  <2> QED BY <1>2, <2>1, <2>2
<1> QED BY <1>2, <1>4, <1>5 DEF y, z

LEMMA RawUnitShape == \A k : RawUnit(k).k = k /\ RawUnit(k).kind = "raw"
BY DEF RawUnit, Unit

(* What a stranger's bytes say of what the redirector read and has to read *)
LEMMA RawFrame ==
    ASSUME IInv, pc["server"] = "raw", UNCHANGED <<padded, fin, wbuf, pc, coderVars>>,
           UNCHANGED <<decbuf, sent, got, rawSent>>,
           wire' \in [Ends -> Seq(AnyUnit)], rbuf' \in [Ends -> Seq(AnyUnit)], raw' \in Seq(AnyUnit),
           counter' \in [Ends -> Nat], \A f \in Ends : counter'[f] \in 0 .. PadLen[Peer(f)],
           StrangerInv', CutInv'
    PROVE  IInv'
<1>1. /\ UNCHANGED <<padded, fin, wbuf, pc, coder, ivKey, initRead, wIndex, rIndex>>
      /\ UNCHANGED <<decbuf, sent, got, rawSent>>
  BY DEF coderVars
<1>2. pc["server"] = "raw" /\ pc["client"] # "open" /\ \A e \in Ends : pc[e] # "open"
  BY PeerFacts DEF IInv, RoleInv
<1>3. TypeOK'
  <2>1. ConnTypeOK'
    BY <1>1 DEF IInv, TypeOK, ConnTypeOK
  <2> QED BY <1>1, <2>1 DEF IInv, TypeOK
<1>4. Shape'
  BY <1>1 DEF IInv, Shape
<1>5. GotInv'
  BY <1>1 DEF IInv, GotInv
<1>6. PadInv'
  BY <1>1, <1>2 DEF PadInv
<1>7. RoleInv'
  BY <1>1 DEF IInv, RoleInv
<1>8. FlowInv'
  BY <1>1, <1>2, PeerFacts DEF FlowInv, FlowOf
<1> QED BY <1>3, <1>4, <1>5, <1>6, <1>7, <1>8 DEF IInv

LEMMA ReadRawKeeps == ASSUME IInv, ReadRaw PROVE IInv'
<1> DEFINE x == rbuf["server"]
           w == wire["client"]
<1>1. /\ pc["server"] = "raw" /\ UNCHANGED <<pc, coderVars, decbuf, sent, got, rawSent>>
      /\ UNCHANGED <<coder, ivKey, initRead, wIndex, rIndex>>
  BY DEF ReadRaw, coderVars
<1>2. /\ wire \in [Ends -> Seq(AnyUnit)] /\ rbuf \in [Ends -> Seq(AnyUnit)] /\ raw \in Seq(AnyUnit)
      /\ counter \in [Ends -> Nat] /\ \A f \in Ends : counter[f] \in 0 .. PadLen[Peer(f)]
      /\ x \in Seq(AnyUnit) /\ w \in Seq(AnyUnit)
  BY PeerFacts DEF IInv, Shape, TypeOK, ConnTypeOK
<1>3. \A e \in Ends : pc[e] # "open"
  BY <1>1, PeerFacts DEF IInv, RoleInv
<1>4. Stranger' <=> Stranger
  BY <1>1 DEF Stranger
<1>5. Len(x) \in Nat /\ Len(w) \in Nat /\ Len(raw) \in Nat /\ ReadMax \in Nat
  <2> HIDE DEF x, w
  <2> QED BY <1>2, BoundFacts
<1>6. CASE /\ x # <<>> /\ UNCHANGED connVars
           /\ LET n == IF Len(x) > ReadMax THEN ReadMax ELSE Len(x)
              IN  /\ raw' = raw \o SubSeq(x, 1, n)
                  /\ rbuf' = [rbuf EXCEPT !["server"] = SubSeq(x, n + 1, Len(x))]
  <2> DEFINE n == IF Len(x) > ReadMax THEN ReadMax ELSE Len(x)
             y == SubSeq(x, n + 1, Len(x))
             z == raw \o SubSeq(x, 1, n)
  <2>1. UNCHANGED <<padded, fin, wbuf, wire, counter>> /\ raw' = z
        /\ rbuf' = [rbuf EXCEPT !["server"] = y]
    BY <1>6 DEF connVars
  <2>2. n \in 0 .. Len(x)
    BY <1>5
  <2> HIDE DEF n, x
  <2>3. z \in Seq(AnyUnit) /\ Len(z) = Len(raw) + n /\ y \in Seq(AnyUnit) /\ Len(y) = Len(x) - n
        /\ \A k \in 1 .. Len(x) - n : y[k] = x[k + n]
    <3>1. raw \in Seq(AnyUnit) /\ x \in Seq(AnyUnit)
      BY <1>2
    <3> QED BY <2>2, <3>1, Moved
  <2> HIDE DEF y, z
  <2>4. rbuf' \in [Ends -> Seq(AnyUnit)] /\ rbuf'["server"] = y
    BY <1>2, <2>1, <2>3, PeerFacts
  <2>5. StrangerInv'
    <3>1. CASE ~Stranger
      BY <1>4, <3>1 DEF StrangerInv
    <3>2. CASE Stranger
      <4> DEFINE lr == Len(raw)
                 lx == Len(x)
                 lz == Len(z)
                 ly == Len(y)
                 lw == Len(w)
                 g == Gone
                 r0 == rawSent["client"]
      <4>1. /\ ~initRead["server"] /\ decbuf["server"] = <<>>
            /\ Gone >= 0 /\ Gone \in Nat
            /\ Len(raw) + Len(x) + Len(w) + Gone = rawSent["client"]
            /\ rawSent["client"] \in Nat
            /\ counter["server"] > 0 => raw = <<>> /\ x = <<>>
            /\ \A k \in 1 .. Len(raw) : raw[k].k = Gone + k
            /\ \A k \in 1 .. Len(x) : x[k] = RawUnit(Gone + Len(raw) + k)
            /\ \A k \in 1 .. Len(w) : w[k] = RawUnit(rawSent["client"] - Len(w) + k)
        BY <3>2, StrangerFacts DEF x
      <4>2. Gone' = Gone
        BY <2>1 DEF Gone
      <4>3. ~(counter["server"] > 0)
        BY <1>6, <4>1 DEF x
      <4>4. \A k \in 1 .. Len(x) : x[k].k = Gone + Len(raw) + k
        <5>1. \A k \in 1 .. Len(x) : x[k] = RawUnit(Gone + Len(raw) + k)
          BY <4>1
        <5> QED BY <5>1, RawUnitShape
      <4>5. \A k \in 1 .. Len(z) : z[k].k = Gone + k
        <5>1. raw \in Seq(AnyUnit) /\ x \in Seq(AnyUnit) /\ Gone \in Nat
          BY <1>2, <4>1
        <5>2. \A k \in 1 .. Len(raw) : raw[k].k = Gone + k
          BY <4>1
        <5> HIDE DEF w
        <5> QED BY <2>2, <4>4, <5>1, <5>2, MovedCounts DEF z
      <4>6. /\ lr \in Nat /\ lx \in Nat /\ lw \in Nat /\ n \in Nat /\ n <= lx /\ g \in Nat
            /\ lz = lr + n /\ ly = lx - n /\ lr + lx + lw + g = r0
        <5>1. n \in Nat /\ n <= Len(x)
          BY <1>5, <2>2
        <5> HIDE DEF w
        <5>2. Len(raw) + Len(x) + Len(w) + Gone = rawSent["client"] /\ Gone \in Nat
          BY <4>1
        <5>3. Len(raw) \in Nat /\ Len(x) \in Nat /\ Len(w) \in Nat
          BY <1>5
        <5>4. Len(z) = Len(raw) + n /\ Len(y) = Len(x) - n
          BY <2>3
        <5> QED BY <5>1, <5>2, <5>3, <5>4
      <4> HIDE DEF lr, lx, lz, ly, lw, g, r0, w
      <4>7. lz + ly + lw + g = r0 /\ g >= 0
        BY <4>6
      <4>8. \A k \in 1 .. ly : y[k] = RawUnit(g + lz + k)
        <5> TAKE k \in 1 .. ly
        <5>1. k \in 1 .. lx - n /\ k + n \in 1 .. lx /\ g + lr + (k + n) = g + lz + k
          BY <4>6
        <5>2. y[k] = x[k + n]
          BY <2>3, <5>1 DEF lx
        <5>3. x[k + n] = RawUnit(g + lr + (k + n))
          BY <4>1, <5>1 DEF lx, lr, g
        <5> QED BY <5>1, <5>2, <5>3
      <4>9. /\ z = raw' /\ y = rbuf'["server"] /\ w = wire'["client"]
            /\ ~initRead'["server"] /\ decbuf'["server"] = <<>> /\ Gone' >= 0
            /\ Len(z) + Len(y) + Len(w) + Gone' = rawSent'["client"]
            /\ counter'["server"] > 0 => z = <<>> /\ y = <<>>
        BY <1>1, <2>1, <2>4, <4>1, <4>2, <4>3, <4>7 DEF lz, ly, lw, g, r0, w
      <4>10. /\ \A k \in 1 .. Len(z) : z[k].k = Gone' + k
             /\ \A k \in 1 .. Len(y) : y[k] = RawUnit(Gone' + Len(z) + k)
             /\ \A k \in 1 .. Len(w) : w[k] = RawUnit(rawSent'["client"] - Len(w) + k)
        BY <1>1, <4>1, <4>2, <4>5, <4>8 DEF lz, ly, g
      <4> QED BY <1>2, <2>3, <4>9, <4>10, StrangerNext, ZenonT(40)
    <3> QED BY <3>1, <3>2
  <2>6. CutInv'
    <3>1. CASE Stranger
      BY <1>1, <1>3, <1>4, <3>1 DEF CutInv
    <3>2. CASE ~Stranger
      <4>1. /\ pc["client"] = "closed" /\ wire["client"] = <<>>
            /\ ~initRead["server"] => \A k \in DOMAIN x : x[k].k = Len(raw) + k
            /\ ~initRead["server"] => \A k \in DOMAIN raw : raw[k].k = k
        BY <1>1, <3>2 DEF IInv, CutInv, x
      <4>2. ASSUME ~initRead["server"]
            PROVE  /\ \A k \in DOMAIN z : z[k].k = k
                   /\ \A k \in DOMAIN y : y[k].k = Len(z) + k
        <5>1. /\ DOMAIN x = 1 .. Len(x) /\ DOMAIN raw = 1 .. Len(raw)
              /\ DOMAIN z = 1 .. Len(z) /\ DOMAIN y = 1 .. Len(y)
              /\ Len(z) \in Nat
          BY <1>2, <2>3
        <5>2. /\ \A k \in 1 .. Len(raw) : raw[k].k = 0 + k
              /\ \A k \in 1 .. Len(x) : x[k].k = 0 + Len(raw) + k
          BY <1>5, <4>1, <4>2, <5>1
        <5>3. /\ \A k \in 1 .. Len(z) : z[k].k = 0 + k
              /\ \A k \in 1 .. Len(y) : y[k].k = 0 + Len(z) + k
          <6>1. raw \in Seq(AnyUnit) /\ x \in Seq(AnyUnit) /\ 0 \in Nat
            BY <1>2
          <6> QED BY <2>2, <5>2, <6>1, MovedCounts, ZenonT(40) DEF z, y
        <5> QED BY <5>1, <5>3
      <4>3. /\ z = raw' /\ y = rbuf'["server"] /\ wire'["client"] = wire["client"]
        BY <2>1, <2>4
      <4> QED BY <1>1, <1>3, <1>4, <3>2, <4>1, <4>2, <4>3 DEF CutInv
    <3> QED BY <3>1, <3>2
  <2>7. raw' \in Seq(AnyUnit)
    BY <2>1, <2>3
  <2> QED BY <1>1, <1>2, <2>1, <2>4, <2>5, <2>6, <2>7, RawFrame
<1>7. ASSUME x = <<>>, UNCHANGED <<fin, rbuf>>, NEW k \in 1 .. Len(w), Get("server", k),
             raw' = raw \o Filtered("server", k)
      PROVE  IInv'
  <2>1. Stranger
    <3>1. w # <<>>
      <4> HIDE DEF w
      <4> QED BY <1>2, <1>5, SeqEmpty
    <3> QED BY <1>1, <3>1 DEF IInv, CutInv
  <2> DEFINE u == Filtered("server", k)
             sk == Skipped("server", k)
             y == wire'["client"]
             z == raw \o u
             lr == Len(raw)
             lu == Len(u)
             ly == Len(y)
             lz == Len(z)
             g == Gone'
             held == Len(raw) + Len(rbuf["server"])
             n == rawSent["client"]
  <2>2. /\ u \in Seq(AnyUnit) /\ Len(u) \in Nat /\ Gone' = Gone + sk /\ sk \in Nat
        /\ \A j \in 1 .. Len(u) : u[j] = RawUnit(Gone' + held + j)
        /\ y \in Seq(AnyUnit) /\ Len(y) \in Nat
        /\ \A j \in 1 .. Len(y) : y[j] = RawUnit(n - Len(y) + j)
        /\ held + Len(u) + Len(y) + Gone' = n
        /\ counter'["server"] > 0 => u = <<>>
        /\ counter'["server"] > 0 \/ sk > 0 => raw = <<>>
    BY <1>7, <2>1, StrangerGet
  <2>3. /\ ~initRead["server"] /\ decbuf["server"] = <<>>
        /\ Gone \in Nat /\ \A j \in 1 .. Len(raw) : raw[j].k = Gone + j
    BY <2>1, StrangerFacts
  <2>4. held = Len(raw)
    <3>1. Len(rbuf["server"]) = 0
      BY <1>7
    <3> QED BY <1>5, <3>1
  <2> HIDE DEF u, sk, y, held, n
  <2>5. /\ z \in Seq(AnyUnit) /\ Len(z) = Len(raw) + Len(u)
        /\ \A j \in 1 .. Len(raw) : z[j] = raw[j]
        /\ \A j \in Len(raw) + 1 .. Len(raw) + Len(u) : z[j] = u[j - Len(raw)]
    BY <1>2, <2>2, SeqJoin
  <2> HIDE DEF z
  <2>6. lr \in Nat /\ lu \in Nat /\ ly \in Nat /\ g \in Nat /\ held = lr /\ lz = lr + lu
        /\ held + lu + ly + g = n
    BY <1>5, <2>2, <2>3, <2>4, <2>5
  <2>7. \A j \in 1 .. lr : raw[j].k = g + j
    <3>1. CASE sk > 0
      <4>1. raw = <<>>
        BY <2>2, <3>1
      <4>2. lr = 0
        BY <4>1
      <4> HIDE DEF lr
      <4> QED BY <4>2
    <3>2. CASE ~(sk > 0)
      <4>1. Gone' = Gone
        <5>1. Gone' = Gone + sk /\ sk \in Nat
          BY <2>2
        <5>2. Gone \in Nat
          BY <2>3
        <5> HIDE DEF g
        <5> QED BY <3>2, <5>1, <5>2
      <4> QED BY <2>3, <4>1
    <3> QED BY <3>1, <3>2
  <2>8. \A j \in 1 .. lu : u[j].k = g + lr + j
    <3>1. \A j \in 1 .. lu : u[j].k = g + held + j
      <4>1. \A j \in 1 .. lu : u[j] = RawUnit(g + held + j)
        BY <2>2
      <4> HIDE DEF lu, g
      <4> QED BY <4>1, RawUnitShape
    <3> QED BY <2>6, <3>1
  <2> HIDE DEF lr, lu, ly, lz, g
  <2>9. \A j \in 1 .. lz : z[j].k = g + j
    <3> TAKE j \in 1 .. lz
    <3>1. CASE j \in 1 .. lr
      BY <2>5, <2>7, <3>1 DEF lr
    <3>2. CASE j \in lr + 1 .. lr + lu
      <4>1. j - lr \in 1 .. lu /\ g + lr + (j - lr) = g + j
        BY <2>6, <3>2
      <4>2. z[j] = u[j - lr]
        BY <2>5, <3>2 DEF lr, lu
      <4> QED BY <2>8, <4>1, <4>2
    <3> QED BY <2>6, <3>1, <3>2
  <2>10. /\ lz + 0 + ly + g = n /\ g >= 0
    BY <2>6
  <2>11. /\ wire' \in [Ends -> Seq(AnyUnit)] /\ counter' \in [Ends -> Nat]
         /\ UNCHANGED <<padded, wbuf>>
         /\ \A f \in Ends : counter'[f] \in 0 .. PadLen[Peer(f)]
    <3>1. Peer("server") = "client" /\ "server" \in Ends
      BY PeerFacts
    <3> QED BY <1>7, <3>1, GetKeeps
  <2>12. z = raw' /\ rbuf'["server"] = <<>>
    BY <1>7 DEF z, u
  <2>13. counter'["server"] > 0 => z = <<>>
    BY <1>2, <2>2 DEF z
  <2>14. StrangerInv'
    <3>1. /\ <<>> \in Seq(AnyUnit) /\ Len(<<>>) = 0
          /\ \A j \in 1 .. Len(<<>>) : <<>>[j] = RawUnit(g + lz + j)
      OBVIOUS
    <3>2. /\ ~initRead'["server"] /\ decbuf'["server"] = <<>> /\ Gone' >= 0
          /\ Len(z) + Len(<<>>) + Len(y) + Gone' = rawSent'["client"]
          /\ counter'["server"] > 0 => z = <<>> /\ <<>> = <<>>
      BY <1>1, <2>3, <2>10, <2>13, <3>1 DEF lz, ly, g, n
    <3>3. /\ \A j \in 1 .. Len(z) : z[j].k = Gone' + j
          /\ \A j \in 1 .. Len(<<>>) : <<>>[j] = RawUnit(Gone' + Len(z) + j)
          /\ \A j \in 1 .. Len(y) : y[j] = RawUnit(rawSent'["client"] - Len(y) + j)
      BY <1>1, <2>2, <2>9, <3>1 DEF lz, g, n
    <3>4. <<>> = rbuf'["server"] /\ y = wire'["client"] /\ y \in Seq(AnyUnit)
      BY <2>2, <2>12 DEF y
    <3> DEFINE o == <<>>
    <3>5. /\ z \in Seq(AnyUnit) /\ z = raw' /\ o \in Seq(AnyUnit) /\ o = rbuf'["server"]
          /\ y \in Seq(AnyUnit) /\ y = wire'["client"]
          /\ ~initRead'["server"] /\ decbuf'["server"] = <<>> /\ Gone' >= 0
          /\ Len(z) + Len(o) + Len(y) + Gone' = rawSent'["client"]
          /\ counter'["server"] > 0 => z = <<>> /\ o = <<>>
      BY <2>5, <2>12, <3>1, <3>2, <3>4
    <3>6. /\ \A j \in 1 .. Len(z) : z[j].k = Gone' + j
          /\ \A j \in 1 .. Len(o) : o[j] = RawUnit(Gone' + Len(z) + j)
          /\ \A j \in 1 .. Len(y) : y[j] = RawUnit(rawSent'["client"] - Len(y) + j)
      BY <3>3
    <3> HIDE DEF o
    <3> QED BY <3>5, <3>6, StrangerNext
  <2>15. CutInv'
    BY <1>1, <1>3, <1>4, <2>1 DEF CutInv
  <2>16. rbuf' \in [Ends -> Seq(AnyUnit)] /\ raw' \in Seq(AnyUnit) /\ UNCHANGED fin
    BY <1>2, <1>7, <2>5, <2>12
  <2> QED BY <1>1, <2>11, <2>14, <2>15, <2>16, RawFrame
<1> QED BY <1>6, <1>7 DEF ReadRaw

(* What e has read but not decoded, and what the peer's stream still holds,*)
(* are the units that were coming to e.                                    *)
LEMMA ReadShape ==
    ASSUME IInv, NEW e \in Ends, NEW k \in 1 .. Len(wire[Peer(e)]), Get(e, k)
    PROVE  LET units == rbuf[e] \o Filtered(e, k)
               rest == Visible(Peer(e))'
           IN  /\ units \in Seq(AnyUnit) /\ rest \in Seq(AnyUnit)
               /\ Coming(Peer(e)) = units \o rest
<1> DEFINE w == wire[Peer(e)]
           c == counter[e]
           skip == Skipped(e, k)
           r == SubSeq(w, k + 1, Len(w))
           f == SubSeq(w, 1 + skip, k)
           rest == SubSeq(r, (c - skip) + 1, Len(r))
<1>1. Peer(e) \in Ends /\ Peer(Peer(e)) = e
  BY PeerFacts
<1>2. wire'[Peer(e)] = r /\ counter'[e] = c - skip /\ c \in Nat
  BY GetKeeps
<1>3. f = Filtered(e, k)
  BY DEF Filtered
<1>4. Visible(Peer(e))' = rest
  BY <1>1, <1>2 DEF Visible
<1>5. w \in Seq(AnyUnit) /\ rbuf[e] \in Seq(AnyUnit)
  BY <1>1 DEF IInv, Shape
<1>6. f \in Seq(AnyUnit)
  BY <1>3, FilteredShape
<1>7. skip = IF c < k THEN c ELSE k
  BY DEF Skipped
<1>8. SubSeq(w, c + 1, Len(w)) = f \o rest
  <2>1. k \in 1 .. Len(w)
    OBVIOUS
  <2> HIDE DEF w, c, skip
  <2> QED BY <1>2, <1>5, <1>7, <2>1, GetVisible
<1>9. rest \in Seq(AnyUnit)
  <2>1. r \in Seq(AnyUnit)
    <3>1. r = wire'[Peer(e)] /\ wire' \in [Ends -> Seq(AnyUnit)]
      BY <1>2, GetKeeps
    <3> HIDE DEF r
    <3> QED BY <1>1, <3>1
  <2>2. c - skip \in Nat
    <3>1. counter' \in [Ends -> Nat]
      BY GetKeeps
    <3>2. counter'[e] \in Nat
      BY <3>1
    <3> QED BY <1>2, <3>2
  <2> DEFINE a == c - skip
  <2> HIDE DEF r, a
  <2>3. Len(r) \in 0 .. Len(r) /\ a \in Nat
    BY <2>1, <2>2 DEF a
  <2>4. SubSeq(r, a + 1, Len(r)) \in Seq(AnyUnit)
    BY <2>1, <2>3, SubSeqShape
  <2> QED BY <2>4 DEF a
<1>10. Coming(Peer(e)) = rbuf[e] \o SubSeq(w, c + 1, Len(w))
  BY <1>1 DEF Coming, Visible
<1> HIDE DEF f, rest, w, c
<1>11. rbuf[e] \o (f \o rest) = (rbuf[e] \o f) \o rest
  <2> DEFINE x == rbuf[e]
  <2> HIDE DEF x, skip, r
  <2>1. x \in Seq(AnyUnit) /\ f \in Seq(AnyUnit) /\ rest \in Seq(AnyUnit)
    BY <1>5, <1>6, <1>9 DEF x
  <2>2. (x \o f) \o rest = x \o (f \o rest)
    BY <2>1
  <2> QED BY <2>2 DEF x
<1>12. rbuf[e] \o f \in Seq(AnyUnit)
  BY <1>5, <1>6, SeqJoin
<1> QED BY <1>3, <1>4, <1>8, <1>9, <1>10, <1>11, <1>12

(* The units the server has from a stranger                                *)
LEMMA StrangerUnits ==
    ASSUME IInv, Stranger, pc["server"] = "open",
           NEW k \in 1 .. Len(wire["client"]), Get("server", k)
    PROVE  LET units == rbuf["server"] \o Filtered("server", k)
               y == wire'["client"]
               n == rawSent["client"]
           IN  /\ units \in Seq(AnyUnit) /\ raw = <<>>
               /\ \A j \in 1 .. Len(units) : units[j] = RawUnit(Gone' + j)
               /\ y \in Seq(AnyUnit)
               /\ \A j \in 1 .. Len(y) : y[j] = RawUnit(n - Len(y) + j)
               /\ Len(units) + Len(y) + Gone' = n /\ Gone' >= 0 /\ Gone' \in Nat /\ n > 0
               /\ counter'["server"] > 0 => units = <<>>
               /\ Len(units) \in Nat /\ Len(y) \in Nat
<1> DEFINE x == rbuf["server"]
           u == Filtered("server", k)
           sk == Skipped("server", k)
           y == wire'["client"]
           n == rawSent["client"]
           units == x \o u
           held == Len(raw) + Len(x)
           g == Gone
           g2 == Gone'
           lx == Len(x)
           lu == Len(u)
           ly == Len(y)
<1>1. raw = <<>>
  BY DEF IInv, CutInv
<1>2. /\ u \in Seq(AnyUnit) /\ Len(u) \in Nat /\ Gone' = Gone + sk /\ sk \in Nat
      /\ \A j \in 1 .. Len(u) : u[j] = RawUnit(Gone' + held + j)
      /\ y \in Seq(AnyUnit) /\ Len(y) \in Nat
      /\ \A j \in 1 .. Len(y) : y[j] = RawUnit(n - Len(y) + j)
      /\ held + Len(u) + Len(y) + Gone' = n
      /\ counter'["server"] > 0 => u = <<>>
      /\ counter'["server"] > 0 \/ sk > 0 => x = <<>>
  BY StrangerGet
<1>3. /\ Gone \in Nat /\ x \in Seq(AnyUnit) /\ Len(x) \in Nat
      /\ \A j \in 1 .. Len(x) : x[j] = RawUnit(Gone + Len(raw) + j)
      /\ Len(wire["client"]) \in Nat /\ n \in Nat
      /\ Len(raw) + Len(x) + Len(wire["client"]) + Gone = n
  BY StrangerFacts
<1>4. Len(raw) = 0
  BY <1>1
<1>5. n > 0
  <2> DEFINE lw == Len(wire["client"])
  <2>1. lw \in Nat /\ k \in 1 .. lw /\ lx \in Nat /\ g \in Nat /\ n \in Nat
    BY <1>3
  <2>2. Len(raw) + lx + lw + g = n
    BY <1>3
  <2> HIDE DEF lw, lx, g, n
  <2> QED BY <1>4, <2>1, <2>2
<1> HIDE DEF u, sk, y, n, x
<1>6. /\ units \in Seq(AnyUnit) /\ Len(units) = Len(x) + Len(u)
      /\ \A j \in 1 .. Len(x) : units[j] = x[j]
      /\ \A j \in Len(x) + 1 .. Len(x) + Len(u) : units[j] = u[j - Len(x)]
  BY <1>2, <1>3, SeqJoin
<1> HIDE DEF units
<1>7. held = lx /\ lx \in Nat /\ lu \in Nat /\ ly \in Nat /\ g \in Nat /\ sk \in Nat /\ g2 = g + sk
      /\ Len(units) = lx + lu
  BY <1>2, <1>3, <1>4, <1>6
<1>8. lx + lu + ly + g2 = n
  BY <1>2, <1>7
<1>9. \A j \in 1 .. lx : x[j] = RawUnit(g2 + j)
  <2>1. CASE sk > 0
    <3>1. lx = 0
      BY <1>2, <2>1
    <3> HIDE DEF lx
    <3> QED BY <3>1
  <2>2. CASE ~(sk > 0)
    <3>1. g2 = g
      <4> HIDE DEF g2, g
      <4> QED BY <1>7, <2>2
    <3>2. \A j \in 1 .. lx : x[j] = RawUnit(g + 0 + j)
      BY <1>3, <1>4
    <3>3. \A j \in 1 .. lx : g + 0 + j = g + j
      BY <1>7
    <3> HIDE DEF g2, g, lx
    <3> QED BY <3>1, <3>2, <3>3
  <2> QED BY <2>1, <2>2
<1>10. \A j \in 1 .. lu : u[j] = RawUnit(g2 + lx + j)
  BY <1>2, <1>7
<1> HIDE DEF lx, lu, ly, g, g2, held
<1>11. \A j \in 1 .. lx + lu : units[j] = RawUnit(g2 + j)
  <2> TAKE j \in 1 .. lx + lu
  <2>1. CASE j \in 1 .. lx
    BY <1>6, <1>9, <2>1 DEF lx
  <2>2. CASE j \in lx + 1 .. lx + lu
    <3>1. j - lx \in 1 .. lu /\ g2 + lx + (j - lx) = g2 + j
      BY <1>7, <2>2
    <3>2. units[j] = u[j - lx]
      BY <1>6, <2>2 DEF lx, lu
    <3>3. u[j - lx] = RawUnit(g2 + lx + (j - lx))
      BY <1>10, <3>1
    <3> QED BY <3>1, <3>2, <3>3
  <2> QED BY <1>7, <2>1, <2>2
<1>12. g2 \in Nat /\ g2 >= 0
  BY <1>7
<1>13. counter'["server"] > 0 => units = <<>>
  BY <1>2 DEF units
<1>14. /\ \A j \in 1 .. Len(units) : units[j] = RawUnit(g2 + j)
       /\ Len(units) + ly + g2 = n /\ Len(units) \in Nat
  BY <1>7, <1>8, <1>11
<1> QED BY <1>1, <1>2, <1>5, <1>6, <1>12, <1>13, <1>14 DEF units, x, u, y, n, ly, g2

(* The server reads from a stranger: it has to judge again, or it hands    *)
(* the connection to the redirector.                                       *)
LEMMA StrangerMore ==
    ASSUME IInv, Stranger, ReadMore("server")
    PROVE  /\ IInv' /\ UNCHANGED <<sent, got>>
           /\ pc' = pc \/ pc' = [pc EXCEPT !["server"] = "raw"]
<1>1. /\ pc["server"] = "open" /\ UNCHANGED <<coder, ivKey, wIndex, sent, rawSent, raw>>
      /\ Peer("server") = "client" /\ "server" \in Ends /\ "client" \in Ends
  BY PeerFacts DEF ReadMore
<1>2. PICK k \in 1 .. Len(wire["client"]) :
          LET units == rbuf["server"] \o Filtered("server", k)
          IN  /\ Get("server", k)
              /\ \/ /\ ~Judged(units) /\ rbuf' = [rbuf EXCEPT !["server"] = units]
                    /\ UNCHANGED <<fin, pc, initRead, rIndex, decbuf, got>>
                 \/ Judged(units) /\ FrameBegins(units)
                 \/ /\ units # <<>> /\ ~FrameBegins(units)
                    /\ rbuf' = [rbuf EXCEPT !["server"] = units]
                    /\ pc' = [pc EXCEPT !["server"] = "raw"]
                    /\ fin' = [fin EXCEPT !["server"] = @ \/ ("server" = "client" /\ ~padded)]
                    /\ UNCHANGED <<initRead, rIndex, decbuf, got>>
  BY <1>1, ZenonT(40) DEF ReadMore
<1> DEFINE units == rbuf["server"] \o Filtered("server", k)
           y == wire'["client"]
           n == rawSent["client"]
<1>3. /\ units \in Seq(AnyUnit) /\ raw = <<>>
      /\ \A j \in 1 .. Len(units) : units[j] = RawUnit(Gone' + j)
      /\ y \in Seq(AnyUnit)
      /\ \A j \in 1 .. Len(y) : y[j] = RawUnit(n - Len(y) + j)
      /\ Len(units) + Len(y) + Gone' = n /\ Gone' >= 0 /\ Gone' \in Nat /\ n > 0
      /\ counter'["server"] > 0 => units = <<>>
      /\ Len(units) \in Nat /\ Len(y) \in Nat
  BY <1>1, <1>2, StrangerUnits
<1>4. /\ wire' \in [Ends -> Seq(AnyUnit)] /\ counter' \in [Ends -> Nat]
      /\ UNCHANGED <<padded, wbuf>>
      /\ \A f \in Ends : counter'[f] \in 0 .. PadLen[Peer(f)]
      /\ \A f \in Ends : pc[f] = "open" =>
             IF wbuf[f] > 0 THEN wire'[f] = <<>> /\ counter'[Peer(f)] = wbuf[f]
             ELSE counter'[Peer(f)] <= Len(wire'[f])
  BY <1>1, <1>2, GetKeeps
<1>5. ~(Judged(units) /\ FrameBegins(units))
  <2> SUFFICES ASSUME units # <<>> PROVE units[1].kind = "raw"
    BY DEF Judged, FrameBegins
  <2> HIDE DEF units
  <2>1. Len(units) # 0
    BY <1>3, SeqEmpty
  <2>2. 1 \in 1 .. Len(units)
    BY <1>3, <2>1
  <2>3. units[1] = RawUnit(Gone' + 1)
    BY <1>3, <2>2
  <2> QED BY <2>3, RawUnitShape
<1>6. /\ rbuf' = [rbuf EXCEPT !["server"] = units]
      /\ UNCHANGED <<initRead, rIndex, decbuf, got>>
      /\ \/ UNCHANGED <<fin, pc>>
         \/ /\ pc' = [pc EXCEPT !["server"] = "raw"]
            /\ fin' = [fin EXCEPT !["server"] = @ \/ ("server" = "client" /\ ~padded)]
  BY <1>2, <1>5
<1> HIDE DEF units, y, n
<1>7. /\ fin \in [Ends -> BOOLEAN] /\ rbuf \in [Ends -> Seq(AnyUnit)]
      /\ pc \in [Ends -> {"open", "stranger", "raw", "closed"}]
  BY DEF IInv, Shape, TypeOK, ConnTypeOK
<1>8. rbuf' \in [Ends -> Seq(AnyUnit)] /\ rbuf'["server"] = units /\ rbuf'["client"] = rbuf["client"]
  BY <1>1, <1>3, <1>6, <1>7, PeerFacts
<1>9. /\ fin' = fin /\ pc' \in [Ends -> {"open", "stranger", "raw", "closed"}]
      /\ pc'["client"] = pc["client"] /\ pc'["server"] \in {"open", "raw"}
  <2>1. CASE UNCHANGED <<fin, pc>>
    BY <1>1, <1>7, <2>1
  <2>2. CASE /\ pc' = [pc EXCEPT !["server"] = "raw"]
             /\ fin' = [fin EXCEPT !["server"] = @ \/ ("server" = "client" /\ ~padded)]
    <3>1. fin["server"] \in BOOLEAN
      BY <1>1, <1>7
    <3>2. (fin["server"] \/ ("server" = "client" /\ ~padded)) = fin["server"]
      BY <3>1, PeerFacts
    <3>3. fin' = [fin EXCEPT !["server"] = fin["server"]]
      BY <2>2, <3>2
    <3>4. fin' = fin
      BY <1>7, <3>3
    <3> QED BY <1>1, <1>7, <2>2, <3>4, PeerFacts
  <2> QED BY <1>6, <2>1, <2>2
<1>10. /\ pc["client"] # "open" /\ ~(rawSent["server"] > 0) /\ n \in Nat
       /\ ~fin["server"]
  <2>1. pc["client"] # "open"
    BY PeerFacts DEF IInv, RoleInv, Stranger
  <2>2. ~(rawSent["server"] > 0) /\ ~fin["server"]
    BY <1>1 DEF IInv, RoleInv
  <2>3. n \in 0 .. MaxRaw /\ MaxRaw \in Nat
    BY PeerFacts, BoundFacts DEF IInv, TypeOK, n
  <2> QED BY <2>1, <2>2, <2>3
<1>11. \A f \in Ends : pc'[f] = "open" => pc[f] = "open"
  BY <1>1, <1>9, PeerFacts
<1>12. TypeOK'
  <2>1. ConnTypeOK'
    BY <1>4, <1>9 DEF IInv, TypeOK, ConnTypeOK
  <2> QED BY <1>1, <1>6, <1>9, <2>1 DEF IInv, TypeOK
<1>13. Shape'
  BY <1>1, <1>4, <1>6, <1>8, <1>9 DEF IInv, Shape
<1>14. GotInv'
  BY <1>6 DEF IInv, GotInv
<1>15. PadInv'
  BY <1>4, <1>11 DEF PadInv
<1>16. RoleInv'
  <2>1. \A f \in Ends : fin'[f] => pc'[f] = "closed"
    BY <1>9, <1>10, PeerFacts DEF IInv, RoleInv
  <2> QED BY <1>1, <1>9, <1>10, <2>1 DEF IInv, RoleInv
<1>17. Stranger'
  BY <1>1, <1>9 DEF Stranger
<1>18. StrangerInv'
  <2> DEFINE r == <<>>
  <2>1. /\ r \in Seq(AnyUnit) /\ Len(r) = 0 /\ r = raw'
        /\ \A j \in 1 .. Len(r) : r[j].k = Gone' + j
    BY <1>1, <1>3
  <2> HIDE DEF r
  <2>2. ~initRead["server"] /\ decbuf["server"] = <<>>
    BY StrangerFacts
  <2> DEFINE lr == Len(r)
             lu == Len(units)
             ly == Len(y)
             g == Gone'
  <2>3. lr = 0 /\ lu \in Nat /\ ly \in Nat /\ g \in Nat /\ lu + ly + g = n
    BY <1>3, <2>1
  <2> HIDE DEF lr, lu, ly, g
  <2>4. lr + lu + ly + g = n
    BY <2>3
  <2>5. \A j \in 1 .. lu : units[j] = RawUnit(g + lr + j)
    <3>1. \A j \in 1 .. lu : units[j] = RawUnit(g + j)
      BY <1>3 DEF lu, g
    <3>2. \A j \in 1 .. lu : g + lr + j = g + j
      BY <2>3
    <3> QED BY <3>1, <3>2
  <2>6. /\ units \in Seq(AnyUnit) /\ units = rbuf'["server"] /\ y \in Seq(AnyUnit)
        /\ y = wire'["client"] /\ ~initRead'["server"] /\ decbuf'["server"] = <<>> /\ Gone' >= 0
        /\ Len(r) + Len(units) + Len(y) + Gone' = rawSent'["client"]
        /\ counter'["server"] > 0 => r = <<>> /\ units = <<>>
    BY <1>1, <1>3, <1>6, <1>8, <2>2, <2>4 DEF lr, lu, ly, g, n, y, r
  <2>7. /\ \A j \in 1 .. Len(units) : units[j] = RawUnit(Gone' + Len(r) + j)
        /\ \A j \in 1 .. Len(y) : y[j] = RawUnit(rawSent'["client"] - Len(y) + j)
    BY <1>1, <1>3, <2>5 DEF lr, lu, g, n
  <2>8. /\ r \in Seq(AnyUnit) /\ r = raw' /\ units \in Seq(AnyUnit) /\ units = rbuf'["server"]
        /\ y \in Seq(AnyUnit) /\ y = wire'["client"] /\ ~initRead'["server"]
        /\ decbuf'["server"] = <<>> /\ Gone' >= 0
        /\ Len(r) + Len(units) + Len(y) + Gone' = rawSent'["client"]
        /\ counter'["server"] > 0 => r = <<>> /\ units = <<>>
    BY <2>1, <2>6
  <2>9. \A j \in 1 .. Len(r) : r[j].k = Gone' + j
    BY <2>1
  <2> QED BY <2>7, <2>8, <2>9, StrangerNext
<1>19. CutInv'
  <2>1. ~(rawSent'["client"] = 0)
    BY <1>1, <1>3, <1>10 DEF n
  <2>2. raw' = <<>>
    BY <1>1, <1>3
  <2>3. \A f \in Ends : ~(pc'[f] = "open" /\ rawSent'[Peer(f)] = 0)
    BY <1>9, <1>10, <2>1, PeerFacts
  <2> QED BY <1>17, <2>2, <2>3 DEF CutInv
<1>20. FlowInv'
  <2>1. ~(rawSent'["client"] = 0)
    BY <1>1, <1>3, <1>10 DEF n
  <2> QED BY <1>9, <1>10, <2>1, PeerFacts DEF FlowInv, FlowOf
<1> QED BY <1>1, <1>6, <1>12, <1>13, <1>14, <1>15, <1>16, <1>18, <1>19, <1>20 DEF IInv

(* e read of a peer with the key.                                          *)
ReadsOn(e) ==
    /\ pc[e] = "open"
    /\ UNCHANGED <<fin, pc, coder, ivKey, wIndex, sent, rawSent, raw>>
    /\ rbuf' = [rbuf EXCEPT ![e] = rbuf'[e]] /\ rbuf'[e] \in Seq(AnyUnit)
    /\ initRead' = [initRead EXCEPT ![e] = initRead'[e]] /\ initRead'[e] \in BOOLEAN
    /\ rIndex' = [rIndex EXCEPT ![e] = rIndex'[e]] /\ rIndex'[e] \in 0 .. Wrap
    /\ got' \in [Ends -> Seq(Nat)] /\ decbuf' \in [Ends -> Seq(Nat)]
    /\ \A f \in Ends : f # e => got'[f] = got[f] /\ decbuf'[f] = decbuf[f]
    /\ GotInv'
    /\ \A f \in Ends : /\ got'[f] \in Seq(Garbled .. MaxSent[Peer(f)])
                       /\ decbuf'[f] \in Seq(Garbled .. MaxSent[Peer(f)])
    /\ \A j \in 1 .. Len(rbuf'[e]) : rbuf'[e][j].k = j
    /\ FlowOf(Peer(e))'

LEMMA ReadsOnKeeps ==
    ASSUME IInv, ~Stranger, NEW e \in Ends, NEW k \in 1 .. Len(wire[Peer(e)]), Get(e, k), ReadsOn(e)
    PROVE  IInv'
<1> DEFINE b == rbuf'[e]
           i == initRead'[e]
           x == rIndex'[e]
<1>1. /\ pc[e] = "open" /\ UNCHANGED <<fin, pc, coder, ivKey, wIndex, sent, rawSent, raw>>
      /\ got' \in [Ends -> Seq(Nat)] /\ decbuf' \in [Ends -> Seq(Nat)]
      /\ \A f \in Ends : f # e => got'[f] = got[f] /\ decbuf'[f] = decbuf[f]
      /\ \A f \in Ends : /\ got'[f] \in Seq(Garbled .. MaxSent[Peer(f)])
                         /\ decbuf'[f] \in Seq(Garbled .. MaxSent[Peer(f)])
  BY DEF ReadsOn
<1>2. /\ rbuf' = [rbuf EXCEPT ![e] = b] /\ b \in Seq(AnyUnit)
      /\ initRead' = [initRead EXCEPT ![e] = i] /\ i \in BOOLEAN
      /\ rIndex' = [rIndex EXCEPT ![e] = x] /\ x \in 0 .. Wrap
      /\ \A j \in 1 .. Len(b) : b[j].k = j
  BY DEF ReadsOn
<1>3. GotInv' /\ FlowOf(Peer(e))'
  BY DEF ReadsOn
<1>4. /\ wire' \in [Ends -> Seq(AnyUnit)] /\ counter' \in [Ends -> Nat]
      /\ wire'[e] = wire[e] /\ counter'[Peer(e)] = counter[Peer(e)]
      /\ UNCHANGED <<padded, wbuf>>
      /\ \A f \in Ends : counter'[f] \in 0 .. PadLen[Peer(f)]
      /\ \A f \in Ends : pc[f] = "open" =>
             IF wbuf[f] > 0 THEN wire'[f] = <<>> /\ counter'[Peer(f)] = wbuf[f]
             ELSE counter'[Peer(f)] <= Len(wire'[f])
  BY GetKeeps
<1> HIDE DEF b, i, x
<1>5. /\ rbuf \in [Ends -> Seq(AnyUnit)] /\ initRead \in [Ends -> BOOLEAN]
      /\ rIndex \in [Ends -> 0 .. Wrap]
  BY DEF IInv, Shape, TypeOK
<1>6. /\ rbuf' \in [Ends -> Seq(AnyUnit)] /\ initRead' \in [Ends -> BOOLEAN]
      /\ rIndex' \in [Ends -> 0 .. Wrap]
      /\ rbuf'[e] = b
      /\ \A f \in Ends : f # e => /\ rbuf'[f] = rbuf[f] /\ initRead'[f] = initRead[f]
                                  /\ rIndex'[f] = rIndex[f]
  BY <1>2, <1>5
<1>7. TypeOK'
  <2>1. ConnTypeOK'
    BY <1>1, <1>4 DEF IInv, TypeOK, ConnTypeOK
  <2> QED BY <1>1, <1>6, <2>1 DEF IInv, TypeOK
<1>8. Shape'
  BY <1>1, <1>4, <1>6 DEF IInv, Shape
<1>9. PadInv'
  BY <1>1, <1>4 DEF PadInv
<1>10. RoleInv'
  BY <1>1 DEF IInv, RoleInv
<1>11. ~Stranger' /\ StrangerInv'
  BY <1>1 DEF StrangerInv, Stranger
<1>12. pc["server"] # "raw"
  BY <1>1, PeerFacts DEF IInv, RoleInv
<1>13. CutInv'
  <2>1. ASSUME NEW f \in Ends, pc'[f] = "open", rawSent'[Peer(f)] = 0, NEW j \in DOMAIN rbuf'[f]
        PROVE  rbuf'[f][j].k = j
    <3>1. CASE f = e
      <4>1. DOMAIN b = 1 .. Len(b)
        BY <1>2
      <4> QED BY <1>2, <1>6, <2>1, <3>1, <4>1
    <3>2. CASE f # e
      <4>1. rbuf'[f] = rbuf[f]
        BY <1>6, <3>2
      <4> QED BY <1>1, <2>1, <4>1 DEF IInv, CutInv
    <3> QED BY <3>1, <3>2
  <2>2. pc'["server"] = "open" => raw' = <<>>
    BY <1>1 DEF IInv, CutInv
  <2>3. ASSUME ~initRead'["server"] PROVE \A j \in DOMAIN raw' : raw'[j].k = j
    <3>1. CASE e = "server"
      <4>1. raw' = <<>> /\ DOMAIN <<>> = {}
        BY <1>1, <3>1 DEF IInv, CutInv
      <4> QED BY <4>1
    <3>2. CASE e # "server"
      <4>1. initRead'["server"] = initRead["server"]
        BY <1>6, <3>2, PeerFacts
      <4> QED BY <1>1, <2>3, <4>1 DEF IInv, CutInv
    <3> QED BY <3>1, <3>2
  <2> QED BY <1>1, <1>12, <2>1, <2>2, <2>3 DEF CutInv
<1>14. FlowOf(e)'
  <2>1. Peer(e) \in Ends /\ Peer(e) # e /\ FlowOf(e)
    BY PeerFacts DEF IInv, FlowInv
  <2>2. /\ rbuf'[Peer(e)] = rbuf[Peer(e)] /\ initRead'[Peer(e)] = initRead[Peer(e)]
        /\ rIndex'[Peer(e)] = rIndex[Peer(e)]
        /\ Len(got'[Peer(e)]) + Len(decbuf'[Peer(e)]) = Len(got[Peer(e)]) + Len(decbuf[Peer(e)])
    BY <1>1, <1>6, <2>1
  <2> QED BY <1>1, <1>4, <2>1, <2>2, FlowSame
<1>15. FlowInv'
  BY <1>3, <1>14, PeerFacts DEF FlowInv
<1> QED BY <1>3, <1>7, <1>8, <1>9, <1>10, <1>11, <1>13, <1>15 DEF IInv

(* What a Read of a peer with the key finds                                *)
LEMMA ReadFinds ==
    ASSUME IInv, ~Stranger, NEW e \in Ends, pc[e] = "open",
           NEW k \in 1 .. Len(wire[Peer(e)]), Get(e, k)
    PROVE  LET units == rbuf[e] \o Filtered(e, k)
               rest == Visible(Peer(e))'
               s == units \o rest
               from == Decoder(e)
           IN  /\ units \in Seq(AnyUnit) /\ rest \in Seq(AnyUnit)
               /\ Coming(Peer(e)) = s
               /\ \E c \in ChunksOf(s) :
                     /\ Stream(s, c, from)
                     /\ pc[Peer(e)] = "open" =>
                            /\ s # <<>> => s[Len(s)].k = Total(FrameOf(c[Len(s)]))
                            /\ To(s, c, from) = Encoder(Peer(e))
                     /\ \A j \in 1 .. Len(s) : s[j].k = Total(FrameOf(c[j])) =>
                            c[j].base + c[j].len <= sent[Peer(e)]
                     /\ from.base <= sent[Peer(e)]
<1>1. rawSent[Peer(e)] = 0 /\ FlowOf(Peer(e)) /\ Peer(Peer(e)) = e
  BY OpenPeer, PeerFacts DEF IInv, FlowInv
<1>2. \E c \in [1 .. Len(Coming(Peer(e))) -> Chunk] : Flow(Peer(e), c)
  BY <1>1 DEF FlowOf
<1>3. LET units == rbuf[e] \o Filtered(e, k)
          rest == Visible(Peer(e))'
      IN  /\ units \in Seq(AnyUnit) /\ rest \in Seq(AnyUnit)
          /\ Coming(Peer(e)) = units \o rest
  BY ReadShape
<1> DEFINE s == Coming(Peer(e))
<1>4. \E c \in ChunksOf(s) :
          /\ Stream(s, c, Decoder(e))
          /\ pc[Peer(e)] = "open" =>
                 /\ s # <<>> => s[Len(s)].k = Total(FrameOf(c[Len(s)]))
                 /\ To(s, c, Decoder(e)) = Encoder(Peer(e))
          /\ \A j \in 1 .. Len(s) : s[j].k = Total(FrameOf(c[j])) =>
                 c[j].base + c[j].len <= sent[Peer(e)]
          /\ Decoder(e).base <= sent[Peer(e)]
  BY <1>1, <1>2 DEF Flow, ChunksOf
<1> QED BY <1>3, <1>4

(* What comes from a peer with the key begins with a frame.                *)
LEMMA FramesCome ==
    ASSUME NEW units \in Seq(AnyUnit), NEW rest \in Seq(AnyUnit),
           NEW c \in ChunksOf(units \o rest), NEW from, Stream(units \o rest, c, from),
           units # <<>>
    PROVE  FrameBegins(units)
<1>1. PICK d \in ChunksOf(units) : Stream(units, d, from)
  BY StreamFront
<1>2. 1 \in 1 .. Len(units)
  <2>1. Len(units) \in Nat /\ Len(units) # 0
    BY SeqEmpty
  <2> QED BY <2>1
<1>3. units[1] = Unit("frame", FrameOf(d[1]), units[1].k) /\ units[1].k = 1
  BY <1>1, <1>2 DEF Stream, Linked
<1>4. units[1].kind = "frame"
  BY <1>3, UnitShape
<1> QED BY <1>3, <1>4 DEF FrameBegins

LEMMA TooLittle ==
    ASSUME NEW units \in Seq(AnyUnit), NEW rest \in Seq(AnyUnit),
           NEW c \in ChunksOf(units \o rest), NEW from, Stream(units \o rest, c, from),
           ~Judged(units)
    PROVE  \A j \in 1 .. Len(units) : units[j].k = j
<1>1. CASE units = <<>>
  <2>1. Len(units) = 0
    BY <1>1
  <2> QED BY <2>1
<1>2. CASE units # <<>>
  <2>1. FrameBegins(units)
    BY <1>2, FramesCome
  <2>2. ~(Len(units) >= Total(units[1].frame))
    BY <1>2, <2>1 DEF Judged
  <2>3. PICK d \in ChunksOf(units) : Stream(units, d, from)
    BY StreamFront
  <2>4. Len(units) < Total(units[1].frame)
    <3>1. Len(units) \in Nat /\ Len(units) # 0
      BY <1>2, SeqEmpty
    <3>2. 1 \in 1 .. Len(units)
      BY <3>1
    <3>3. units[1] = Unit("frame", FrameOf(d[1]), units[1].k) /\ d[1] \in Chunk
      BY <2>3, <3>2 DEF Stream, Linked, ChunksOf
    <3>4. units[1].frame = FrameOf(d[1])
      <4> DEFINE f == FrameOf(d[1])
                 j == units[1].k
      <4> HIDE DEF f, j
      <4>1. units[1] = Unit("frame", f, j)
        BY <3>3 DEF f, j
      <4>2. units[1].frame = f
        BY <4>1, UnitShape
      <4> QED BY <4>2 DEF f
    <3>5. Total(units[1].frame) \in Nat
      BY <3>3, <3>4, FrameShape
    <3> QED BY <2>2, <3>1, <3>5
  <2> QED BY <1>2, <2>3, <2>4, Incomplete
<1> QED BY <1>1, <1>2

(* Too little came for a frame: nothing of what is coming is decoded.      *)
LEMMA ReadsNoFrame ==
    ASSUME IInv, ~Stranger, NEW e \in Ends, pc[e] = "open",
           NEW k \in 1 .. Len(wire[Peer(e)]), Get(e, k),
           NEW units, units = rbuf[e] \o Filtered(e, k), ~Judged(units),
           rbuf' = [rbuf EXCEPT ![e] = units],
           UNCHANGED <<coder, ivKey, wIndex, sent, rawSent, raw>>,
           UNCHANGED <<fin, pc, initRead, rIndex, decbuf, got>>
    PROVE  ReadsOn(e)
<1> DEFINE rest == Visible(Peer(e))'
           s == units \o rest
           from == Decoder(e)
<1>1. units \in Seq(AnyUnit) /\ rest \in Seq(AnyUnit) /\ Coming(Peer(e)) = s
  BY ReadFinds
<1>2. PICK c \in ChunksOf(s) :
          /\ Stream(s, c, from)
          /\ pc[Peer(e)] = "open" =>
                 /\ s # <<>> => s[Len(s)].k = Total(FrameOf(c[Len(s)]))
                 /\ To(s, c, from) = Encoder(Peer(e))
          /\ \A j \in 1 .. Len(s) : s[j].k = Total(FrameOf(c[j])) =>
                 c[j].base + c[j].len <= sent[Peer(e)]
          /\ from.base <= sent[Peer(e)]
  BY ReadFinds
<1>3. /\ rbuf \in [Ends -> Seq(AnyUnit)] /\ initRead \in [Ends -> BOOLEAN]
      /\ rIndex \in [Ends -> 0 .. Wrap] /\ Peer(Peer(e)) = e /\ Peer(e) \in Ends
      /\ got \in [Ends -> Seq(Nat)] /\ decbuf \in [Ends -> Seq(Nat)]
  BY PeerFacts DEF IInv, Shape, TypeOK
<1>4. rbuf'[e] = units
  BY <1>3
<1>5. \A j \in 1 .. Len(units) : units[j].k = j
  <2>1. c \in ChunksOf(units \o rest) /\ Stream(units \o rest, c, from)
    BY <1>2
  <2> HIDE DEF rest, from, s
  <2> QED BY <1>1, <2>1, TooLittle
<1>6. Coming(Peer(e))' = s
  BY <1>3, <1>4 DEF Coming
<1>7. Decoder(e)' = from /\ Encoder(Peer(e))' = Encoder(Peer(e)) /\ sent' = sent /\ pc' = pc
  BY DEF Decoder, Encoder
<1>8. FlowOf(Peer(e))'
  <2>1. /\ s = Coming(Peer(e))' /\ from = Decoder(Peer(Peer(e)))'
        /\ pc'[Peer(e)] = "open" => /\ s # <<>> => s[Len(s)].k = Total(FrameOf(c[Len(s)]))
                                    /\ To(s, c, from) = Encoder(Peer(e))'
        /\ \A j \in 1 .. Len(s) : s[j].k = Total(FrameOf(c[j])) =>
               c[j].base + c[j].len <= sent'[Peer(e)]
        /\ from.base <= sent'[Peer(e)]
    BY <1>2, <1>3, <1>6, <1>7
  <2> HIDE DEF s, from
  <2> QED BY <1>2, <1>3, <2>1, FlowNew
<1>9. GotInv'
  BY DEF IInv, GotInv
<1>10. /\ \A f \in Ends : /\ got'[f] \in Seq(Garbled .. MaxSent[Peer(f)])
                          /\ decbuf'[f] \in Seq(Garbled .. MaxSent[Peer(f)])
  BY DEF IInv, TypeOK
<1>11. /\ rbuf' = [rbuf EXCEPT ![e] = rbuf'[e]]
       /\ initRead' = [initRead EXCEPT ![e] = initRead'[e]] /\ initRead'[e] \in BOOLEAN
       /\ rIndex' = [rIndex EXCEPT ![e] = rIndex'[e]] /\ rIndex'[e] \in 0 .. Wrap
  BY <1>3, <1>4
<1> QED BY <1>1, <1>3, <1>4, <1>5, <1>8, <1>9, <1>10, <1>11 DEF ReadsOn

(* What the decoding of units leaves: none of it is past max, and its last *)
(* unit is the last one there was.                                         *)
Left(s, c, from, t, now, max) ==
    /\ now.base <= max
    /\ \E f \in ChunksOf(t) :
          /\ Stream(t, f, now) /\ To(t, f, now) = To(s, c, from)
          /\ t # <<>> => s # <<>> /\ t[Len(t)] = s[Len(s)] /\ f[Len(t)] = c[Len(s)]
          /\ \A k \in 1 .. Len(t) : t[k].k = Total(FrameOf(f[k])) => f[k].base + f[k].len <= max

(* Nothing that was sent is past max.                                      *)
Within(s, c, from, max) ==
    /\ from.base <= max
    /\ \A j \in 1 .. Len(s) :
           s[j].k = Total(FrameOf(c[j])) => c[j].base + c[j].len <= max

LeftBy(e, units, rest, c, from, max) ==
    LET s == units \o rest
        d == Decoded(e, units)
        t == SubSeq(units, Used(units) + 1, Len(units)) \o rest
        now == At(from.base + Len(d.out), d.index, d.init, coder)
    IN  /\ Left(s, c, from, t, now, max)
        /\ d.index \in 0 .. Wrap /\ d.init \in BOOLEAN /\ Used(units) \in 0 .. Len(units)
        /\ \E m \in Nat : d.out = Bytes(from.base, m)
        /\ \A k \in 1 .. Len(units) - Used(units) : t[k].k = k

LEMMA LeftOver ==
    ASSUME NEW e \in Ends, NEW units \in Seq(AnyUnit), NEW rest \in Seq(AnyUnit),
           NEW c \in ChunksOf(units \o rest), NEW from, IsDecoder(e, from),
           Stream(units \o rest, c, from), NEW max \in Nat, Within(units \o rest, c, from, max)
    PROVE  LeftBy(e, units, rest, c, from, max)
<1> DEFINE s == units \o rest
           d == Decoded(e, units)
           u == Used(units)
           t == SubSeq(units, u + 1, Len(units)) \o rest
           now == At(from.base + Len(d.out), d.index, d.init, coder)
<1>1. /\ d.index \in 0 .. Wrap /\ d.init \in BOOLEAN
      /\ \E m \in Nat : d.out = Bytes(from.base, m)
      /\ \A k \in 1 .. Len(units) - u : t[k].k = k
      /\ u \in 0 .. Len(units) /\ Len(t) = Len(s) - u
      /\ now = from \/ \E j \in 1 .. Len(s) : s[j].k = Total(FrameOf(c[j])) /\ now = Past(c[j])
      /\ \E f \in ChunksOf(t) :
            /\ Stream(t, f, now) /\ To(t, f, now) = To(s, c, from)
            /\ \A k \in 1 .. Len(t) : t[k] = s[k + u] /\ f[k] = c[k + u]
  <2>1. ReadsTo(e, units, rest, c, from)
    BY StreamRead
  <2> QED BY <2>1 DEF ReadsTo
<1>2. PICK f \in ChunksOf(t) :
            /\ Stream(t, f, now) /\ To(t, f, now) = To(s, c, from)
            /\ \A k \in 1 .. Len(t) : t[k] = s[k + u] /\ f[k] = c[k + u]
  BY <1>1
<1>3. /\ \A j \in 1 .. Len(s) : s[j].k = Total(FrameOf(c[j])) => c[j].base + c[j].len <= max
      /\ from.base <= max
  BY DEF Within
<1>4. s \in Seq(AnyUnit) /\ t \in Seq(AnyUnit) /\ Len(units) \in Nat
  <2>1. s \in Seq(AnyUnit) /\ Len(units) \in Nat
    BY SeqJoin
  <2>2. SubSeq(units, u + 1, Len(units)) \o rest \in Seq(AnyUnit)
    <3> HIDE DEF u, s, t, now, d
    <3>1. u \in 0 .. Len(units)
      BY <1>1
    <3> QED BY <3>1, SeqRest
  <2> QED BY <2>1, <2>2
<1> HIDE DEF s, d, u, t, now
<1>5. Len(s) \in Nat /\ Len(t) \in Nat /\ u \in Nat
  <2>1. Len(s) \in Nat /\ Len(t) \in Nat
    BY <1>4
  <2> QED BY <1>1, <1>4, <2>1
<1>6. now.base <= max
  <2>1. CASE now = from
    BY <1>3, <2>1
  <2>2. CASE \E j \in 1 .. Len(s) : s[j].k = Total(FrameOf(c[j])) /\ now = Past(c[j])
    <3>1. PICK j \in 1 .. Len(s) : s[j].k = Total(FrameOf(c[j])) /\ now = Past(c[j])
      BY <2>2
    <3>2. now.base = c[j].base + c[j].len
      BY <3>1 DEF Past
    <3> QED BY <1>3, <3>1, <3>2
  <2> QED BY <1>1, <2>1, <2>2
<1>7. t # <<>> => s # <<>> /\ t[Len(t)] = s[Len(s)] /\ f[Len(t)] = c[Len(s)]
  <2> SUFFICES ASSUME t # <<>> PROVE s # <<>> /\ t[Len(t)] = s[Len(s)] /\ f[Len(t)] = c[Len(s)]
    OBVIOUS
  <2>1. Len(t) # 0
    BY <1>4, SeqEmpty
  <2> DEFINE lt == Len(t)
             ls == Len(s)
  <2>2. lt \in Nat /\ ls \in Nat /\ lt # 0 /\ lt = ls - u /\ u \in Nat
    BY <1>1, <1>5, <2>1
  <2> HIDE DEF lt, ls
  <2>3. lt \in 1 .. lt /\ lt + u = ls /\ ls # 0
    BY <2>2
  <2>4. t[lt] = s[lt + u] /\ f[lt] = c[lt + u]
    BY <1>2, <2>3 DEF lt
  <2>5. s # <<>>
    BY <1>4, <2>3, SeqEmpty DEF ls
  <2> QED BY <2>3, <2>4, <2>5 DEF lt, ls
<1>8. ASSUME NEW k \in 1 .. Len(t), t[k].k = Total(FrameOf(f[k]))
      PROVE  f[k].base + f[k].len <= max
  <2> DEFINE lt == Len(t)
             ls == Len(s)
  <2>1. lt \in Nat /\ ls \in Nat /\ lt = ls - u /\ u \in Nat /\ k \in 1 .. lt
    BY <1>1, <1>5, <1>8
  <2>2. k + u \in 1 .. Len(s)
    <3> HIDE DEF lt
    <3>1. k + u \in 1 .. ls
      <4> HIDE DEF ls
      <4> QED BY <2>1
    <3> QED BY <3>1
  <2>3. t[k] = s[k + u] /\ f[k] = c[k + u]
    BY <1>2, <1>8
  <2> HIDE DEF lt, ls
  <2> QED BY <1>3, <1>8, <2>2, <2>3
<1>9. Left(s, c, from, t, now, max)
  BY <1>2, <1>6, <1>7, <1>8 DEF Left
<1> QED BY <1>1, <1>9 DEF s, d, u, t, now, LeftBy

(* e decodes what is complete of the units and delivers it.                *)
TakesFrames(e, units, d) ==
    /\ pc[e] = "open" /\ decbuf[e] = <<>> /\ ~Stranger
    /\ d = Decoded(e, units)
    /\ rbuf' = [rbuf EXCEPT ![e] = SubSeq(units, Used(units) + 1, Len(units))]
    /\ initRead' = [initRead EXCEPT ![e] = d.init] /\ rIndex' = [rIndex EXCEPT ![e] = d.index]
    /\ Deliver(e, d.out) /\ UNCHANGED <<fin, pc, coder, ivKey, wIndex, sent, rawSent, raw>>

(* What it delivers is due, and what is left is the rest of the stream.    *)
TakesDue(e, units, d) ==
    LET rest == Visible(Peer(e))'
        s == units \o rest
        from == Decoder(e)
        u == Used(units)
        t == SubSeq(units, u + 1, Len(units)) \o rest
        now == At(from.base + Len(d.out), d.index, d.init, coder)
    IN  /\ units \in Seq(AnyUnit) /\ rest \in Seq(AnyUnit)
        /\ \E c \in ChunksOf(s) :
              /\ Left(s, c, from, t, now, sent[Peer(e)])
              /\ pc[Peer(e)] = "open" =>
                     /\ s # <<>> => s[Len(s)].k = Total(FrameOf(c[Len(s)]))
                     /\ To(s, c, from) = Encoder(Peer(e))
        /\ d.index \in 0 .. Wrap /\ d.init \in BOOLEAN /\ u \in 0 .. Len(units)
        /\ \E m \in Nat : d.out = Bytes(from.base, m)
        /\ \A j \in 1 .. Len(units) - u : t[j].k = j
        /\ from.base = Len(got[e]) /\ from.base \in Nat

LEMMA TakesWhatIsDue ==
    ASSUME IInv, NEW e \in Ends, NEW k \in 1 .. Len(wire[Peer(e)]), Get(e, k),
           NEW units, units = rbuf[e] \o Filtered(e, k), NEW d, TakesFrames(e, units, d)
    PROVE  TakesDue(e, units, d)
<1> DEFINE rest == Visible(Peer(e))'
           s == units \o rest
           from == Decoder(e)
           max == sent[Peer(e)]
<1>1. pc[e] = "open" /\ decbuf[e] = <<>> /\ ~Stranger /\ d = Decoded(e, units)
  BY DEF TakesFrames
<1>2. units \in Seq(AnyUnit) /\ rest \in Seq(AnyUnit)
  BY <1>1, ReadFinds
<1>3. PICK c \in ChunksOf(s) :
          /\ Stream(s, c, from)
          /\ pc[Peer(e)] = "open" =>
                 /\ s # <<>> => s[Len(s)].k = Total(FrameOf(c[Len(s)]))
                 /\ To(s, c, from) = Encoder(Peer(e))
          /\ Within(s, c, from, max)
  <2>1. \E c \in ChunksOf(s) :
          /\ Stream(s, c, from)
          /\ pc[Peer(e)] = "open" =>
                 /\ s # <<>> => s[Len(s)].k = Total(FrameOf(c[Len(s)]))
                 /\ To(s, c, from) = Encoder(Peer(e))
          /\ \A j \in 1 .. Len(s) : s[j].k = Total(FrameOf(c[j])) =>
                 c[j].base + c[j].len <= max
          /\ from.base <= max
    BY <1>1, ReadFinds
  <2> HIDE DEF s, from, max
  <2> QED BY <2>1 DEF Within
<1>4. /\ initRead[e] \in BOOLEAN /\ rIndex[e] \in 0 .. Wrap /\ Len(got[e]) \in Nat
  <2>1. /\ initRead[e] \in BOOLEAN /\ rIndex[e] \in 0 .. Wrap /\ got[e] \in Seq(Nat)
    BY PeerFacts DEF IInv, Shape, TypeOK
  <2> DEFINE x == got[e]
  <2> HIDE DEF x
  <2>2. x \in Seq(Nat)
    BY <2>1 DEF x
  <2>3. Len(x) \in Nat
    BY <2>2
  <2> QED BY <2>1, <2>3 DEF x
<1>5. /\ from.base = Len(got[e]) /\ from.base \in Nat
      /\ from = At(from.base, rIndex[e], initRead[e], coder)
  <2>1. Len(decbuf[e]) = 0
    BY <1>1
  <2>2. Len(got[e]) + Len(decbuf[e]) = Len(got[e])
    BY <1>4, <2>1
  <2> QED BY <1>4, <2>2 DEF Decoder
<1> DEFINE t == SubSeq(units, Used(units) + 1, Len(units)) \o rest
           now == At(from.base + Len(d.out), d.index, d.init, coder)
<1>6. /\ Left(s, c, from, t, now, max)
      /\ d.index \in 0 .. Wrap /\ d.init \in BOOLEAN /\ Used(units) \in 0 .. Len(units)
      /\ \E m \in Nat : d.out = Bytes(from.base, m)
      /\ \A j \in 1 .. Len(units) - Used(units) : t[j].k = j
  <2>1. Stream(units \o rest, c, from) /\ Within(units \o rest, c, from, max)
        /\ c \in ChunksOf(units \o rest)
    BY <1>3
  <2>2. IsDecoder(e, from) /\ max \in Nat
    BY <1>4, <1>5, PeerFacts DEF IInv, Shape, IsDecoder
  <2>3. LeftBy(e, units, rest, c, from, max)
    <3> HIDE DEF rest, from, max, s, t, now
    <3> QED BY <1>2, <2>1, <2>2, LeftOver
  <2> QED BY <1>1, <2>3 DEF LeftBy
<1> QED BY <1>2, <1>3, <1>5, <1>6 DEF TakesDue

LEMMA ReadsFrames ==
    ASSUME IInv, NEW e \in Ends, NEW k \in 1 .. Len(wire[Peer(e)]), Get(e, k),
           NEW units, units = rbuf[e] \o Filtered(e, k), NEW d, TakesFrames(e, units, d)
    PROVE  /\ ReadsOn(e) /\ d.out \in Seq(Nat)
           /\ Len(got[e]) + Len(d.out) <= sent[Peer(e)]
<1> DEFINE rest == Visible(Peer(e))'
           s == units \o rest
           from == Decoder(e)
           u == Used(units)
           left == SubSeq(units, u + 1, Len(units))
           t == left \o rest
           now == At(from.base + Len(d.out), d.index, d.init, coder)
           max == sent[Peer(e)]
<1>1. /\ pc[e] = "open" /\ decbuf[e] = <<>> /\ ~Stranger
      /\ rbuf' = [rbuf EXCEPT ![e] = left]
      /\ initRead' = [initRead EXCEPT ![e] = d.init] /\ rIndex' = [rIndex EXCEPT ![e] = d.index]
      /\ Deliver(e, d.out) /\ UNCHANGED <<fin, pc, coder, ivKey, wIndex, sent, rawSent, raw>>
  BY DEF TakesFrames
<1>2. /\ units \in Seq(AnyUnit) /\ rest \in Seq(AnyUnit)
      /\ \E c \in ChunksOf(s) :
            /\ Left(s, c, from, t, now, max)
            /\ pc[Peer(e)] = "open" =>
                   /\ s # <<>> => s[Len(s)].k = Total(FrameOf(c[Len(s)]))
                   /\ To(s, c, from) = Encoder(Peer(e))
      /\ d.index \in 0 .. Wrap /\ d.init \in BOOLEAN /\ u \in 0 .. Len(units)
      /\ \E m \in Nat : d.out = Bytes(from.base, m)
      /\ \A j \in 1 .. Len(units) - u : t[j].k = j
      /\ from.base = Len(got[e]) /\ from.base \in Nat
  <2>1. TakesDue(e, units, d)
    BY TakesWhatIsDue
  <2> QED BY <2>1 DEF TakesDue
<1>3. PICK c \in ChunksOf(s) :
            /\ Left(s, c, from, t, now, max)
            /\ pc[Peer(e)] = "open" =>
                   /\ s # <<>> => s[Len(s)].k = Total(FrameOf(c[Len(s)]))
                   /\ To(s, c, from) = Encoder(Peer(e))
  BY <1>2
<1>4. PICK m \in Nat : d.out = Bytes(from.base, m)
  BY <1>2
<1>5. d.out \in Seq(Nat) /\ Len(d.out) = m
  <2> DEFINE b == from.base
  <2>1. b \in Nat /\ d.out = Bytes(b, m)
    BY <1>2, <1>4
  <2> HIDE DEF b
  <2>2. Bytes(b, m) \in Seq(Nat) /\ Len(Bytes(b, m)) = m
    BY <2>1, BytesLen
  <2> QED BY <2>1, <2>2
<1>6. /\ Peer(Peer(e)) = e /\ Peer(e) \in Ends /\ max \in Nat /\ max <= MaxSent[Peer(e)]
      /\ MaxSent[Peer(e)] \in Nat
  <2>1. Peer(Peer(e)) = e /\ Peer(e) \in Ends
    BY PeerFacts
  <2>2. rawSent[Peer(e)] = 0 /\ FlowOf(Peer(e))
    BY <1>1, <2>1, OpenPeer DEF IInv, FlowInv
  <2>3. max \in Nat /\ max <= MaxSent[Peer(e)]
    BY <1>1, <2>2, DecodedWasSent
  <2> QED BY <2>1, <2>3, BoundFacts
<1>7. from.base + m <= max /\ now.base = from.base + m
  <2>1. now.base = from.base + Len(d.out)
    OBVIOUS
  <2>2. now.base <= max
    BY <1>3 DEF Left
  <2> HIDE DEF now, from, max
  <2> QED BY <1>5, <2>1, <2>2
<1>8. Due(e, d.out)
  <2> DEFINE b == from.base
             mx == MaxSent[Peer(e)]
  <2>1. \A j \in 1 .. m : d.out[j] = b + j
    BY <1>4 DEF Bytes
  <2>2. b + m <= mx
    <3>1. b \in Nat /\ m \in Nat /\ max \in Nat /\ mx \in Nat /\ b + m <= max /\ max <= mx
      BY <1>2, <1>6, <1>7
    <3> HIDE DEF b, mx, max
    <3> QED BY <3>1
  <2>3. b = Len(got[e])
    BY <1>2
  <2> HIDE DEF from, b
  <2> QED BY <1>5, <2>1, <2>2, <2>3 DEF Due
<1>9. /\ got' \in [Ends -> Seq(Nat)] /\ decbuf' \in [Ends -> Seq(Nat)]
      /\ \A f \in Ends : f # e => got'[f] = got[f] /\ decbuf'[f] = decbuf[f]
      /\ Len(got'[e]) + Len(decbuf'[e]) = Len(got[e]) + Len(d.out)
      /\ GotInv'
      /\ \A f \in Ends : /\ got'[f] \in Seq(Garbled .. MaxSent[Peer(f)])
                         /\ decbuf'[f] \in Seq(Garbled .. MaxSent[Peer(f)])
  <2> DEFINE bytes == d.out
  <2>1. Deliver(e, bytes) /\ Due(e, bytes) /\ bytes \in Seq(Nat)
    BY <1>1, <1>5, <1>8
  <2> HIDE DEF bytes
  <2>2. /\ got' \in [Ends -> Seq(Nat)] /\ decbuf' \in [Ends -> Seq(Nat)]
        /\ \A f \in Ends : f # e => got'[f] = got[f] /\ decbuf'[f] = decbuf[f]
        /\ Len(got'[e]) + Len(decbuf'[e]) = Len(got[e]) + Len(bytes)
        /\ GotInv'
        /\ \A f \in Ends : /\ got'[f] \in Seq(Garbled .. MaxSent[Peer(f)])
                           /\ decbuf'[f] \in Seq(Garbled .. MaxSent[Peer(f)])
    BY <2>1, DeliverGot
  <2> QED BY <2>2 DEF bytes
<1>10. left \in Seq(AnyUnit) /\ \A j \in 1 .. Len(left) : left[j].k = j
  <2>1. Len(units) \in Nat /\ u \in Nat /\ u <= Len(units) /\ Len(units) \in 0 .. Len(units)
    <3>1. Len(units) \in Nat
      BY <1>2
    <3> QED BY <1>2, <3>1
  <2>2. left \in Seq(AnyUnit) /\ Len(left) = IF u <= Len(units) THEN Len(units) - u ELSE 0
    <3>1. units \in Seq(AnyUnit)
      BY <1>2
    <3> HIDE DEF u
    <3> QED BY <2>1, <3>1, SubSeqShape
  <2> HIDE DEF left
  <2>3. Len(left) = Len(units) - u
    BY <2>1, <2>2
  <2>4. \A j \in 1 .. Len(left) : t[j] = left[j]
    <3>1. rest \in Seq(AnyUnit)
      BY <1>2
    <3> HIDE DEF rest
    <3> QED BY <2>2, <3>1, SeqJoin
  <2>5. \A j \in 1 .. Len(units) - u : t[j].k = j
    BY <1>2
  <2> HIDE DEF t
  <2> QED BY <2>2, <2>3, <2>4, <2>5
<1>11. /\ rbuf \in [Ends -> Seq(AnyUnit)] /\ initRead \in [Ends -> BOOLEAN]
       /\ rIndex \in [Ends -> 0 .. Wrap]
  BY DEF IInv, Shape, TypeOK
<1>12. rbuf'[e] = left /\ initRead'[e] = d.init /\ rIndex'[e] = d.index
  BY <1>1, <1>11
<1>13. FlowOf(Peer(e))'
  <2>1. Coming(Peer(e))' = t
    BY <1>6, <1>12 DEF Coming
  <2>2. Decoder(Peer(Peer(e)))' = now
    <3>1. Len(got'[e]) + Len(decbuf'[e]) = from.base + Len(d.out)
      BY <1>2, <1>9
    <3> HIDE DEF from
    <3> QED BY <1>1, <1>6, <1>12, <3>1 DEF Decoder
  <2>3. Encoder(Peer(e))' = Encoder(Peer(e)) /\ sent' = sent /\ pc' = pc
    BY <1>1 DEF Encoder
  <2>4. PICK f \in ChunksOf(t) :
          /\ Stream(t, f, now) /\ To(t, f, now) = To(s, c, from)
          /\ t # <<>> => s # <<>> /\ t[Len(t)] = s[Len(s)] /\ f[Len(t)] = c[Len(s)]
          /\ \A j \in 1 .. Len(t) : t[j].k = Total(FrameOf(f[j])) => f[j].base + f[j].len <= max
    BY <1>3 DEF Left
  <2>5. now.base <= max
    BY <1>3 DEF Left
  <2> HIDE DEF t, s, now, from, max
  <2>6. /\ t = Coming(Peer(e))' /\ now = Decoder(Peer(Peer(e)))' /\ Stream(t, f, now)
        /\ pc'[Peer(e)] = "open" => /\ t # <<>> => t[Len(t)].k = Total(FrameOf(f[Len(t)]))
                                    /\ To(t, f, now) = Encoder(Peer(e))'
    BY <1>3, <2>1, <2>2, <2>3, <2>4
  <2>7. /\ \A j \in 1 .. Len(t) : t[j].k = Total(FrameOf(f[j])) =>
               f[j].base + f[j].len <= sent'[Peer(e)]
        /\ now.base <= sent'[Peer(e)]
    BY <2>3, <2>4, <2>5 DEF max
  <2> QED BY <1>6, <2>4, <2>6, <2>7, FlowNew
<1> HIDE DEF left
<1>14. /\ rbuf' = [rbuf EXCEPT ![e] = rbuf'[e]] /\ rbuf'[e] \in Seq(AnyUnit)
       /\ initRead' = [initRead EXCEPT ![e] = initRead'[e]] /\ initRead'[e] \in BOOLEAN
       /\ rIndex' = [rIndex EXCEPT ![e] = rIndex'[e]] /\ rIndex'[e] \in 0 .. Wrap
       /\ \A j \in 1 .. Len(rbuf'[e]) : rbuf'[e][j].k = j
  BY <1>1, <1>2, <1>10, <1>12
<1>15. ReadsOn(e)
  BY <1>1, <1>9, <1>13, <1>14 DEF ReadsOn
<1> QED BY <1>2, <1>5, <1>7, <1>15

(* A Read of a peer with the key finds too little for a frame or frames.   *)
LEMMA ReadMoreIs ==
    ASSUME IInv, ~Stranger, NEW e \in Ends, ReadMore(e)
    PROVE  \E k \in 1 .. Len(wire[Peer(e)]) :
               /\ Get(e, k)
               /\ \/ ReadsOn(e) /\ UNCHANGED <<sent, got, decbuf, pc>>
                  \/ LET units == rbuf[e] \o Filtered(e, k)
                     IN  TakesFrames(e, units, Decoded(e, units))
<1>1. PICK k \in 1 .. Len(wire[Peer(e)]) :
          LET units == rbuf[e] \o Filtered(e, k)
              d == Decoded(e, units)
          IN  /\ Get(e, k)
              /\ \/ /\ ~Judged(units) /\ rbuf' = [rbuf EXCEPT ![e] = units]
                    /\ UNCHANGED <<fin, pc, initRead, rIndex, decbuf, got>>
                 \/ /\ rbuf' = [rbuf EXCEPT ![e] = SubSeq(units, Used(units) + 1, Len(units))]
                    /\ initRead' = [initRead EXCEPT ![e] = d.init]
                    /\ rIndex' = [rIndex EXCEPT ![e] = d.index]
                    /\ Deliver(e, d.out) /\ UNCHANGED <<fin, pc>>
                 \/ units # <<>> /\ ~FrameBegins(units)
  BY DEF ReadMore
<1>2. /\ pc[e] = "open" /\ decbuf[e] = <<>>
      /\ UNCHANGED <<coder, ivKey, wIndex, sent, rawSent, raw>>
  BY DEF ReadMore
<1> DEFINE units == rbuf[e] \o Filtered(e, k)
           d == Decoded(e, units)
<1>3. ~(units # <<>> /\ ~FrameBegins(units))
  <2> DEFINE rest == Visible(Peer(e))'
             s == units \o rest
  <2>1. /\ units \in Seq(AnyUnit) /\ rest \in Seq(AnyUnit)
        /\ \E c \in ChunksOf(s) : Stream(s, c, Decoder(e))
    BY <1>1, <1>2, ReadFinds
  <2>2. PICK c \in ChunksOf(s) : Stream(s, c, Decoder(e))
    BY <2>1
  <2>3. c \in ChunksOf(units \o rest) /\ Stream(units \o rest, c, Decoder(e))
    BY <2>2
  <2> SUFFICES ASSUME units # <<>> PROVE FrameBegins(units)
    OBVIOUS
  <2> HIDE DEF units, rest, s
  <2> QED BY <2>1, <2>3, FramesCome
<1>4. CASE /\ ~Judged(units) /\ rbuf' = [rbuf EXCEPT ![e] = units]
           /\ UNCHANGED <<fin, pc, initRead, rIndex, decbuf, got>>
  <2>1. ReadsOn(e)
    BY <1>1, <1>2, <1>4, ReadsNoFrame
  <2> QED BY <1>1, <1>2, <1>4, <2>1
<1>5. CASE /\ rbuf' = [rbuf EXCEPT ![e] = SubSeq(units, Used(units) + 1, Len(units))]
           /\ initRead' = [initRead EXCEPT ![e] = d.init]
           /\ rIndex' = [rIndex EXCEPT ![e] = d.index]
           /\ Deliver(e, d.out) /\ UNCHANGED <<fin, pc>>
  <2>1. TakesFrames(e, units, d)
    BY <1>2, <1>5 DEF TakesFrames
  <2> QED BY <1>1, <2>1
<1> QED BY <1>1, <1>3, <1>4, <1>5

LEMMA StrangerReader ==
    ASSUME IInv, Stranger, NEW e \in Ends, pc[e] = "open"
    PROVE  e = "server"
BY PeerFacts DEF IInv, RoleInv, Stranger

LEMMA ReadMoreKeeps == ASSUME IInv, NEW e \in Ends, ReadMore(e) PROVE IInv'
<1>1. CASE Stranger
  <2>1. e = "server"
    BY <1>1, StrangerReader DEF ReadMore
  <2> QED BY <1>1, <2>1, StrangerMore
<1>2. CASE ~Stranger
  <2>1. PICK k \in 1 .. Len(wire[Peer(e)]) :
               /\ Get(e, k)
               /\ \/ ReadsOn(e) /\ UNCHANGED <<sent, got, decbuf, pc>>
                  \/ LET units == rbuf[e] \o Filtered(e, k)
                     IN  TakesFrames(e, units, Decoded(e, units))
    BY <1>2, ReadMoreIs
  <2>2. ReadsOn(e)
    BY <2>1, ReadsFrames
  <2> QED BY <1>2, <2>1, <2>2, ReadsOnKeeps
<1> QED BY <1>1, <1>2

-----------------------------------------------------------------------------
(* The invariant                                                           *)

LEMMA InitHolds == Init => IInv
<1> SUFFICES ASSUME Init PROVE IInv
  OBVIOUS
<1>1. /\ padded \in BOOLEAN /\ wire = [e \in Ends |-> <<>>] /\ fin = [e \in Ends |-> FALSE]
      /\ wbuf = [e \in Ends |-> IF padded THEN PadLen[e] ELSE 0]
      /\ counter = [e \in Ends |-> IF padded THEN PadLen[Peer(e)] ELSE 0]
      /\ coder \in {"none", "xor"}
      /\ pc["client"] \in {"open", "stranger"} /\ pc["server"] = "open" /\ DOMAIN pc = Ends
      /\ ivKey = [e \in Ends |-> TRUE] /\ initRead = [e \in Ends |-> FALSE]
      /\ wIndex = [e \in Ends |-> 0] /\ rIndex = wIndex /\ sent = wIndex /\ rawSent = wIndex
      /\ rbuf = [e \in Ends |-> <<>>] /\ decbuf = rbuf /\ got = rbuf /\ raw = <<>>
  <2>1. PICK c \in {"open", "stranger"} : pc = [e \in Ends |-> IF e = "client" THEN c ELSE "open"]
    BY DEF Init
  <2>2. pc["client"] \in {"open", "stranger"} /\ pc["server"] = "open" /\ DOMAIN pc = Ends
    BY <2>1, PeerFacts
  <2> QED BY <2>2 DEF Init, ConnInit
<1>2. \A e \in Ends : /\ wire[e] = <<>> /\ ~fin[e] /\ rbuf[e] = <<>> /\ decbuf[e] = <<>>
                      /\ got[e] = <<>> /\ sent[e] = 0 /\ rawSent[e] = 0 /\ ivKey[e]
                      /\ ~initRead[e] /\ wIndex[e] = 0 /\ rIndex[e] = 0
                      /\ Peer(e) \in Ends /\ Peer(Peer(e)) = e
                      /\ wbuf[e] = (IF padded THEN PadLen[e] ELSE 0)
                      /\ counter[e] = (IF padded THEN PadLen[Peer(e)] ELSE 0)
                      /\ PadLen[e] \in Nat /\ MaxSent[e] \in Nat
  BY <1>1, PeerFacts, BoundFacts
<1>3. /\ Len(<<>>) = 0 /\ DOMAIN <<>> = {} /\ 0 \in Nat
      /\ <<>> \in Seq(Nat) /\ <<>> \in Seq(AnyUnit) /\ \A S : <<>> \in Seq(S)
  OBVIOUS
<1>4. TypeOK
  <2>1. ConnTypeOK
    <3>1. \A e \in Ends : wbuf[e] \in 0 .. PadLen[e] /\ counter[e] \in 0 .. PadLen[Peer(e)]
      <4> TAKE e \in Ends
      <4>1. /\ PadLen[e] \in Nat /\ PadLen[Peer(e)] \in Nat
            /\ wbuf[e] = (IF padded THEN PadLen[e] ELSE 0)
            /\ counter[e] = (IF padded THEN PadLen[Peer(e)] ELSE 0)
        BY <1>2
      <4> QED BY <4>1
    <3> QED BY <1>1, <3>1 DEF ConnTypeOK
  <2>2. \A e \in Ends : /\ sent[e] \in 0 .. MaxSent[e]
                        /\ got[e] \in Seq(Garbled .. MaxSent[Peer(e)])
                        /\ decbuf[e] \in Seq(Garbled .. MaxSent[Peer(e)])
    <3> TAKE e \in Ends
    <3>1. sent[e] = 0 /\ MaxSent[e] \in Nat /\ got[e] = <<>> /\ decbuf[e] = <<>>
      BY <1>2
    <3> QED BY <1>3, <3>1
  <2>3. /\ wIndex \in [Ends -> 0 .. Wrap] /\ rIndex \in [Ends -> 0 .. Wrap]
        /\ rawSent \in [Ends -> 0 .. MaxRaw]
    <3>1. 0 \in 0 .. Wrap /\ 0 \in 0 .. MaxRaw
      BY BoundFacts
    <3> QED BY <1>1, <3>1
  <2>4. ivKey \in [Ends -> BOOLEAN] /\ initRead \in [Ends -> BOOLEAN]
    BY <1>1
  <2> QED BY <1>1, <2>1, <2>2, <2>3, <2>4 DEF TypeOK
<1>5. Shape
  <2>1. /\ wbuf \in [Ends -> Nat] /\ counter \in [Ends -> Nat]
    <3>1. /\ \A e \in Ends : (IF padded THEN PadLen[e] ELSE 0) \in Nat
          /\ \A e \in Ends : (IF padded THEN PadLen[Peer(e)] ELSE 0) \in Nat
      BY <1>2
    <3> QED BY <1>1, <3>1
  <2>2. pc \in [Ends -> {"open", "stranger", "raw", "closed"}]
    <3>1. \A e \in Ends : pc[e] \in {"open", "stranger", "raw", "closed"}
      BY <1>1, PeerFacts
    <3>2. pc = [e \in Ends |-> pc[e]]
      BY DEF Init
    <3> QED BY <3>1, <3>2
  <2> QED BY <1>1, <1>3, <2>1, <2>2 DEF Shape
<1>6. GotInv
  BY <1>2, <1>3 DEF GotInv
<1>7. PadInv
  <2> SUFFICES ASSUME NEW e \in Ends
               PROVE  IF wbuf[e] > 0 THEN wire[e] = <<>> /\ counter[Peer(e)] = wbuf[e]
                      ELSE counter[Peer(e)] <= Len(wire[e])
    BY DEF PadInv
  <2>1. wbuf[e] = counter[Peer(e)] /\ wbuf[e] \in Nat /\ wire[e] = <<>>
    BY <1>2
  <2> QED BY <1>3, <2>1
<1>8. RoleInv
  BY <1>1, <1>2, PeerFacts DEF RoleInv
<1>9. StrangerInv
  <2>1. /\ ~initRead["server"] /\ decbuf["server"] = <<>> /\ rbuf["server"] = <<>>
        /\ wire["client"] = <<>> /\ rawSent["client"] = 0
        /\ counter["server"] = (IF padded THEN PadLen["client"] ELSE 0)
        /\ PadLen["client"] \in Nat
    BY <1>2, PeerFacts
  <2>2. (IF padded THEN PadLen["client"] ELSE 0) - counter["server"] = 0
    BY <2>1
  <2> DEFINE skipped == (IF padded THEN PadLen["client"] ELSE 0) - counter["server"]
  <2>3. /\ skipped >= 0 /\ Len(raw) + Len(rbuf["server"]) + Len(wire["client"]) + skipped = 0
        /\ raw = <<>> /\ rbuf["server"] = <<>> /\ DOMAIN raw = {} /\ DOMAIN rbuf["server"] = {} /\ DOMAIN wire["client"] = {}
    <3>1. skipped = 0
      BY <2>2
    <3> HIDE DEF skipped
    <3>2. Len(raw) = 0 /\ Len(rbuf["server"]) = 0 /\ Len(wire["client"]) = 0
      BY <1>1, <1>3, <2>1
    <3>3. skipped >= 0 /\ Len(raw) + Len(rbuf["server"]) + Len(wire["client"]) + skipped = 0
      BY <3>1, <3>2
    <3> QED BY <1>1, <1>3, <2>1, <3>3
  <2> QED BY <2>1, <2>3 DEF StrangerInv
<1>10. CutInv
  BY <1>1, <1>2, <1>3, PeerFacts DEF CutInv
<1>11. FlowInv
  <2> SUFFICES ASSUME NEW e \in Ends
               PROVE  \E c \in [1 .. Len(Coming(e)) -> Chunk] : Flow(e, c)
    BY DEF FlowInv, FlowOf
  <2>1. Coming(e) = <<>>
    <3>1. wire[e] = <<>> /\ rbuf[Peer(e)] = <<>> /\ counter[Peer(e)] \in Nat
      BY <1>2
    <3> DEFINE a == counter[Peer(e)]
    <3> HIDE DEF a
    <3>2. SubSeq(<<>>, a + 1, 0) = <<>>
      BY <3>1 DEF a
    <3>3. <<>> \o <<>> = <<>>
      OBVIOUS
    <3> QED BY <1>3, <3>1, <3>2, <3>3 DEF Coming, Visible, a
  <2> DEFINE c == [k \in 1 .. 0 |-> <<>>]
  <2>2. c \in [1 .. Len(Coming(e)) -> Chunk] /\ 1 .. 0 = {}
    BY <1>3, <2>1
  <2>3. /\ Decoder(Peer(e)) = At(0, 0, FALSE, coder) /\ Encoder(e) = At(0, 0, FALSE, coder)
        /\ sent[e] = 0
    <3>1. /\ Len(got[Peer(e)]) = 0 /\ Len(decbuf[Peer(e)]) = 0 /\ rIndex[Peer(e)] = 0
          /\ initRead[Peer(e)] = FALSE
          /\ sent[e] = 0 /\ wIndex[e] = 0 /\ ivKey[e] = TRUE
      BY <1>1, <1>2, <1>3
    <3>2. (~ivKey[e]) = FALSE
      BY <3>1
    <3>3. 0 + 0 = 0
      OBVIOUS
    <3> QED BY <3>1, <3>2, <3>3 DEF Decoder, Encoder
  <2>4. Linked(<<>>, c)
    BY <1>3 DEF Linked
  <2>5. Stream(<<>>, c, Decoder(Peer(e))) /\ To(<<>>, c, Decoder(Peer(e))) = Encoder(e)
    BY <2>3, <2>4 DEF Stream, To
  <2>6. Decoder(Peer(e)).base <= sent[e]
    BY <2>3
  <2>7. 1 .. Len(<<>>) = {}
    BY <1>3
  <2> HIDE DEF c
  <2>8. Flow(e, c)
    BY <2>1, <2>5, <2>6, <2>7 DEF Flow
  <2> QED BY <2>2, <2>8
<1> QED BY <1>4, <1>5, <1>6, <1>7, <1>8, <1>9, <1>10, <1>11 DEF IInv

LEMMA StaysPut == ASSUME IInv, UNCHANGED vars PROVE IInv'
<1>1. /\ UNCHANGED <<padded, wire, fin, wbuf, counter, pc, coder, ivKey, initRead, wIndex, rIndex>>
      /\ UNCHANGED <<rbuf, decbuf, sent, got, rawSent, raw>>
  BY DEF vars, connVars, coderVars, bufVars, userVars
<1>2. TypeOK'
  <2>1. ConnTypeOK'
    BY <1>1 DEF IInv, TypeOK, ConnTypeOK
  <2> QED BY <1>1, <2>1 DEF IInv, TypeOK
<1>3. Shape' /\ GotInv' /\ PadInv' /\ RoleInv'
  BY <1>1 DEF IInv, Shape, GotInv, PadInv, RoleInv
<1>4. StrangerInv'
  BY <1>1 DEF IInv, StrangerInv, Stranger
<1>5. CutInv'
  BY <1>1 DEF IInv, CutInv, Stranger
<1>6. FlowInv'
  <2> SUFFICES ASSUME NEW f \in Ends PROVE FlowOf(f)'
    BY DEF FlowInv
  <2>1. FlowOf(f)
    BY DEF IInv, FlowInv
  <2> QED BY <1>1, <2>1, FlowSame
<1> QED BY <1>2, <1>3, <1>4, <1>5, <1>6 DEF IInv

LEMMA StepKeeps == IInv /\ [Next]_vars => IInv'
<1> SUFFICES ASSUME IInv, [Next]_vars PROVE IInv'
  OBVIOUS
<1>1. CASE ReadRaw
  BY <1>1, ReadRawKeeps
<1>2. ASSUME NEW e \in Ends, Write(e) PROVE IInv'
  BY <1>2, WriteKeeps
<1>3. ASSUME NEW e \in Ends, WriteFails(e) PROVE IInv'
  BY <1>3, WriteFailsKeeps
<1>4. ASSUME NEW e \in Ends, WriteRaw(e) PROVE IInv'
  BY <1>4, RawServerKeeps, RawClientKeeps, PeerFacts
<1>5. ASSUME NEW e \in Ends, Reader(e) PROVE IInv'
  BY <1>5, ReadRestKeeps, ReadMoreKeeps, ReadEofKeeps DEF Reader
<1>6. ASSUME NEW e \in Ends, Close(e) PROVE IInv'
  BY <1>6, CloseKeeps
<1>7. ASSUME NEW e \in Ends, Finalize(e) PROVE IInv'
  BY <1>7, FinalizeKeeps
<1>8. CASE UNCHANGED vars
  BY <1>8, StaysPut
<1> QED BY <1>1, <1>2, <1>3, <1>4, <1>5, <1>6, <1>7, <1>8 DEF Next

LEMMA IInvHolds == Spec => []IInv
BY InitHolds, StepKeeps, PTL DEF Spec

-----------------------------------------------------------------------------
(* The steps of the tunnel                                                 *)

Numbered(c, n) == [k \in 1 .. n |-> <<c, k>>]

(* What T makes of what the ends have got                                  *)
Barred(g) == [c \in Ends |-> [k \in DOMAIN g[Peer(c)] |-> <<c, g[Peer(c)][k]>>]]

LEMMA BarredIs ==
    ASSUME NEW g \in [Ends -> Seq(Nat)], \A f \in Ends : \A k \in DOMAIN g[f] : g[f][k] = k
    PROVE  Barred(g) = [c \in Ends |-> Numbered(c, Len(g[Peer(c)]))]
<1> SUFFICES ASSUME NEW c \in Ends
             PROVE  [k \in DOMAIN g[Peer(c)] |-> <<c, g[Peer(c)][k]>>] = Numbered(c, Len(g[Peer(c)]))
  BY DEF Barred
<1> DEFINE x == g[Peer(c)]
<1>1. Peer(c) \in Ends
  BY PeerFacts
<1>2. x \in Seq(Nat) /\ \A k \in DOMAIN x : x[k] = k
  BY <1>1
<1> HIDE DEF x
<1>3. DOMAIN x = 1 .. Len(x)
  BY <1>2
<1> QED BY <1>2, <1>3 DEF Numbered, x

LEMMA NumberedOn ==
    ASSUME NEW c, NEW m \in Nat, NEW n \in Nat
    PROVE  /\ Numbered(c, m) \o [k \in 1 .. n |-> <<c, m + k>>] = Numbered(c, m + n)
           /\ Len(Numbered(c, m)) = m
BY DEF Numbered

(* A Read that delivers what was sent is a step of the tunnel, or, if it   *)
(* has nothing to deliver, none.                                           *)
LEMMA DeliverMaps ==
    ASSUME IInv, IInv', NEW e \in Ends, pc[e] = "open", NEW bytes \in Seq(Nat), Deliver(e, bytes),
           Len(got[e]) + Len(bytes) <= sent[Peer(e)], UNCHANGED <<sent, pc>>
    PROVE  T!Deliver(Peer(e)) \/ UNCHANGED T!vars
<1> DEFINE n == IF Len(bytes) > ReadMax THEN ReadMax ELSE Len(bytes)
           b == SubSeq(bytes, 0 + 1, n)
           x == got[e]
           m == Len(x)
           c == Peer(e)
           max == sent[c]
<1>1. c \in Ends /\ Peer(c) = e /\ \A d \in Ends : d # c => Peer(d) # e
  BY PeerFacts
<1>2. /\ x \in Seq(Nat) /\ got \in [Ends -> Seq(Nat)] /\ got' \in [Ends -> Seq(Nat)]
      /\ max \in Nat
      /\ \A f \in Ends : \A k \in DOMAIN got[f] : got[f][k] = k
      /\ \A f \in Ends : \A k \in DOMAIN got'[f] : got'[f][k] = k
  BY <1>1 DEF IInv, Shape, GotInv
<1>3. Len(bytes) \in Nat /\ n \in 0 .. Len(bytes) /\ n \in Nat /\ n <= Len(bytes)
  BY BoundFacts
<1>4. m \in Nat
  <2> HIDE DEF x
  <2> QED BY <1>2
<1>5. got' = [got EXCEPT ![e] = x \o b]
  BY DEF Deliver
<1> HIDE DEF n
<1>6. b \in Seq(Nat) /\ Len(b) = n
  <2>1. b \in Seq(Nat) /\ Len(b) = IF 0 <= n THEN n - 0 ELSE 0
    BY <1>3, SubSeqShape
  <2> HIDE DEF b
  <2> QED BY <1>3, <2>1
<1>7. Len(x \o b) = m + n
  <2> HIDE DEF x, b
  <2> QED BY <1>2, <1>6, SeqJoin
<1> HIDE DEF b
<1>8. /\ Len(got'[e]) = m + n /\ \A f \in Ends : f # e => got'[f] = got[f]
  BY <1>2, <1>5, <1>7
<1>9. /\ Barred(got) = [d \in Ends |-> Numbered(d, Len(got[Peer(d)]))]
      /\ Barred(got') = [d \in Ends |-> Numbered(d, Len(got'[Peer(d)]))]
  BY <1>2, BarredIs
<1>10. m + n <= max
  <2>1. m + Len(bytes) <= max /\ Len(bytes) \in Nat
    BY <1>3
  <2> DEFINE lb == Len(bytes)
  <2> HIDE DEF m, max, lb
  <2>2. m + lb <= max /\ lb \in Nat /\ m \in Nat /\ max \in Nat /\ n <= lb /\ n \in Nat
    BY <1>2, <1>3, <1>4, <2>1 DEF lb
  <2> QED BY <2>2
<1>11. CASE n = 0
  <2>1. \A f \in Ends : Len(got'[f]) = Len(got[f])
    <3> TAKE f \in Ends
    <3>1. m + n = Len(got[e])
      BY <1>4, <1>11
    <3> QED BY <1>8, <3>1
  <2>2. Barred(got') = Barred(got)
    BY <1>9, <2>1, PeerFacts
  <2> QED BY <2>2 DEF T!vars, Barred
<1>12. CASE n # 0
  <2>1. n \in 1 .. max - m
    <3> HIDE DEF m, max
    <3> QED BY <1>2, <1>3, <1>4, <1>10, <1>12
  <2>2. Barred(got)[c] = Numbered(c, m) /\ Len(Barred(got)[c]) = m
    <3>1. Barred(got)[c] = Numbered(c, m)
      BY <1>1, <1>9
    <3> HIDE DEF m, c
    <3> QED BY <1>4, <3>1, NumberedOn
  <2>3. Barred(got') = [Barred(got) EXCEPT ![c] = Numbered(c, m + n)]
    <3>1. \A d \in Ends : d # c => Numbered(d, Len(got'[Peer(d)])) = Numbered(d, Len(got[Peer(d)]))
      BY <1>1, <1>8, PeerFacts
    <3>2. Numbered(c, Len(got'[Peer(c)])) = Numbered(c, m + n)
      BY <1>1, <1>8
    <3> HIDE DEF c, m
    <3> QED BY <1>1, <1>9, <3>1, <3>2
  <2>4. Numbered(c, m + n) = Barred(got)[c] \o [k \in 1 .. n |-> T!Byte(c, Len(Barred(got)[c]) + k)]
    <3>1. Numbered(c, m) \o [k \in 1 .. n |-> <<c, m + k>>] = Numbered(c, m + n)
      <4> HIDE DEF c, m
      <4> QED BY <1>3, <1>4, NumberedOn
    <3> HIDE DEF c, m
    <3> QED BY <2>2, <3>1 DEF T!Byte
  <2>5. Barred(got') = [Barred(got) EXCEPT ![c] =
                           @ \o [k \in 1 .. n |-> T!Byte(c, Len(@) + k)]]
    BY <2>3, <2>4
  <2>6. n \in 1 .. sent[c] - Len(Barred(got)[c])
    BY <2>1, <2>2
  <2>7. T!Deliver(c)
    BY <1>1, <2>5, <2>6 DEF T!Deliver, Barred
  <2> QED BY <2>7
<1> QED BY <1>11, <1>12

LEMMA SendMaps == ASSUME IInv, NEW w \in Ends, Write(w) PROVE T!Send(w)
<1>1. PICK n \in 1 .. ChunkMax : sent' = [sent EXCEPT ![w] = @ + n]
  BY DEF Write
<1>2. UNCHANGED <<got, pc>>
  BY DEF Write
<1>3. sent \in [Ends -> Nat] /\ n \in Nat /\ n >= 1
  BY BoundFacts DEF IInv, Shape
<1>4. sent'[w] > sent[w] /\ sent' = [sent EXCEPT ![w] = sent'[w]]
  BY <1>1, <1>3
<1> QED BY <1>2, <1>4 DEF T!Send

LEMMA EndMaps ==
    ASSUME IInv, NEW e \in Ends, NEW p \in {"raw", "closed"}, pc[e] # "closed",
           pc' = [pc EXCEPT ![e] = p], UNCHANGED <<sent, got>>
    PROVE  T!End(Peer(e)) \/ UNCHANGED T!vars
<1>1. pc \in [Ends -> {"open", "stranger", "raw", "closed"}]
  BY DEF IInv, Shape
<1>2. /\ Peer(e) \in Ends /\ Peer(Peer(e)) = e
      /\ \A d \in Ends : d # Peer(e) => Peer(d) # e
      /\ \A d \in Ends : Peer(d) \in Ends
  BY PeerFacts
<1>3. pc'[e] = p /\ \A f \in Ends : f # e => pc'[f] = pc[f]
  BY <1>1
<1> DEFINE over(q) == [d \in Ends |-> q[Peer(d)] \in {"raw", "closed"}]
<1>4. CASE pc[e] = "raw"
  <2>1. \A d \in Ends : pc'[Peer(d)] \in {"raw", "closed"} <=> pc[Peer(d)] \in {"raw", "closed"}
    BY <1>2, <1>3, <1>4
  <2>2. over(pc') = over(pc)
    BY <2>1
  <2> QED BY <2>2 DEF T!vars
<1>5. CASE pc[e] # "raw"
  <2>1. ~over(pc)[Peer(e)]
    BY <1>2, <1>5
  <2>2. over(pc') = [over(pc) EXCEPT ![Peer(e)] = TRUE]
    <3>1. pc'[Peer(Peer(e))] \in {"raw", "closed"}
      BY <1>2, <1>3
    <3>2. \A d \in Ends : d # Peer(e) =>
              (pc'[Peer(d)] \in {"raw", "closed"} <=> pc[Peer(d)] \in {"raw", "closed"})
      BY <1>2, <1>3
    <3>3. \A d \in Ends : (pc'[Peer(d)] \in {"raw", "closed"}) =
                              IF d = Peer(e) THEN TRUE ELSE (pc[Peer(d)] \in {"raw", "closed"})
      <4> TAKE d \in Ends
      <4>1. CASE d = Peer(e)
        <5>1. (pc'[Peer(d)] \in {"raw", "closed"}) = TRUE
          BY <3>1, <4>1
        <5> QED BY <4>1, <5>1
      <4>2. CASE d # Peer(e)
        <5>1. (pc'[Peer(d)] \in {"raw", "closed"}) = (pc[Peer(d)] \in {"raw", "closed"})
          BY <3>2, <4>2
        <5> QED BY <4>2, <5>1, Zenon
      <4> QED BY <4>1, <4>2
    <3>4. over(pc') = [d \in Ends |-> IF d = Peer(e) THEN TRUE
                                      ELSE (pc[Peer(d)] \in {"raw", "closed"})]
      BY <3>3, Zenon
    <3>5. [over(pc) EXCEPT ![Peer(e)] = TRUE] =
              [d \in Ends |-> IF d = Peer(e) THEN TRUE
                              ELSE (pc[Peer(d)] \in {"raw", "closed"})]
      BY <1>2
    <3> QED BY <3>4, <3>5
  <2> QED BY <1>2, <2>1, <2>2 DEF T!End
<1> QED BY <1>4, <1>5

LEMMA ReadMaps ==
    ASSUME IInv, IInv', NEW e \in Ends, Reader(e)
    PROVE  T!Deliver(Peer(e)) \/ T!End(Peer(e)) \/ UNCHANGED T!vars
<1>1. CASE ReadRest(e)
  <2>1. /\ pc[e] = "open" /\ Deliver(e, decbuf[e]) /\ decbuf[e] # <<>>
        /\ UNCHANGED <<sent, pc>>
    BY <1>1 DEF ReadRest
  <2>2. decbuf[e] \in Seq(Nat) /\ FlowOf(Peer(e))
    BY PeerFacts DEF IInv, Shape, FlowInv
  <2>3. ~Stranger
    BY <2>1, StrangerReader DEF IInv, StrangerInv
  <2>4. rawSent[Peer(e)] = 0
    BY <2>1, <2>3, OpenPeer
  <2>5. Len(got[e]) + Len(decbuf[e]) <= sent[Peer(e)]
    BY <2>1, <2>2, <2>4, DecodedWasSent
  <2> QED BY <2>1, <2>2, <2>5, DeliverMaps
<1>2. CASE ReadMore(e) /\ ~Stranger
  <2>1. PICK k \in 1 .. Len(wire[Peer(e)]) :
               /\ Get(e, k)
               /\ \/ ReadsOn(e) /\ UNCHANGED <<sent, got, decbuf, pc>>
                  \/ LET units == rbuf[e] \o Filtered(e, k)
                     IN  TakesFrames(e, units, Decoded(e, units))
    BY <1>2, ReadMoreIs
  <2>2. CASE UNCHANGED <<sent, got, decbuf, pc>>
    BY <2>2 DEF T!vars
  <2>3. CASE LET units == rbuf[e] \o Filtered(e, k)
             IN  TakesFrames(e, units, Decoded(e, units))
    <3> DEFINE units == rbuf[e] \o Filtered(e, k)
               d == Decoded(e, units)
               bytes == d.out
    <3>1. TakesFrames(e, units, d)
      BY <2>3
    <3>2. bytes \in Seq(Nat) /\ Len(got[e]) + Len(bytes) <= sent[Peer(e)]
      BY <2>1, <3>1, ReadsFrames
    <3>3. pc[e] = "open" /\ Deliver(e, bytes) /\ UNCHANGED <<sent, pc>>
      BY <3>1 DEF TakesFrames
    <3> HIDE DEF bytes
    <3> QED BY <3>2, <3>3, DeliverMaps
  <2> QED BY <2>1, <2>2, <2>3
<1>3. CASE ReadMore(e) /\ Stranger
  <2>1. e = "server" /\ pc[e] = "open"
    BY <1>3, StrangerReader DEF ReadMore
  <2>2. UNCHANGED <<sent, got>> /\ (pc' = pc \/ pc' = [pc EXCEPT ![e] = "raw"])
    BY <1>3, <2>1, StrangerMore
  <2>3. CASE pc' = pc
    BY <2>2, <2>3 DEF T!vars
  <2>4. CASE pc' = [pc EXCEPT ![e] = "raw"]
    BY <2>1, <2>2, <2>4, EndMaps
  <2> QED BY <2>2, <2>3, <2>4
<1>4. CASE ReadEof(e)
  <2>1. /\ pc[e] = "open" /\ UNCHANGED <<sent, got>>
        /\ pc' = [pc EXCEPT ![e] = "raw"] \/ pc' = [pc EXCEPT ![e] = "closed"]
    BY <1>4 DEF ReadEof, userVars
  <2> QED BY <2>1, EndMaps
<1> QED BY <1>1, <1>2, <1>3, <1>4 DEF Reader

LEMMA StepMaps == IInv /\ IInv' /\ [Next]_vars => [T!Next]_(T!vars)
<1> SUFFICES ASSUME IInv, IInv', [Next]_vars PROVE [T!Next]_(T!vars)
  OBVIOUS
<1>1. CASE ReadRaw
  BY <1>1 DEF ReadRaw, T!vars
<1>2. ASSUME NEW e \in Ends, Write(e) PROVE T!Next
  BY <1>2, SendMaps DEF T!Next
<1>3. ASSUME NEW e \in Ends, pc[e] # "closed", pc' = [pc EXCEPT ![e] = "closed"],
             UNCHANGED <<sent, got>>
      PROVE  T!Next \/ UNCHANGED T!vars
  <2>1. Peer(e) \in Ends
    BY PeerFacts
  <2>2. T!End(Peer(e)) \/ UNCHANGED T!vars
    BY <1>3, EndMaps
  <2> QED BY <2>1, <2>2 DEF T!Next
<1>4. ASSUME NEW e \in Ends, WriteFails(e) \/ Close(e)
      PROVE  T!Next \/ UNCHANGED T!vars
  <2>1. /\ pc[e] # "closed" /\ pc' = [pc EXCEPT ![e] = "closed"] /\ UNCHANGED <<sent, got>>
    BY <1>4 DEF WriteFails, Close, userVars
  <2> QED BY <1>3, <2>1
<1>5. ASSUME NEW e \in Ends, WriteRaw(e) \/ Finalize(e) PROVE UNCHANGED T!vars
  BY <1>5 DEF WriteRaw, Finalize, userVars, T!vars
<1>6. ASSUME NEW e \in Ends, Reader(e) PROVE T!Next \/ UNCHANGED T!vars
  <2>1. Peer(e) \in Ends
    BY PeerFacts
  <2> QED BY <1>6, <2>1, ReadMaps DEF T!Next
<1>7. CASE UNCHANGED vars
  BY <1>7 DEF vars, userVars, T!vars
<1> QED BY <1>1, <1>2, <1>4, <1>5, <1>6, <1>7 DEF Next

-----------------------------------------------------------------------------
(* The theorems                                                            *)

(* Every variable keeps its type: no coder's index passes its bound, and   *)
(* no end writes or gets more than there is.                               *)
THEOREM TypeCorrect == Spec => []TypeOK
<1>1. IInv => TypeOK
  BY DEF IInv
<1> QED BY <1>1, IInvHolds, PTL

(* As long as nothing was decoded, the redirector reads what the peer sent *)
(* from the first byte on and without a gap: what DisableDecode gives back *)
(* of the bytes the mix layer had taken comes first.                       *)
THEOREM RedirectedFromTheFirst == Spec => []RawFromTheFirst
<1>1. IInv => RawFromTheFirst
  <2> DEFINE gone == IF rawSent["client"] > 0 /\ padded THEN PadLen["client"] ELSE 0
  <2> SUFFICES ASSUME IInv, ~initRead["server"], NEW k \in DOMAIN raw PROVE raw[k].k = gone + k
    BY DEF RawFromTheFirst
  <2>1. raw \in Seq(AnyUnit) /\ rawSent["client"] \in Nat /\ counter["server"] \in Nat
        /\ PadLen["client"] \in Nat
    <3>1. rawSent["client"] \in 0 .. MaxRaw /\ MaxRaw \in Nat
      BY BoundFacts, PeerFacts DEF IInv, TypeOK
    <3> QED BY <3>1, BoundFacts, PeerFacts, SMTT(30) DEF IInv, Shape
  <2>2. k \in 1 .. Len(raw) /\ k \in Nat /\ Len(raw) \in Nat /\ raw # <<>>
    BY <2>1
  <2>3. CASE Stranger
    <3>1. /\ Gone \in Nat /\ Len(rbuf["server"]) \in Nat /\ Len(wire["client"]) \in Nat
          /\ Len(raw) + Len(rbuf["server"]) + Len(wire["client"]) + Gone = rawSent["client"]
          /\ counter["server"] > 0 => raw = <<>>
          /\ \A j \in 1 .. Len(raw) : raw[j].k = Gone + j
      BY <2>3, StrangerFacts
    <3>2. rawSent["client"] > 0
      <4> DEFINE a == Len(raw)
                 b == Len(rbuf["server"])
                 c == Len(wire["client"])
                 n == rawSent["client"]
                 g == Gone
      <4>1. k \in 1 .. a /\ a \in Nat /\ b \in Nat /\ c \in Nat /\ g \in Nat /\ n \in Nat
            /\ a + b + c + g = n
        BY <2>1, <2>2, <3>1
      <4> HIDE DEF a, b, c, n, g
      <4>2. n > 0
        BY <4>1
      <4> QED BY <4>2 DEF n
    <3>3. counter["server"] = 0
      BY <2>1, <2>2, <3>1
    <3>4. gone = Gone
      BY <2>1, <3>2, <3>3 DEF Gone
    <3> QED BY <2>2, <3>1, <3>4
  <2>4. CASE ~Stranger
    <3>1. ~(rawSent["client"] > 0)
      BY <2>4 DEF Stranger
    <3>2. raw[k].k = k
      BY <2>4 DEF IInv, CutInv
    <3> QED BY <2>2, <3>1, <3>2
  <2> QED BY <2>3, <2>4
<1> QED BY <1>1, IInvHolds, PTL

(* A client that has the key is handed to the redirector only when it has  *)
(* closed its connection.                                                  *)
OnlyStrangersRedirected == pc["server"] = "raw" => pc["client"] \in {"stranger", "closed"}

THEOREM KeyHoldersAreServed == Spec => []OnlyStrangersRedirected
<1>1. IInv => OnlyStrangersRedirected
  BY DEF IInv, TypeOK, RoleInv, OnlyStrangersRedirected
<1> QED BY <1>1, IInvHolds, PTL

(* A session through the mix layer is the FIFO tunnel: whatever the stream *)
(* makes of the frames, each byte is decoded with the state of the coder   *)
(* it was encoded with, once and in order.                                 *)
THEOREM MixLayerImplementsTunnel == Spec => IsTunnel
<1>1. Init => T!Init
  <2> SUFFICES ASSUME Init PROVE T!Init
    OBVIOUS
  <2>1. /\ sent = [e \in Ends |-> 0] /\ got = [e \in Ends |-> <<>>]
        /\ \E c \in {"open", "stranger"} : pc = [e \in Ends |-> IF e = "client" THEN c ELSE "open"]
    BY DEF Init
  <2>2. \A e \in Ends : Peer(e) \in Ends /\ got[Peer(e)] = <<>> /\ pc[Peer(e)] \notin {"raw", "closed"}
    BY <2>1, PeerFacts
  <2>3. [k \in DOMAIN <<>> |-> <<>>] = <<>> /\ DOMAIN <<>> = {}
    OBVIOUS
  <2>4. \A e \in Ends : [k \in DOMAIN got[Peer(e)] |-> <<e, got[Peer(e)][k]>>] = <<>>
    BY <2>2, <2>3
  <2>5. \A e \in Ends : (pc[Peer(e)] \in {"raw", "closed"}) = FALSE
    BY <2>2
  <2>6. [e \in Ends |-> pc[Peer(e)] \in {"raw", "closed"}] = [c \in Ends |-> FALSE]
    BY <2>5, Zenon
  <2>7. [e \in Ends |-> [k \in DOMAIN got[Peer(e)] |-> <<e, got[Peer(e)][k]>>]] =
            [c \in Ends |-> <<>>]
    BY <2>4
  <2> QED BY <2>1, <2>6, <2>7 DEF T!Init
<1> QED BY <1>1, StepMaps, IInvHolds, PTL DEF Spec, T!Spec, IsTunnel
=============================================================================
