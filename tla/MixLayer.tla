------------------------------- MODULE MixLayer -------------------------------
(***************************************************************************)
(* mix_layer/crypt_layer.go and crypt_layer_utils.go: MixLayerAdaptor on   *)
(* both ends of a connection (Exchange).  A Write is encoded by a coder    *)
(* with a state (mix_layer/xor, or none) and travels as one frame: length, *)
(* its mac, the vector in the first frame only, the data and the mac of    *)
(* the whole.  A Read takes what arrived, whatever the stream made of the  *)
(* frames, and decodes every frame that is complete.                       *)
(*                                                                         *)
(* The server may also be called by a stranger without the key.  A failed  *)
(* handshake then leads to DisableDecode and DisableEncode, and the        *)
(* redirector reads and writes the connection as it is.                    *)
(***************************************************************************)
EXTENDS Exchange, FiniteSetsExt

CONSTANTS
    ChunkMax,    \* bytes a Write puts into one frame
    ReadMax,     \* bytes the buffer of a Read holds
    MaxSent,     \* MaxSent[e]: bound on the bytes end e writes
    MaxRaw,      \* bound on the bytes a stranger or the redirector sends
    Wrap,        \* the index of xor at which it begins again (100)
    KeyLen       \* length of its key (20)

ASSUME BoundAssumption ==
    /\ ChunkMax \in Nat \ {0} /\ ReadMax \in Nat \ {0}
    /\ MaxSent \in [Ends -> Nat] /\ MaxRaw \in Nat
    /\ Wrap \in Nat /\ KeyLen \in Nat \ {0}

VARIABLES
    coder,       \* the coder in use
    pc,          \* pc[e]: decoding, raw, closed, or a stranger
    ivKey,       \* ivKey[e]: the vector of e has still to be sent
    initRead,    \* initRead[e]: the decoder of e has its vector
    wIndex,      \* wIndex[e]: state of the encoder of e
    rIndex,      \* rIndex[e]: state of its decoder
    rbuf,        \* rbuf[e]: units read that are not decoded
    decbuf,      \* decbuf[e]: bytes decoded that are not delivered
    sent,        \* sent[e]: bytes the user of e wrote
    got,         \* got[e]: bytes the user of e read
    rawSent,     \* rawSent[e]: units e sent without a frame
    raw          \* what the redirector read

coderVars == <<coder, ivKey, initRead, wIndex, rIndex>>
bufVars == <<rbuf, decbuf>>
userVars == <<sent, got, rawSent, raw>>
vars == <<connVars, pc, coderVars, bufVars, userVars>>

(* An encoded byte <<n, k>> is the n-th byte of a stream under key k.  The *)
(* vector is the writer's own, so a decoder without it cannot decode.      *)
Unit(kind, frame, k) == [kind |-> kind, frame |-> frame, k |-> k]
NoFrame == [iv |-> FALSE, data |-> <<>>]
RawUnit(k) == Unit("raw", NoFrame, k)

(* A byte that was decoded wrongly                                         *)
Garbled == 0

TypeOK ==
    /\ ConnTypeOK
    /\ coder \in {"none", "xor"}
    /\ pc["client"] \in {"open", "stranger", "closed"}
    /\ pc["server"] \in {"open", "raw", "closed"}
    /\ ivKey \in [Ends -> BOOLEAN] /\ initRead \in [Ends -> BOOLEAN]
    /\ wIndex \in [Ends -> 0 .. Wrap] /\ rIndex \in [Ends -> 0 .. Wrap]
    /\ rawSent \in [Ends -> 0 .. MaxRaw]
    /\ \A e \in Ends : /\ sent[e] \in 0 .. MaxSent[e]
                       /\ got[e] \in Seq(Garbled .. MaxSent[Peer(e)])
                       /\ decbuf[e] \in Seq(Garbled .. MaxSent[Peer(e)])

(* CryptWrap on both ends                                                  *)
Init ==
    /\ ConnInit
    /\ coder \in {"none", "xor"}
    /\ pc \in {[e \in Ends |-> IF e = "client" THEN c ELSE "open"] : c \in {"open", "stranger"}}
    /\ ivKey = [e \in Ends |-> TRUE] /\ initRead = [e \in Ends |-> FALSE]
    /\ wIndex = [e \in Ends |-> 0] /\ rIndex = wIndex /\ sent = wIndex /\ rawSent = wIndex
    /\ rbuf = [e \in Ends |-> <<>>] /\ decbuf = rbuf /\ got = rbuf
    /\ raw = <<>>

-----------------------------------------------------------------------------
(* The coders                                                              *)

(* The key of the byte i places after index p                              *)
KeyAt(p, i) == IF coder = "none" THEN 0 ELSE (p + i) % KeyLen

(* xor's index after n bytes: it begins again between two calls only.      *)
Advance(p, n) == IF coder = "none" \/ p + n > Wrap THEN 0 ELSE p + n

Encode(p, bytes) == [i \in DOMAIN bytes |-> <<bytes[i], KeyAt(p, i)>>]

Decode(p, data) ==
    [i \in DOMAIN data |-> IF data[i][2] = KeyAt(p, i) THEN data[i][1] ELSE Garbled]

-----------------------------------------------------------------------------
(* Frames                                                                  *)

HeadLen == 2             \* the length and its mac (4 bytes each)
IvLen(iv) == IF iv THEN 1 ELSE 0
Total(frame) == HeadLen + IvLen(frame.iv) + Len(frame.data) + 1

EncodeHeadFrame(frame) == [k \in 1 .. Total(frame) |-> Unit("frame", frame, k)]

(* The bytes begin with the length of a frame and its mac.                 *)
FrameBegins(units) == units[1].kind = "frame" /\ units[1].k = 1

(* The first frame is complete, or it is certain that there is none.       *)
Judged(units) ==
    /\ units # <<>>
    /\ Len(units) >= IF FrameBegins(units) THEN Total(units[1].frame) ELSE HeadLen

(* Bug: one frame a Read.                                                  *)
BugComplete(units) ==
    {n \in DOMAIN units : n = Total(units[1].frame)}

(* The places where a complete frame ends                                  *)
Complete(units) ==
    {n \in DOMAIN units : units[n].k = Total(units[n].frame)}

Used(units) == Max(Complete(units) \cup {0})

(* Bug: every frame has room for a vector.                                 *)
BugDecodeFrame(state, frame) ==
    [out   |-> state.out \o (IF frame.iv THEN Decode(state.index, frame.data)
                             ELSE [i \in DOMAIN frame.data |-> Garbled]),
     index |-> Advance(state.index, Len(frame.data)),
     init  |-> TRUE]

(* DecodeHeadFrame, InitRead for the first frame, and Decode: the vector   *)
(* is expected until the decoder has it.                                   *)
DecodeFrame(state, frame) ==
    [out   |-> state.out \o (IF frame.iv # state.init THEN Decode(state.index, frame.data)
                             ELSE [i \in DOMAIN frame.data |-> Garbled]),
     index |-> Advance(state.index, Len(frame.data)),
     init  |-> TRUE]

(* The complete frames among the units, decoded one after the other        *)
Decoding(e, units) ==
    LET state[n \in 0 .. Len(units)] ==
            IF n = 0 THEN [out |-> <<>>, index |-> rIndex[e], init |-> initRead[e]]
            ELSE IF n \in Complete(units) THEN DecodeFrame(state[n - 1], units[n].frame)
            ELSE state[n - 1]
    IN  state

Decoded(e, units) == Decoding(e, units)[Len(units)]

-----------------------------------------------------------------------------
(* Write                                                                   *)

Framed(e, n) == [iv |-> ivKey[e],
                 data |-> Encode(wIndex[e], [i \in 1 .. n |-> sent[e] + i])]

(* Bug: the vector is not forgotten after the first frame.                 *)
BugWrite(e) ==
    /\ pc[e] = "open"
    /\ \E n \in 1 .. ChunkMax :
           /\ sent[e] + n <= MaxSent[e]
           /\ Put(e, EncodeHeadFrame(Framed(e, n)))
           /\ sent' = [sent EXCEPT ![e] = @ + n]
           /\ wIndex' = [wIndex EXCEPT ![e] = Advance(@, n)]
    /\ UNCHANGED <<fin, pc, coder, ivKey, initRead, rIndex, bufVars, got, rawSent, raw>>

Write(e) ==
    /\ pc[e] = "open"
    /\ \E n \in 1 .. ChunkMax :
           /\ sent[e] + n <= MaxSent[e]
           /\ Put(e, EncodeHeadFrame(Framed(e, n)))
           /\ sent' = [sent EXCEPT ![e] = @ + n]
           /\ wIndex' = [wIndex EXCEPT ![e] = Advance(@, n)]
    /\ ivKey' = [ivKey EXCEPT ![e] = FALSE]
    /\ UNCHANGED <<fin, pc, coder, initRead, rIndex, bufVars, got, rawSent, raw>>

(* The connection breaks within a frame; its user closes it.               *)
WriteFails(e) ==
    /\ pc[e] = "open" /\ sent[e] < MaxSent[e]
    /\ LET units == WithPadding(e, EncodeHeadFrame(Framed(e, 1)))
       IN  \E k \in 0 .. Len(units) - 1 :
               wire' = [wire EXCEPT ![e] = @ \o SubSeq(units, 1, k)]
    /\ pc' = [pc EXCEPT ![e] = "closed"]
    /\ CloseConn(e)
    /\ UNCHANGED <<coderVars, bufVars, userVars>>

(* With encoding disabled, and from a stranger, bytes go out as they are.  *)
(* The stranger knows nothing of a padding.                                *)
WriteRaw(e) ==
    /\ pc[e] \in {"raw", "stranger"} /\ rawSent[e] < MaxRaw
    /\ rawSent' = [rawSent EXCEPT ![e] = @ + 1]
    /\ LET unit == <<RawUnit(rawSent[e] + 1)>>
       IN  IF pc[e] = "raw" THEN Put(e, unit) /\ UNCHANGED fin
           ELSE /\ wire' = [wire EXCEPT ![e] = @ \o unit]
                /\ UNCHANGED <<padded, fin, wbuf, counter>>
    /\ UNCHANGED <<pc, coderVars, bufVars, sent, got, raw>>

-----------------------------------------------------------------------------
(* Read                                                                    *)

(* The buffer of the Read is filled and the rest stays in decbuf.          *)
Deliver(e, bytes) ==
    LET n == IF Len(bytes) > ReadMax THEN ReadMax ELSE Len(bytes)
    IN  /\ got' = [got EXCEPT ![e] = @ \o SubSeq(bytes, 1, n)]
        /\ decbuf' = [decbuf EXCEPT ![e] = SubSeq(bytes, n + 1, Len(bytes))]

ReadRest(e) ==
    /\ pc[e] = "open" /\ decbuf[e] # <<>>
    /\ Deliver(e, decbuf[e])
    /\ UNCHANGED <<connVars, pc, coderVars, rbuf, sent, rawSent, raw>>

(* One Read of the connection, and what follows from it: too little for a  *)
(* frame, every complete frame decoded, or bytes that are no frame.  The   *)
(* server's handshake answers those with the redirector, the client closes.*)
ReadMore(e) ==
    /\ pc[e] = "open" /\ decbuf[e] = <<>>
    /\ \E k \in 1 .. Len(wire[Peer(e)]) :
       \E units \in {rbuf[e] \o Filtered(e, k)} : \E d \in {Decoded(e, units)} :
               /\ Get(e, k)
               /\ \/ /\ ~Judged(units)
                     /\ rbuf' = [rbuf EXCEPT ![e] = units]
                     /\ UNCHANGED <<fin, pc, initRead, rIndex, decbuf, got>>
                  \/ /\ Judged(units) /\ FrameBegins(units)
                     /\ rbuf' = [rbuf EXCEPT ![e] =
                                    SubSeq(units, Used(units) + 1, Len(units))]
                     /\ initRead' = [initRead EXCEPT ![e] = d.init]
                     /\ rIndex' = [rIndex EXCEPT ![e] = d.index]
                     /\ Deliver(e, d.out)
                     /\ UNCHANGED <<fin, pc>>
                  \/ /\ units # <<>> /\ ~FrameBegins(units)
                     /\ rbuf' = [rbuf EXCEPT ![e] = units]
                     /\ pc' = [pc EXCEPT ![e] = IF e = "server" THEN "raw" ELSE "closed"]
                     /\ fin' = [fin EXCEPT ![e] = @ \/ (e = "client" /\ ~padded)]
                     /\ UNCHANGED <<initRead, rIndex, decbuf, got>>
    /\ UNCHANGED <<coder, ivKey, wIndex, sent, rawSent, raw>>

(* The end of the stream, at the end of a frame or within one: during the  *)
(* handshake the server's connection goes to the redirector.               *)
ReadEof(e) ==
    /\ pc[e] = "open" /\ decbuf[e] = <<>> /\ AtEof(e)
    /\ \/ /\ e = "server"
          /\ pc' = [pc EXCEPT ![e] = "raw"] /\ UNCHANGED connVars
       \/ /\ pc' = [pc EXCEPT ![e] = "closed"]
          /\ CloseConn(e) /\ UNCHANGED wire
    /\ UNCHANGED <<coderVars, bufVars, userVars>>

(* Bug: what was read for the mix layer is not given back.                 *)
BugReadRaw ==
    /\ pc["server"] = "raw"
    /\ \E k \in 1 .. Len(wire["client"]) :
           /\ Get("server", k)
           /\ raw' = raw \o Filtered("server", k)
           /\ UNCHANGED rbuf
    /\ UNCHANGED <<fin, pc, coderVars, decbuf, sent, got, rawSent>>

(* Read with decoding disabled: first what the mix layer holds undecoded,  *)
(* then the connection.                                                    *)
ReadRaw ==
    /\ pc["server"] = "raw"
    /\ \/ /\ rbuf["server"] # <<>>
          /\ LET n == IF Len(rbuf["server"]) > ReadMax THEN ReadMax ELSE Len(rbuf["server"])
             IN  /\ raw' = raw \o SubSeq(rbuf["server"], 1, n)
                 /\ rbuf' = [rbuf EXCEPT !["server"] = SubSeq(@, n + 1, Len(@))]
          /\ UNCHANGED connVars
       \/ /\ rbuf["server"] = <<>>
          /\ \E k \in 1 .. Len(wire["client"]) :
                 /\ Get("server", k)
                 /\ raw' = raw \o Filtered("server", k)
          /\ UNCHANGED <<fin, rbuf>>
    /\ UNCHANGED <<pc, coderVars, decbuf, sent, got, rawSent>>

(* The user, the redirector or the stranger is done.  A stranger's own     *)
(* connection is a plain one.                                              *)
Close(e) ==
    /\ pc[e] # "closed"
    /\ pc' = [pc EXCEPT ![e] = "closed"]
    /\ IF pc[e] = "stranger"
       THEN fin' = [fin EXCEPT ![e] = TRUE] /\ UNCHANGED <<padded, wbuf, counter>>
       ELSE CloseConn(e)
    /\ UNCHANGED <<wire, coderVars, bufVars, userVars>>

(* The runtime closes a connection nobody refers to, some time.            *)
Finalize(e) ==
    /\ pc[e] = "closed" /\ ~fin[e]
    /\ fin' = [fin EXCEPT ![e] = TRUE]
    /\ UNCHANGED <<padded, wire, wbuf, counter, pc, coderVars, bufVars, userVars>>

Reader(e) == ReadRest(e) \/ ReadMore(e) \/ ReadEof(e)

Next ==
    \/ ReadRaw
    \/ \E e \in Ends : \/ Write(e) \/ WriteFails(e) \/ WriteRaw(e) \/ Reader(e)
                       \/ Close(e) \/ Finalize(e)

Spec == Init /\ [][Next]_vars

(* Pipe reads an open connection again and again; nobody has to write or   *)
(* to close, and the runtime has not to finalize.                          *)
FairSpec == Spec /\ \A e \in Ends : WF_vars(Reader(e))

-----------------------------------------------------------------------------
(* A session through the mix layer is the FIFO tunnel Tunnel promises.     *)
T == INSTANCE Tunnel WITH
         Chan <- Ends,
         got <- [e \in Ends |-> [k \in DOMAIN got[Peer(e)] |-> <<e, got[Peer(e)][k]>>]],
         ended <- [e \in Ends |-> pc[Peer(e)] \in {"raw", "closed"}]

IsTunnel == T!Spec

(* On a connection nobody closes all that was written is read: no frame    *)
(* that is complete waits in rbuf, and no byte in decbuf, for the next to  *)
(* arrive, and no client with the key is handed to the redirector.         *)
AllDelivered ==
    \A e \in Ends : sent[e] > 0 ~> \/ Len(got[Peer(e)]) = sent[e]
                                   \/ \E f \in Ends : pc[f] \in {"closed", "stranger"}

(* README: the redirector passes the traffic on unmodified.  While nothing *)
(* was decoded it reads what the peer sent from the first byte on, without *)
(* gap; only a padded connection takes a stranger's first bytes for        *)
(* padding.                                                                *)
RawFromTheFirst ==
    LET gone == IF rawSent["client"] > 0 /\ padded THEN PadLen["client"] ELSE 0
    IN  ~initRead["server"] => \A k \in DOMAIN raw : raw[k].k = gone + k

(* The other end reads the end of the stream after a close.  A padded      *)
(* connection is not closed, and its peer waits.                           *)
CloseIsRead ==
    \A e \in Ends : pc[e] = "closed" /\ ~padded ~> pc[Peer(e)] # "open"

(* README: the redirector passes on what came, unmodified.  Not checked by *)
(* a run: a padded connection takes a stranger's first bytes for padding.  *)
Unmodified == ~initRead["server"] => \A k \in DOMAIN raw : raw[k].k = k
=============================================================================
