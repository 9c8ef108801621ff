---------------------------- MODULE PipeProofs ----------------------------
(***************************************************************************)
(* For any number of sessions, any buffers, chunk, window and traffic: no  *)
(* two goroutines of Pipe share a buffer, every stream is delivered        *)
(* intact, the directions end in turn, and Pipe implements Tunnel.         *)
(***************************************************************************)
EXTENDS Pipe, TLAPS

Piping(c) == phase[c[1]] = "piping"

(* The goroutines of a session exist while it is piping, and only then.    *)
PhaseInv ==
    \A c \in Chan : /\ phase[c[1]] = "new" <=> pc[c] = "idle"
                    /\ phase[c[1]] = "closed" => pc[c] = "ended"

(* A session in Pipe owns its two buffers until Pipe returns, even when    *)
(* one of its goroutines has ended.                                        *)
OwnInv ==
    \A c, e \in Chan : /\ Piping(c) => bufOf[c] \in Buffers \ free
                       /\ Piping(c) /\ Piping(e) /\ c # e => bufOf[c] # bufOf[e]

(* What is delivered, what waits in the buffer and what is unread make up  *)
(* what was sent.                                                          *)
CountInv ==
    \A c \in Chan :
        /\ Len(got[c]) <= read[c] /\ read[c] <= sent[c]
        /\ pc[c] = "idle" => read[c] = 0
        /\ pc[c] \in {"idle", "read", "timeout"} => Len(got[c]) = read[c]
        /\ pc[c] = "write" => /\ index[c] < rcnt[c]
                              /\ Len(got[c]) + rcnt[c] = read[c] + index[c]

(* The buffer of a goroutine that writes holds the last chunk it read.     *)
ChunkInv ==
    \A c \in Chan : pc[c] = "write" =>
        \A i \in 1 .. rcnt[c] : content[bufOf[c]][i] = T!Byte(c, read[c] - rcnt[c] + i)

IntactInv == \A c \in Chan : \A i \in 1 .. Len(got[c]) : got[c][i] = T!Byte(c, i)

(* The context is cancelled only by a goroutine that ends.                 *)
DoneInv == \A c \in Chan : done[c[1]] => pc[c] = "ended" \/ pc[Other(c)] = "ended"

IInv == TypeOK /\ PhaseInv /\ OwnInv /\ CountInv /\ ChunkInv /\ IntactInv /\ DoneInv

USE BoundAssumption, NoneAssumption

LEMMA ChanFacts ==
    /\ \A c \in Chan : c[1] \in Sessions /\ c[2] \in Dir /\ c = <<c[1], c[2]>>
    /\ \A s \in Sessions, d \in Dir : <<s, d>> \in Chan
    /\ \A c \in Chan : Other(c) \in Chan /\ Other(c)[1] = c[1]
    /\ \A c \in Chan : c = <<c[1], "up">> \/ c = <<c[1], "down">>
BY DEF Chan, Dir, Other

LEMMA CopyingIsPiping == ASSUME IInv, NEW c \in Chan, Copying(c) PROVE Piping(c)
<1>1. phase[c[1]] \in {"new", "piping", "closed"}
  BY ChanFacts DEF IInv, TypeOK
<1>2. phase[c[1]] # "new" /\ phase[c[1]] # "closed"
  BY DEF IInv, PhaseInv, Copying
<1> QED BY <1>1, <1>2 DEF Piping

LEMMA InitIInv == Init => IInv
<1> SUFFICES ASSUME Init PROVE IInv
  OBVIOUS
<1> USE DEF Init
<1>1. TypeOK
  BY DEF TypeOK
<1>2. PhaseInv /\ OwnInv
  BY ChanFacts DEF PhaseInv, OwnInv, Piping
<1>3. CountInv /\ ChunkInv /\ IntactInv
  BY DEF CountInv, ChunkInv, IntactInv
<1>4. DoneInv
  BY ChanFacts DEF DoneInv
<1> QED BY <1>1, <1>2, <1>3, <1>4 DEF IInv

LEMMA StartStep == ASSUME IInv, NEW s \in Sessions, Start(s) PROVE IInv'
<1>1. PICK rbuf \in free : \E wbuf \in free \ {rbuf} :
           /\ bufOf' = [bufOf EXCEPT ![<<s, "up">>] = rbuf, ![<<s, "down">>] = wbuf]
           /\ free' = free \ {rbuf, wbuf}
  BY DEF Start
<1>2. PICK wbuf \in free \ {rbuf} :
           /\ bufOf' = [bufOf EXCEPT ![<<s, "up">>] = rbuf, ![<<s, "down">>] = wbuf]
           /\ free' = free \ {rbuf, wbuf}
  BY <1>1
<1>3. /\ phase[s] = "new"
      /\ phase' = [phase EXCEPT ![s] = "piping"]
      /\ pc' = [pc EXCEPT ![<<s, "up">>] = "read", ![<<s, "down">>] = "read"]
      /\ UNCHANGED <<sent, shut, dead, read, content, rcnt, index, got, unread, done>>
  BY DEF Start, peerVars, copyVars, sinkVars
<1>4. ASSUME NEW c \in Chan
      PROVE  IF c[1] = s
             THEN pc'[c] = "read" /\ pc[c] = "idle" /\ phase'[c[1]] = "piping"
             ELSE pc'[c] = pc[c] /\ phase'[c[1]] = phase[c[1]] /\ bufOf'[c] = bufOf[c]
  <2>1. phase'[c[1]] = IF c[1] = s THEN "piping" ELSE phase[c[1]]
    BY <1>3, ChanFacts DEF IInv, TypeOK
  <2>2. CASE c[1] = s
    <3>1. c = <<s, "up">> \/ c = <<s, "down">>
      BY <2>2, ChanFacts
    <3>2. pc'[c] = "read"
      BY <1>3, <3>1 DEF IInv, TypeOK
    <3>3. pc[c] = "idle"
      BY <1>3, <2>2 DEF IInv, PhaseInv
    <3> QED BY <2>1, <2>2, <3>2, <3>3
  <2>3. CASE c[1] # s
    <3>1. c # <<s, "up">> /\ c # <<s, "down">>
      BY <2>3
    <3>2. pc'[c] = pc[c] /\ bufOf'[c] = bufOf[c]
      BY <1>2, <1>3, <3>1 DEF IInv, TypeOK
    <3> QED BY <2>1, <2>3, <3>2
  <2> QED BY <2>2, <2>3
<1>5. TypeOK'
  BY <1>2, <1>3 DEF IInv, TypeOK
<1>6. PhaseInv'
  BY <1>4, ChanFacts DEF IInv, TypeOK, PhaseInv
<1>7. OwnInv'
  <2>1. ASSUME NEW c \in Chan, c[1] = s
        PROVE  \/ c = <<s, "up">> /\ bufOf'[c] = rbuf
               \/ c = <<s, "down">> /\ bufOf'[c] = wbuf
    <3>1. c = <<s, "up">> \/ c = <<s, "down">>
      BY <2>1, ChanFacts
    <3>2. <<s, "up">> # <<s, "down">>
      OBVIOUS
    <3> QED BY <1>2, <3>1, <3>2 DEF IInv, TypeOK
  <2>2. rbuf \in Buffers /\ wbuf \in Buffers /\ rbuf # wbuf /\ rbuf \in free /\ wbuf \in free
    BY <1>1, <1>2 DEF IInv, TypeOK
  <2>3. ASSUME NEW c \in Chan, Piping(c)'
        PROVE  IF c[1] = s THEN bufOf'[c] \in {rbuf, wbuf}
                           ELSE Piping(c) /\ bufOf'[c] = bufOf[c] /\ bufOf[c] \in Buffers \ free
    BY <1>4, <2>1, <2>3 DEF IInv, OwnInv, Piping
  <2>4. ASSUME NEW c \in Chan, Piping(c)' PROVE bufOf'[c] \in Buffers \ free'
    <3>0. free' = free \ {rbuf, wbuf}
      BY <1>2
    <3>1. CASE c[1] = s
      BY <2>2, <2>3, <2>4, <3>0, <3>1
    <3>2. CASE c[1] # s
      BY <2>3, <2>4, <3>0, <3>2
    <3> QED BY <3>1, <3>2
  <2>5. ASSUME NEW c \in Chan, NEW e \in Chan, Piping(c)', Piping(e)', c # e
        PROVE  bufOf'[c] # bufOf'[e]
    <3>1. CASE c[1] = s /\ e[1] = s
      BY <2>1, <2>2, <2>5, <3>1
    <3>2. CASE c[1] # s /\ e[1] # s
      BY <2>3, <2>5, <3>2 DEF IInv, OwnInv
    <3>3. CASE c[1] = s /\ e[1] # s
      BY <2>2, <2>3, <2>5, <3>3
    <3>4. CASE c[1] # s /\ e[1] = s
      BY <2>2, <2>3, <2>5, <3>4
    <3> QED BY <3>1, <3>2, <3>3, <3>4
  <2> QED BY <2>4, <2>5 DEF OwnInv
<1>8. CountInv' /\ ChunkInv' /\ IntactInv'
  <2>1. ASSUME NEW c \in Chan
        PROVE  \/ pc'[c] = pc[c] /\ bufOf'[c] = bufOf[c]
               \/ pc'[c] = "read" /\ pc[c] = "idle"
    BY <1>4
  <2>2. CountInv'
    BY <1>3, <2>1 DEF IInv, CountInv
  <2>3. ChunkInv'
    BY <1>3, <2>1 DEF IInv, ChunkInv
  <2> QED BY <1>3, <2>2, <2>3 DEF IInv, IntactInv
<1>9. DoneInv'
  <2>1. ASSUME NEW c \in Chan, done'[c[1]]
        PROVE  pc'[c] = "ended" \/ pc'[Other(c)] = "ended"
    <3>1. Other(c) \in Chan /\ Other(c)[1] = c[1]
      BY ChanFacts
    <3>2. pc[c] = "ended" \/ pc[Other(c)] = "ended"
      BY <1>3, <2>1 DEF IInv, DoneInv
    <3> QED BY <1>4, <3>1, <3>2
  <2> QED BY <2>1 DEF DoneInv
<1> QED BY <1>5, <1>6, <1>7, <1>8, <1>9 DEF IInv

LEMMA ReturnStep == ASSUME IInv, NEW s \in Sessions, Return(s) PROVE IInv'
<1>1. /\ phase' = [phase EXCEPT ![s] = "closed"]
      /\ free' = free \cup {bufOf[<<s, d>>] : d \in Dir}
      /\ phase[s] = "piping"
      /\ \A d \in Dir : pc[<<s, d>>] = "ended"
      /\ UNCHANGED <<sent, shut, dead, read, pc, bufOf, content, rcnt, index, got, unread, done>>
  BY DEF Return, Joined, peerVars, copyVars, sinkVars
<1>2. TypeOK'
  <2>1. \A d \in Dir : bufOf[<<s, d>>] \in Buffers
    BY <1>1, ChanFacts DEF IInv, OwnInv, Piping
  <2>2. free' \in SUBSET Buffers
    <3>1. {bufOf[<<s, d>>] : d \in Dir} \subseteq Buffers
      BY <2>1
    <3> QED BY <1>1, <3>1 DEF IInv, TypeOK
  <2>3. phase' \in [Sessions -> {"new", "piping", "closed"}]
    BY <1>1 DEF IInv, TypeOK
  <2> QED BY <1>1, <2>2, <2>3 DEF IInv, TypeOK
<1>3. \A c \in Chan : phase'[c[1]] = IF c[1] = s THEN "closed" ELSE phase[c[1]]
  BY <1>1, ChanFacts DEF IInv, TypeOK
<1>4. PhaseInv'
  BY <1>1, <1>3, ChanFacts DEF IInv, PhaseInv
<1>5. OwnInv'
  <2>1. \A c \in Chan : Piping(c)' => Piping(c) /\ c[1] # s
    BY <1>3 DEF Piping
  <2>2. \A c \in Chan, d \in Dir : c[1] # s => c # <<s, d>> /\ <<s, d>> \in Chan /\ Piping(<<s, d>>)
    BY <1>1, ChanFacts DEF Piping
  <2>3. \A c \in Chan : Piping(c)' => bufOf[c] \notin {bufOf[<<s, d>>] : d \in Dir}
    BY <2>1, <2>2 DEF IInv, OwnInv
  <2> QED BY <1>1, <2>1, <2>3 DEF IInv, OwnInv
<1>6. CountInv' /\ ChunkInv' /\ IntactInv' /\ DoneInv'
  BY <1>1 DEF IInv, CountInv, ChunkInv, IntactInv, DoneInv
<1> QED BY <1>2, <1>4, <1>5, <1>6 DEF IInv

LEMMA ReadSomeStep == ASSUME IInv, NEW c \in Chan, ReadSome(c) PROVE IInv'
<1>1. PICK k \in 1 .. ChunkSize :
           /\ read[c] + k <= sent[c]
           /\ read' = [read EXCEPT ![c] = @ + k]
           /\ rcnt' = [rcnt EXCEPT ![c] = k]
           /\ content' = [content EXCEPT ![bufOf[c]] =
                  [i \in 1 .. ChunkSize |-> IF i <= k THEN T!Byte(c, read[c] + i)
                                                      ELSE @[i]]]
  BY DEF ReadSome
<1>2. /\ pc[c] = "read"
      /\ pc' = [pc EXCEPT ![c] = "write"]
      /\ index' = [index EXCEPT ![c] = 0]
      /\ UNCHANGED <<sent, shut, dead, got, unread, bufOf, phase, free, done>>
  BY DEF ReadSome, peerVars, sinkVars, sessVars
<1>3. Piping(c) /\ bufOf[c] \in Buffers
  <2>1. Piping(c)
    BY <1>2, CopyingIsPiping DEF Copying
  <2> QED BY <2>1 DEF IInv, OwnInv
<1>4. TypeOK'
  <2>1. content' \in [Buffers -> [1 .. ChunkSize -> (Chan \X Nat) \cup {None}]]
    <3>1. content[bufOf[c]] \in [1 .. ChunkSize -> (Chan \X Nat) \cup {None}]
      BY <1>3 DEF IInv, TypeOK
    <3>2. \A i \in 1 .. ChunkSize : T!Byte(c, read[c] + i) \in Chan \X Nat
      BY DEF IInv, TypeOK, T!Byte
    <3>3. [i \in 1 .. ChunkSize |-> IF i <= k THEN T!Byte(c, read[c] + i) ELSE content[bufOf[c]][i]]
             \in [1 .. ChunkSize -> (Chan \X Nat) \cup {None}]
      BY <3>1, <3>2
    <3> QED BY <1>1, <1>3, <3>3 DEF IInv, TypeOK
  <2>2. read' \in [Chan -> Nat] /\ rcnt' \in [Chan -> 0 .. ChunkSize] /\ index' \in [Chan -> 0 .. ChunkSize]
    <3>1. /\ read \in [Chan -> Nat] /\ rcnt \in [Chan -> 0 .. ChunkSize]
          /\ index \in [Chan -> 0 .. ChunkSize] /\ k \in Nat /\ k <= ChunkSize
      BY DEF IInv, TypeOK
    <3>2. read[c] + k \in Nat /\ k \in 0 .. ChunkSize /\ 0 \in 0 .. ChunkSize
      BY <3>1
    <3> QED BY <1>1, <1>2, <3>1, <3>2
  <2> QED BY <1>2, <2>1, <2>2 DEF IInv, TypeOK
<1>5. PhaseInv' /\ OwnInv' /\ IntactInv'
  BY <1>2 DEF IInv, TypeOK, PhaseInv, OwnInv, IntactInv, Piping
<1>6. CountInv'
  <2>1. ASSUME NEW e \in Chan, e # c
        PROVE  read'[e] = read[e] /\ rcnt'[e] = rcnt[e] /\ index'[e] = index[e] /\ pc'[e] = pc[e]
    BY <1>1, <1>2, <2>1 DEF IInv, TypeOK
  <2>2. read'[c] = read[c] + k /\ rcnt'[c] = k /\ index'[c] = 0 /\ pc'[c] = "write"
    BY <1>1, <1>2 DEF IInv, TypeOK
  <2>3. Len(got[c]) = read[c] /\ read[c] \in Nat /\ k \in Nat
    BY <1>2 DEF IInv, TypeOK, CountInv
  <2> QED BY <1>1, <1>2, <2>1, <2>2, <2>3 DEF IInv, CountInv
<1>7. ChunkInv'
  <2>1. ASSUME NEW e \in Chan, e # c, pc'[e] = "write", NEW i \in 1 .. rcnt'[e]
        PROVE  content'[bufOf'[e]][i] = T!Byte(e, read'[e] - rcnt'[e] + i)
    <3>1. Piping(e) /\ bufOf[e] # bufOf[c] /\ bufOf[e] \in Buffers
      <4>1. pc[e] = "write"
        BY <1>2, <2>1 DEF IInv, TypeOK
      <4>2. Piping(e)
        BY <4>1, CopyingIsPiping DEF Copying
      <4> QED BY <1>3, <2>1, <4>2 DEF IInv, OwnInv
    <3>2. content'[bufOf'[e]] = content[bufOf[e]] /\ read'[e] = read[e] /\ rcnt'[e] = rcnt[e] /\ pc[e] = "write"
      BY <1>1, <1>2, <1>3, <2>1, <3>1 DEF IInv, TypeOK
    <3> QED BY <2>1, <3>2 DEF IInv, ChunkInv
  <2>2. ASSUME NEW i \in 1 .. k
        PROVE  content'[bufOf'[c]][i] = T!Byte(c, read'[c] - rcnt'[c] + i)
    <3>1. content'[bufOf'[c]][i] = T!Byte(c, read[c] + i)
      BY <1>1, <1>2, <1>3, <2>2 DEF IInv, TypeOK
    <3>2. read'[c] - rcnt'[c] + i = read[c] + i
      BY <1>1, <2>2 DEF IInv, TypeOK
    <3> QED BY <3>1, <3>2
  <2>3. rcnt'[c] = k
    BY <1>1 DEF IInv, TypeOK
  <2> QED BY <2>1, <2>2, <2>3 DEF ChunkInv
<1>8. DoneInv'
  <2>1. \A e \in Chan : pc[e] = "ended" => pc'[e] = "ended"
    BY <1>2 DEF IInv, TypeOK
  <2> QED BY <1>2, <2>1, ChanFacts DEF IInv, DoneInv
<1> QED BY <1>4, <1>5, <1>6, <1>7, <1>8 DEF IInv

LEMMA WriteByteStep == ASSUME IInv, NEW c \in Chan, WriteByte(c) PROVE IInv' /\ T!Deliver(c)
<1> DEFINE n == Len(got[c])
<1>1. /\ pc[c] = "write" /\ unread[c] < Window
      /\ got' = [got EXCEPT ![c] = Append(@, NextByte(c))]
      /\ unread' = [unread EXCEPT ![c] = @ + 1]
      /\ index' = [index EXCEPT ![c] = @ + 1]
      /\ pc' = [pc EXCEPT ![c] = IF Written(c) THEN "read" ELSE "write"]
      /\ UNCHANGED <<sent, shut, dead, read, content, rcnt, bufOf, phase, free, done>>
  BY DEF WriteByte, peerVars, sessVars
<1>2. /\ n \in Nat /\ index[c] \in Nat /\ rcnt[c] \in Nat /\ read[c] \in Nat
      /\ index[c] < rcnt[c] /\ rcnt[c] <= ChunkSize
      /\ n + rcnt[c] = read[c] + index[c] /\ read[c] <= sent[c] /\ sent[c] \in Nat
  BY <1>1 DEF IInv, TypeOK, CountInv
<1>3. NextByte(c) = T!Byte(c, n + 1)
  <2>1. index[c] + 1 \in 1 .. rcnt[c] /\ read[c] - rcnt[c] + (index[c] + 1) = n + 1
    <3> HIDE DEF n
    <3> QED BY <1>2
  <2>2. content[bufOf[c]][index[c] + 1] = T!Byte(c, read[c] - rcnt[c] + (index[c] + 1))
    BY <1>1, <2>1 DEF IInv, ChunkInv
  <2> QED BY <2>1, <2>2 DEF NextByte
<1>4. /\ got[c] \in Seq(Chan \X Nat)
      /\ got'[c] = Append(got[c], T!Byte(c, n + 1))
      /\ T!Byte(c, n + 1) \in Chan \X Nat
  <2>1. got \in [Chan -> Seq(Chan \X Nat)]
    BY DEF IInv, TypeOK
  <2>2. T!Byte(c, n + 1) \in Chan \X Nat
    BY <1>2 DEF T!Byte
  <2> QED BY <1>1, <1>3, <2>1, <2>2
<1>5. /\ Len(got'[c]) = n + 1 /\ got'[c] \in Seq(Chan \X Nat)
      /\ \A i \in 1 .. n + 1 : got'[c][i] = IF i <= n THEN got[c][i] ELSE T!Byte(c, n + 1)
  BY <1>4
<1>6. \A e \in Chan : e # c => /\ got'[e] = got[e] /\ index'[e] = index[e]
                               /\ pc'[e] = pc[e]
  BY <1>1 DEF IInv, TypeOK
<1>7. TypeOK'
  <2>1. got' \in [Chan -> Seq(Chan \X Nat)]
    BY <1>1, <1>5 DEF IInv, TypeOK
  <2>2. unread' \in [Chan -> 0 .. Window] /\ index' \in [Chan -> 0 .. ChunkSize]
    <3>1. /\ unread \in [Chan -> 0 .. Window] /\ index \in [Chan -> 0 .. ChunkSize]
          /\ unread[c] \in 0 .. Window
      BY DEF IInv, TypeOK
    <3>2. unread[c] + 1 \in 0 .. Window /\ index[c] + 1 \in 0 .. ChunkSize
      BY <1>1, <1>2, <3>1
    <3> QED BY <1>1, <3>1, <3>2
  <2>3. pc' \in [Chan -> {"idle", "read", "timeout", "write", "ended"}]
    BY <1>1 DEF IInv, TypeOK
  <2> QED BY <1>1, <2>1, <2>2, <2>3 DEF IInv, TypeOK
<1>8. PhaseInv' /\ OwnInv'
  <2>1. \A e \in Chan : /\ pc'[e] = "idle" <=> pc[e] = "idle"
                        /\ pc[e] = "ended" => pc'[e] = "ended"
    BY <1>1, <1>6 DEF IInv, TypeOK
  <2>2. PhaseInv'
    BY <1>1, <2>1 DEF IInv, PhaseInv
  <2>3. OwnInv'
    BY <1>1 DEF IInv, OwnInv, Piping
  <2> QED BY <2>2, <2>3
<1>9. CountInv'
  <2>1. index'[c] = index[c] + 1 /\ pc'[c] = IF index[c] + 1 = rcnt[c] THEN "read" ELSE "write"
    BY <1>1 DEF IInv, TypeOK, Written
  <2>2. /\ Len(got'[c]) <= read[c]
        /\ pc'[c] \in {"read", "timeout"} => Len(got'[c]) = read[c]
        /\ pc'[c] = "write" => index'[c] < rcnt[c] /\ Len(got'[c]) + rcnt[c] = read[c] + index'[c]
    <3>1. Len(got'[c]) = n + 1
      BY <1>5
    <3> HIDE DEF n
    <3>2. n + 1 <= read[c]
      BY <1>2
    <3>3. CASE index[c] + 1 = rcnt[c]
      <4>1. n + 1 = read[c]
        BY <1>2, <3>3
      <4>2. pc'[c] = "read"
        BY <2>1, <3>3
      <4> QED BY <3>1, <3>2, <4>1, <4>2
    <3>4. CASE index[c] + 1 # rcnt[c]
      <4>1. index[c] + 1 < rcnt[c] /\ n + 1 + rcnt[c] = read[c] + (index[c] + 1)
        BY <1>2, <3>4
      <4>2. pc'[c] = "write" /\ index'[c] = index[c] + 1
        BY <2>1, <3>4
      <4> QED BY <3>1, <3>2, <4>1, <4>2
    <3> QED BY <3>3, <3>4
  <2>3. /\ read'[c] = read[c] /\ sent'[c] = sent[c] /\ rcnt'[c] = rcnt[c]
        /\ read[c] <= sent[c] /\ pc'[c] # "idle"
    BY <1>1, <1>2, <2>1
  <2>4. ASSUME NEW e \in Chan
        PROVE  /\ Len(got'[e]) <= read'[e] /\ read'[e] <= sent'[e]
               /\ pc'[e] = "idle" => read'[e] = 0
               /\ pc'[e] \in {"idle", "read", "timeout"} => Len(got'[e]) = read'[e]
               /\ pc'[e] = "write" => /\ index'[e] < rcnt'[e]
                                      /\ Len(got'[e]) + rcnt'[e] = read'[e] + index'[e]
    <3>1. CASE e = c
      BY <2>2, <2>3, <3>1
    <3>2. CASE e # c
      BY <1>1, <1>6, <3>2 DEF IInv, CountInv
    <3> QED BY <3>1, <3>2
  <2> QED BY <2>4 DEF CountInv
<1>10. ChunkInv'
  BY <1>1, <1>6 DEF IInv, ChunkInv
<1>11. IntactInv'
  <2>1. \A i \in 1 .. Len(got'[c]) : got'[c][i] = T!Byte(c, i)
    <3>1. ASSUME NEW i \in 1 .. n + 1 PROVE got'[c][i] = T!Byte(c, i)
      <4>1. CASE i <= n
        <5>1. i \in 1 .. n /\ got'[c][i] = got[c][i]
          BY <1>2, <1>5, <4>1
        <5> QED BY <5>1 DEF IInv, IntactInv
      <4>2. CASE ~(i <= n)
        BY <1>2, <1>5, <4>2
      <4> QED BY <4>1, <4>2
    <3> QED BY <1>5, <3>1
  <2> QED BY <1>6, <2>1 DEF IInv, IntactInv
<1>12. T!Deliver(c)
  <2>1. n < sent[c]
    BY <1>2
  <2>2. [e \in Chan |-> pc[e] = "ended"]' = [e \in Chan |-> pc[e] = "ended"]
    <3>1. pc'[c] # "ended" /\ pc[c] # "ended"
      BY <1>1 DEF IInv, TypeOK
    <3> QED BY <1>6, <3>1
  <2>3. 1 \in 1 .. sent[c] - n
    BY <1>2, <2>1
  <2>4. got' = [got EXCEPT ![c] = @ \o [k \in 1 .. 1 |-> T!Byte(c, Len(@) + k)]]
    <3>1. [k \in 1 .. 1 |-> T!Byte(c, n + k)] = <<T!Byte(c, n + 1)>>
      BY <1>2
    <3>2. got[c] \o <<T!Byte(c, n + 1)>> = Append(got[c], T!Byte(c, n + 1))
      BY <1>4
    <3> QED BY <1>1, <1>3, <3>1, <3>2
  <2>5. \E m \in 1 .. sent[c] - Len(got[c]) :
            got' = [got EXCEPT ![c] = @ \o [k \in 1 .. m |-> T!Byte(c, Len(@) + k)]]
    BY <2>3, <2>4
  <2> QED BY <1>1, <2>2, <2>5 DEF T!Deliver
<1>13. DoneInv'
  <2>1. \A e \in Chan : pc[e] = "ended" => pc'[e] = "ended"
    BY <1>1, <1>6
  <2> QED BY <1>1, <2>1, ChanFacts DEF IInv, DoneInv
<1> QED BY <1>7, <1>8, <1>9, <1>10, <1>11, <1>12, <1>13 DEF IInv

(* A Read that times out, and the time-out of a live session that is read  *)
(* past: the goroutine moves between its two places before a Write.        *)
Waiting(c) ==
    /\ \/ pc[c] = "read" /\ pc' = [pc EXCEPT ![c] = "timeout"]
       \/ pc[c] = "timeout" /\ pc' = [pc EXCEPT ![c] = "read"]
    /\ UNCHANGED <<peerVars, copyVars, sinkVars, sessVars, done>>

LEMMA WaitingStep == ASSUME IInv, NEW c \in Chan, Waiting(c) PROVE IInv' /\ UNCHANGED T!vars
<1>1. /\ UNCHANGED <<sent, shut, dead, read, content, rcnt, index, got, unread>>
      /\ UNCHANGED <<bufOf, phase, free, done>>
  BY DEF Waiting, peerVars, copyVars, sinkVars, sessVars
<1>2. \A e \in Chan : IF e = c THEN {pc[e], pc'[e]} = {"read", "timeout"} ELSE pc'[e] = pc[e]
  BY DEF Waiting, IInv, TypeOK
<1>3. TypeOK'
  <2>1. pc' \in [Chan -> {"idle", "read", "timeout", "write", "ended"}]
    BY DEF Waiting, IInv, TypeOK
  <2> QED BY <1>1, <2>1 DEF IInv, TypeOK
<1>4. PhaseInv' /\ OwnInv' /\ IntactInv'
  BY <1>1, <1>2 DEF IInv, PhaseInv, OwnInv, IntactInv, Piping
<1>5. CountInv' /\ ChunkInv'
  BY <1>1, <1>2 DEF IInv, CountInv, ChunkInv
<1>6. DoneInv'
  BY <1>1, <1>2, ChanFacts DEF IInv, DoneInv
<1>7. UNCHANGED T!vars
  BY <1>1, <1>2 DEF T!vars
<1> QED BY <1>3, <1>4, <1>5, <1>6, <1>7 DEF IInv

(* A goroutine ends: its error or EOF, an expired deadline of a cancelled  *)
(* session, or a failed Write.                                             *)
Ending(c) ==
    /\ pc[c] \in {"read", "timeout", "write"}
    /\ End(c)
    /\ UNCHANGED <<peerVars, copyVars, sinkVars, sessVars>>

LEMMA EndingStep == ASSUME IInv, NEW c \in Chan, Ending(c) PROVE IInv' /\ T!End(c)
<1>1. /\ pc[c] \in {"read", "timeout", "write"}
      /\ pc' = [pc EXCEPT ![c] = "ended"]
      /\ done' = [done EXCEPT ![c[1]] = TRUE]
      /\ UNCHANGED <<sent, shut, dead, read, content, rcnt, index, got, unread, bufOf, phase, free>>
  BY DEF Ending, End, peerVars, copyVars, sinkVars, sessVars
<1>2. \A e \in Chan : IF e = c THEN pc'[e] = "ended" ELSE pc'[e] = pc[e]
  BY <1>1 DEF IInv, TypeOK
<1>3. TypeOK'
  BY <1>1 DEF IInv, TypeOK
<1>4. PhaseInv'
  BY <1>1, <1>2 DEF IInv, PhaseInv
<1>5. OwnInv' /\ IntactInv'
  BY <1>1 DEF IInv, OwnInv, IntactInv, Piping
<1>6. CountInv'
  BY <1>1, <1>2 DEF IInv, CountInv
<1>7. ChunkInv'
  BY <1>1, <1>2 DEF IInv, ChunkInv
<1>8. T!End(c)
  BY <1>1, <1>2 DEF T!End
<1>9. DoneInv'
  <2>1. ASSUME NEW e \in Chan, done'[e[1]]
        PROVE  pc'[e] = "ended" \/ pc'[Other(e)] = "ended"
    <3>1. CASE e[1] = c[1]
      <4>1. e = c \/ Other(e) = c
        BY <3>1, ChanFacts DEF Other
      <4> QED BY <1>2, <4>1
    <3>2. CASE e[1] # c[1]
      <4>1. done[e[1]]
        BY <1>1, <2>1, <3>2, ChanFacts DEF IInv, TypeOK
      <4> QED BY <1>2, <4>1, ChanFacts DEF IInv, DoneInv
    <3> QED BY <3>1, <3>2
  <2> QED BY <2>1 DEF DoneInv
<1> QED BY <1>3, <1>4, <1>5, <1>6, <1>7, <1>8, <1>9 DEF IInv

(* The peer counts its bytes from one again.                               *)
Renumber(c) ==
    /\ Drained(c)
    /\ sent' = [sent EXCEPT ![c] = 1]
    /\ read' = [read EXCEPT ![c] = 0]
    /\ got' = [got EXCEPT ![c] = <<>>]
    /\ UNCHANGED <<shut, dead, pc, done, content, rcnt, index, unread, sessVars>>

LEMMA RenumberStep == ASSUME IInv, NEW c \in Chan, Renumber(c) PROVE IInv' /\ T!Restart(c)
<1>1. UNCHANGED <<shut, dead, pc, done, content, rcnt, index, unread, bufOf, phase, free>>
  BY DEF Renumber, sessVars
<1>2. /\ pc[c] \in {"read", "timeout"} /\ Len(got[c]) = sent[c]
      /\ sent' = [sent EXCEPT ![c] = 1]
      /\ read' = [read EXCEPT ![c] = 0]
      /\ got' = [got EXCEPT ![c] = <<>>]
  BY DEF Renumber, Drained
<1>3. TypeOK'
  BY <1>1, <1>2 DEF IInv, TypeOK
<1>4. PhaseInv' /\ OwnInv' /\ DoneInv'
  BY <1>1 DEF IInv, PhaseInv, OwnInv, DoneInv, Piping
<1>5. ASSUME NEW e \in Chan
      PROVE  IF e = c THEN sent'[e] = 1 /\ read'[e] = 0 /\ got'[e] = <<>>
                      ELSE sent'[e] = sent[e] /\ read'[e] = read[e] /\ got'[e] = got[e]
  BY <1>2 DEF IInv, TypeOK
<1>6. CountInv' /\ ChunkInv' /\ IntactInv'
  BY <1>1, <1>2, <1>5 DEF IInv, CountInv, ChunkInv, IntactInv
<1>7. T!Restart(c)
  BY <1>1, <1>2 DEF T!Restart
<1> QED BY <1>3, <1>4, <1>6, <1>7 DEF IInv

LEMMA PeerStep ==
    ASSUME IInv, NEW c \in Chan, Peer(c)
    PROVE  IInv' /\ (T!Send(c) \/ T!Restart(c) \/ UNCHANGED T!vars)
<1>1. CASE Renumber(c)
  BY <1>1, RenumberStep
<1>2. ASSUME ~Renumber(c) PROVE IInv' /\ (T!Send(c) \/ UNCHANGED T!vars)
  <2>1. UNCHANGED <<pc, done, read, content, rcnt, index, got, bufOf, phase, free>>
    BY <1>2 DEF Peer, PeerSend, PeerShut, PeerBreak, PeerRecv, Renumber,
                peerVars, copyVars, sinkVars, sessVars
  <2>2. \/ sent' = [sent EXCEPT ![c] = @ + 1]
        \/ sent' = sent
    BY <1>2 DEF Peer, PeerSend, PeerShut, PeerBreak, PeerRecv, Renumber, peerVars
  <2>3. sent' \in [Chan -> Nat] /\ \A e \in Chan : sent'[e] >= sent[e]
    <3>1. CASE sent' = [sent EXCEPT ![c] = @ + 1]
      <4>1. \A e \in Chan : sent'[e] = IF e = c THEN sent[e] + 1 ELSE sent[e]
        BY <3>1 DEF IInv, TypeOK
      <4>2. \A e \in Chan : sent[e] \in Nat
        BY DEF IInv, TypeOK
      <4> QED BY <3>1, <4>1, <4>2 DEF IInv, TypeOK
    <3>2. CASE sent' = sent
      BY <3>2 DEF IInv, TypeOK
    <3> QED BY <2>2, <3>1, <3>2
  <2>4. /\ shut' \in [Chan -> BOOLEAN] /\ dead' \in [Chan -> BOOLEAN]
        /\ unread' \in [Chan -> 0 .. Window]
    <3>1. CASE PeerSend(c)
      BY <3>1 DEF PeerSend, IInv, TypeOK
    <3>2. CASE PeerShut(c)
      BY <3>2 DEF PeerShut, IInv, TypeOK, sinkVars
    <3>3. CASE PeerBreak(c)
      BY <3>3 DEF PeerBreak, IInv, TypeOK, sinkVars
    <3>4. CASE PeerRecv(c)
      BY <3>4 DEF PeerRecv, IInv, TypeOK, peerVars
    <3> QED BY <3>1, <3>2, <3>3, <3>4 DEF Peer
  <2>5. TypeOK'
    BY <2>1, <2>3, <2>4 DEF IInv, TypeOK
  <2>6. PhaseInv' /\ OwnInv' /\ ChunkInv' /\ IntactInv' /\ DoneInv'
    BY <2>1 DEF IInv, PhaseInv, OwnInv, ChunkInv, IntactInv, DoneInv, Piping
  <2>7. CountInv'
    <3>1. \A e \in Chan : read[e] \in Nat /\ sent[e] \in Nat /\ sent'[e] \in Nat
      BY <2>3 DEF IInv, TypeOK
    <3> QED BY <2>1, <2>3, <3>1 DEF IInv, CountInv
  <2>8. T!Send(c) \/ UNCHANGED T!vars
    <3>1. CASE sent' = [sent EXCEPT ![c] = @ + 1]
      <4>1. sent[c] \in Nat /\ sent'[c] = sent[c] + 1
        BY <3>1 DEF IInv, TypeOK
      <4>2. sent'[c] > sent[c]
        BY <4>1
      <4>3. sent' = [sent EXCEPT ![c] = sent'[c]]
        BY <3>1, <4>1 DEF IInv, TypeOK
      <4> QED BY <2>1, <4>2, <4>3 DEF T!Send
    <3>2. CASE sent' = sent
      BY <2>1, <3>2 DEF T!vars
    <3> QED BY <2>2, <3>1, <3>2
  <2> QED BY <2>5, <2>6, <2>7, <2>8 DEF IInv
<1> QED BY <1>1, <1>2

(* Why a direction ends: broken, at the end of its stream, or second.      *)
InTurn(c) == ~dead[c] /\ ~dead[Other(c)] => /\ Len(got[c]) = read[c]
                                            /\ \/ shut[c] /\ read[c] = sent[c]
                                               \/ pc[Other(c)] = "ended"

Endless == T!Next \/ \E c \in Chan : T!Restart(c)

(* Every step keeps the invariant, is a step of the endless Tunnel or a    *)
(* stutter, and ends a stream only in turn.                                *)

LEMMA StepFacts ==
    ASSUME IInv, [Next]_vars
    PROVE  /\ IInv'
           /\ [Endless]_(T!vars)
           /\ \A c \in Chan : pc[c] # "ended" /\ pc'[c] = "ended" => InTurn(c)
<1> DEFINE Goal == /\ IInv'
                   /\ [Endless]_(T!vars)
                   /\ \A c \in Chan : pc[c] # "ended" /\ pc'[c] = "ended" => InTurn(c)
<1>1. ASSUME NEW s \in Sessions, Start(s) PROVE Goal
  <2>1. IInv'
    BY <1>1, StartStep
  <2>2. \A c \in Chan : pc'[c] = "ended" <=> pc[c] = "ended"
    <3>1. pc' = [pc EXCEPT ![<<s, "up">>] = "read", ![<<s, "down">>] = "read"]
      BY <1>1 DEF Start
    <3>2. pc[<<s, "up">>] = "idle" /\ pc[<<s, "down">>] = "idle"
      BY <1>1, ChanFacts DEF Start, IInv, PhaseInv, Dir
    <3> QED BY <3>1, <3>2 DEF IInv, TypeOK
  <2>3. UNCHANGED T!vars
    BY <1>1, <2>2 DEF Start, T!vars, peerVars, sinkVars
  <2> QED BY <2>1, <2>2, <2>3
<1>2. ASSUME NEW s \in Sessions, Return(s) PROVE Goal
  <2>1. IInv'
    BY <1>2, ReturnStep
  <2>2. UNCHANGED <<sent, got, pc>>
    BY <1>2 DEF Return, peerVars, sinkVars
  <2> QED BY <2>1, <2>2 DEF T!vars
<1>3. ASSUME NEW c \in Chan, Ending(c), InTurn(c) PROVE Goal
  <2>1. IInv' /\ T!End(c)
    BY <1>3, EndingStep
  <2>2. \A e \in Chan : e # c => pc'[e] = pc[e]
    BY <1>3 DEF Ending, End, IInv, TypeOK
  <2> QED BY <1>3, <2>1, <2>2 DEF T!Next, Endless
<1>4. ASSUME NEW c \in Chan, ReadSome(c) PROVE Goal
  <2>1. IInv'
    BY <1>4, ReadSomeStep
  <2>2. pc[c] = "read" /\ pc' = [pc EXCEPT ![c] = "write"] /\ UNCHANGED <<sent, got>>
    BY <1>4 DEF ReadSome, peerVars, sinkVars
  <2>3. \A e \in Chan : pc'[e] = "ended" <=> pc[e] = "ended"
    BY <2>2 DEF IInv, TypeOK
  <2>4. UNCHANGED T!vars
    BY <2>2, <2>3 DEF T!vars
  <2> QED BY <2>1, <2>3, <2>4
<1>5. ASSUME NEW c \in Chan, ReadFails(c) PROVE Goal
  <2>1. Ending(c) /\ (dead[c] \/ (shut[c] /\ read[c] = sent[c])) /\ pc[c] = "read"
    BY <1>5 DEF ReadFails, Ending
  <2>2. InTurn(c)
    BY <2>1 DEF IInv, CountInv, InTurn
  <2> QED BY <1>3, <2>1, <2>2
<1>6. ASSUME NEW c \in Chan, Waiting(c) PROVE Goal
  <2>1. IInv' /\ UNCHANGED T!vars
    BY <1>6, WaitingStep
  <2>2. \A e \in Chan : pc'[e] = "ended" => pc[e] = "ended"
    BY <1>6 DEF Waiting, IInv, TypeOK
  <2> QED BY <2>1, <2>2
<1>7. ASSUME NEW c \in Chan, ReadTimeout(c) \/ CheckDone(c) PROVE Goal
  <2>1. CASE Waiting(c)
    BY <1>6, <2>1
  <2>2. CASE ~Waiting(c)
    <3>1. Ending(c) /\ pc[c] = "timeout" /\ done[c[1]]
      BY <1>7, <2>2 DEF ReadTimeout, CheckDone, Waiting, Ending
    <3>2. InTurn(c)
      BY <3>1 DEF IInv, CountInv, DoneInv, InTurn
    <3> QED BY <1>3, <3>1, <3>2
  <2> QED BY <2>1, <2>2
<1>8. ASSUME NEW c \in Chan, WriteByte(c) PROVE Goal
  <2>1. IInv' /\ T!Deliver(c)
    BY <1>8, WriteByteStep
  <2>2. \A e \in Chan : pc'[e] = "ended" => pc[e] = "ended"
    BY <1>8 DEF WriteByte, IInv, TypeOK
  <2> QED BY <2>1, <2>2 DEF T!Next, Endless
<1>9. ASSUME NEW c \in Chan, WriteFails(c) PROVE Goal
  <2>1. Ending(c) /\ InTurn(c)
    BY <1>9 DEF WriteFails, Ending, InTurn
  <2> QED BY <1>3, <2>1
<1>10. ASSUME NEW c \in Chan, Peer(c) PROVE Goal
  <2>1. IInv' /\ (T!Send(c) \/ T!Restart(c) \/ UNCHANGED T!vars)
    BY <1>10, PeerStep
  <2>2. pc' = pc
    BY <1>10 DEF Peer, PeerSend, PeerShut, PeerBreak, PeerRecv
  <2> QED BY <2>1, <2>2 DEF T!Next, Endless
<1>11. CASE UNCHANGED vars
  BY <1>11 DEF vars, T!vars, IInv, TypeOK, PhaseInv, OwnInv, CountInv, ChunkInv, IntactInv, DoneInv, Piping
<1> QED BY <1>1, <1>2, <1>4, <1>5, <1>7, <1>8, <1>9, <1>10, <1>11 DEF Next, Goroutine

LEMMA IInvHolds == Spec => []IInv
<1>1. IInv /\ [Next]_vars => IInv'
  BY StepFacts
<1> QED BY InitIInv, <1>1, PTL DEF Spec

(* Every variable keeps its type: no count of bytes passes the size of the *)
(* buffer it counts in.                                                    *)
THEOREM TypeCorrect == Spec => []TypeOK
<1>1. IInv => TypeOK
  BY DEF IInv
<1> QED BY <1>1, IInvHolds, PTL

(* No stream loses, alters, reorders or takes over a byte, although the    *)
(* buffers of sync.Pool pass from session to session.                      *)
THEOREM StreamsIntact == Spec => []StreamIntact
<1>1. IInv => StreamIntact
  BY DEF IInv, TypeOK, CountInv, IntactInv, StreamIntact
<1> QED BY <1>1, IInvHolds, PTL

(* Put happens only after both goroutines of a session ended.              *)
THEOREM BuffersAreExclusive == Spec => []BuffersExclusive
<1>1. ASSUME IInv PROVE BuffersExclusive
  <2>1. \A c \in Chan : Copying(c) => Piping(c)
    BY <1>1, CopyingIsPiping
  <2> QED BY <1>1, <2>1 DEF IInv, OwnInv, BuffersExclusive
<1> QED BY <1>1, IInvHolds, PTL

(* Pipe's two directions end in turn: the first at the end of its drained  *)
(* stream, the second after it; no byte that was read is dropped, unless a *)
(* connection breaks.                                                      *)
THEOREM DirectionsEndInTurn == Spec => EndsInTurn
<1> DEFINE A == \A c \in Chan : /\ pc[c] # "ended" /\ pc'[c] = "ended"
                                /\ ~dead[c] /\ ~dead[Other(c)]
                                => /\ Len(got[c]) = read[c]
                                   /\ \/ shut[c] /\ read[c] = sent[c]
                                      \/ pc[Other(c)] = "ended"
<1>1. IInv /\ [Next]_vars => [A]_vars
  BY StepFacts DEF InTurn
<1> QED BY <1>1, IInvHolds, PTL DEF Spec, EndsInTurn

(* Pipe implements the FIFO tunnel of endless streams: its initial states  *)
(* and its steps are those of Tunnel.                                      *)
THEOREM PipeImplementsTunnel == Spec => IsTunnel
<1>1. Init => T!Init
  BY DEF Init, T!Init
<1>2. IInv /\ [Next]_vars => [T!Next \/ \E c \in Chan : T!Restart(c)]_(T!vars)
  BY StepFacts DEF Endless
<1> QED BY <1>1, <1>2, IInvHolds, PTL DEF Spec, T!EndlessSpec, IsTunnel
=============================================================================
