-------------------------------- MODULE Pipe --------------------------------
(***************************************************************************)
(* net_utils.Pipe and the part of handleProxy around it (wcf_server.go,    *)
(* wcf_local.go): two goroutines per session, one per direction, each with *)
(* a buffer of the shared sync.Pool, copy until one of them ends and the   *)
(* other then meets EOF, an error or a read deadline.                      *)
(*                                                                         *)
(* A stream c = <<session, direction>> names a direction and also the      *)
(* connection that direction reads; it writes to the connection Other(c).  *)
(***************************************************************************)
EXTENDS Integers, Sequences

CONSTANTS
    Sessions,
    Buffers,     \* the byte slices sync.Pool has made or will make
    None,        \* no buffer
    ChunkSize,   \* bytes one Read can return
    Window,      \* bytes a peer's socket takes before a Write blocks
    MaxSent      \* bytes a peer numbers before it counts from one again

ASSUME BoundAssumption == /\ ChunkSize \in Nat \ {0}
                          /\ Window \in Nat \ {0}
                          /\ MaxSent \in Nat \ {0}
ASSUME NoneAssumption == None \notin Buffers

Dir == {"up", "down"}            \* src to dst, dst to src
Chan == Sessions \X Dir
Other(c) == <<c[1], IF c[2] = "up" THEN "down" ELSE "up">>

VARIABLES
    sent,        \* sent[c]: bytes the peer read by c has sent
    shut,        \* shut[c]: that peer has finished sending
    dead,        \* dead[c]: the connection c reads is broken
    read,        \* read[c]: bytes goroutine c has read
    pc,          \* pc[c]: where goroutine c is
    bufOf,       \* bufOf[c]: its buffer
    content,     \* content[b]: the bytes in buffer b
    rcnt,        \* rcnt[c]: bytes of the last Read
    index,       \* index[c]: how many of them SendSpecLen has written
    got,         \* got[c]: everything written to the peer at Other(c)
    unread,      \* unread[c]: bytes of got[c] that peer has not consumed
    done,        \* done[s]: the context of s is cancelled
    phase,       \* phase[s]: where handleProxy is
    free         \* the buffers in the pool

peerVars == <<sent, shut, dead>>
copyVars == <<read, content, rcnt, index>>
sinkVars == <<got, unread>>
sessVars == <<bufOf, phase, free>>
vars == <<sent, shut, dead, read, pc, bufOf, content, rcnt, index, got, unread,
          done, phase, free>>

T == INSTANCE Tunnel WITH ended <- [c \in Chan |-> pc[c] = "ended"]

TypeOK ==
    /\ sent \in [Chan -> Nat] /\ read \in [Chan -> Nat]
    /\ rcnt \in [Chan -> 0 .. ChunkSize] /\ index \in [Chan -> 0 .. ChunkSize]
    /\ shut \in [Chan -> BOOLEAN] /\ dead \in [Chan -> BOOLEAN]
    /\ pc \in [Chan -> {"idle", "read", "timeout", "write", "ended"}]
    /\ bufOf \in [Chan -> Buffers \cup {None}]
    /\ content \in [Buffers -> [1 .. ChunkSize -> (Chan \X Nat) \cup {None}]]
    /\ got \in [Chan -> Seq(Chan \X Nat)]
    /\ unread \in [Chan -> 0 .. Window]
    /\ done \in [Sessions -> BOOLEAN]
    /\ phase \in [Sessions -> {"new", "piping", "closed"}]
    /\ free \in SUBSET Buffers

Init ==
    /\ sent = [c \in Chan |-> 0] /\ read = sent /\ rcnt = sent
    /\ index = sent /\ unread = sent
    /\ shut = [c \in Chan |-> FALSE] /\ dead = shut
    /\ pc = [c \in Chan |-> "idle"]
    /\ bufOf = [c \in Chan |-> None]
    /\ content = [b \in Buffers |-> [i \in 1 .. ChunkSize |-> None]]
    /\ got = [c \in Chan |-> <<>>]
    /\ done = [s \in Sessions |-> FALSE]
    /\ phase = [s \in Sessions |-> "new"]
    /\ free = Buffers

-----------------------------------------------------------------------------
(* handleProxy                                                             *)

(* Two Gets from the pool, then Pipe starts its goroutines.                *)
Start(s) ==
    /\ phase[s] = "new"
    /\ \E rbuf \in free : \E wbuf \in free \ {rbuf} :
           /\ bufOf' = [bufOf EXCEPT ![<<s, "up">>] = rbuf, ![<<s, "down">>] = wbuf]
           /\ free' = free \ {rbuf, wbuf}
    /\ phase' = [phase EXCEPT ![s] = "piping"]
    /\ pc' = [pc EXCEPT ![<<s, "up">>] = "read", ![<<s, "down">>] = "read"]
    /\ UNCHANGED <<peerVars, copyVars, sinkVars, done>>

(* Bug: Pipe does not wait for its second goroutine.                       *)
BugJoined(s) == \E d \in Dir : pc[<<s, d>>] = "ended"

(* wg.Wait                                                                 *)
Joined(s) == \A d \in Dir : pc[<<s, d>>] = "ended"

(* Pipe returns and the deferred calls run: Put of both buffers and Close  *)
(* of both connections.                                                    *)
Return(s) ==
    /\ phase[s] = "piping"
    /\ Joined(s)
    /\ phase' = [phase EXCEPT ![s] = "closed"]
    /\ free' = free \cup {bufOf[<<s, d>>] : d \in Dir}
    /\ UNCHANGED <<peerVars, copyVars, sinkVars, done, pc, bufOf>>

-----------------------------------------------------------------------------
(* One goroutine of Pipe                                                   *)

(* The deferred cancel() and wg.Done()                                     *)
End(c) == /\ pc' = [pc EXCEPT ![c] = "ended"]
          /\ done' = [done EXCEPT ![c[1]] = TRUE]

ReadSome(c) ==
    /\ pc[c] = "read"
    /\ \E k \in 1 .. ChunkSize :
           /\ read[c] + k <= sent[c]
           /\ read' = [read EXCEPT ![c] = @ + k]
           /\ rcnt' = [rcnt EXCEPT ![c] = k]
           /\ content' = [content EXCEPT ![bufOf[c]] =
                  [i \in 1 .. ChunkSize |-> IF i <= k THEN T!Byte(c, read[c] + i)
                                                      ELSE @[i]]]
    /\ index' = [index EXCEPT ![c] = 0]
    /\ pc' = [pc EXCEPT ![c] = "write"]
    /\ UNCHANGED <<peerVars, sinkVars, sessVars, done>>

(* io.EOF after the last byte, or an error of a broken connection          *)
ReadFails(c) ==
    /\ pc[c] = "read"
    /\ dead[c] \/ (shut[c] /\ read[c] = sent[c])
    /\ End(c)
    /\ UNCHANGED <<peerVars, copyVars, sinkVars, sessVars>>

(* The deadline has expired: the Read fails with a time-out even when      *)
(* bytes, the end of the stream or an error wait to be read.               *)
ReadTimeout(c) ==
    /\ pc[c] = "read"
    /\ pc' = [pc EXCEPT ![c] = "timeout"]
    /\ UNCHANGED <<peerVars, copyVars, sinkVars, sessVars, done>>

(* Bug: a time-out ends the direction whatever the context says.           *)
BugCheckDone(c) ==
    /\ pc[c] = "timeout"
    /\ End(c)
    /\ UNCHANGED <<peerVars, copyVars, sinkVars, sessVars>>

(* Bug: a time-out does not look at the context.                           *)
BugCheckDoneStays(c) ==
    /\ pc[c] = "timeout"
    /\ pc' = [pc EXCEPT ![c] = "read"]
    /\ UNCHANGED <<peerVars, copyVars, sinkVars, sessVars, done>>

(* IsNetTimeoutErr, then IsDone: the goroutine ends if the other one has   *)
(* ended, and reads again if not.  Between the failed Read and this look   *)
(* at the context bytes may arrive and the other goroutine may end.        *)
CheckDone(c) ==
    /\ pc[c] = "timeout"
    /\ IF done[c[1]] THEN End(c)
                     ELSE pc' = [pc EXCEPT ![c] = "read"] /\ UNCHANGED done
    /\ UNCHANGED <<peerVars, copyVars, sinkVars, sessVars>>

(* Bug: the byte is taken from where the Read before it began.             *)
BugNextByte(c) == content[bufOf[c]][1]

NextByte(c) == content[bufOf[c]][index[c] + 1]

Written(c) == index[c] + 1 = rcnt[c]

(* A Write of SendSpecLen takes what the peer's window has room for; there *)
(* is no write deadline.                                                   *)
WriteByte(c) ==
    /\ pc[c] = "write"
    /\ unread[c] < Window
    /\ got' = [got EXCEPT ![c] = Append(@, NextByte(c))]
    /\ unread' = [unread EXCEPT ![c] = @ + 1]
    /\ index' = [index EXCEPT ![c] = @ + 1]
    /\ pc' = [pc EXCEPT ![c] = IF Written(c) THEN "read" ELSE "write"]
    /\ UNCHANGED <<peerVars, sessVars, read, content, rcnt, done>>

WriteFails(c) ==
    /\ pc[c] = "write"
    /\ dead[Other(c)]
    /\ End(c)
    /\ UNCHANGED <<peerVars, copyVars, sinkVars, sessVars>>

Goroutine(c) ==
    \/ ReadSome(c) \/ ReadFails(c) \/ ReadTimeout(c) \/ CheckDone(c)
    \/ WriteByte(c) \/ WriteFails(c)

-----------------------------------------------------------------------------
(* The two peers of a session: they may stop reading, finish sending, or   *)
(* break the connection at any moment.  What they do before Pipe starts is *)
(* seen once it runs, and nothing is read after it.                        *)

(* Everything the peer has sent is delivered, and c is about to read on.   *)
Drained(c) == pc[c] \in {"read", "timeout"} /\ Len(got[c]) = sent[c]

(* A peer may send for ever: after MaxSent bytes, once they are delivered, *)
(* the count of its stream begins again.                                   *)
PeerSend(c) ==
    /\ ~shut[c] /\ ~dead[c]
    /\ \/ /\ sent[c] < MaxSent
          /\ sent' = [sent EXCEPT ![c] = @ + 1]
          /\ UNCHANGED <<read, got>>
       \/ /\ sent[c] = MaxSent /\ Drained(c)
          /\ sent' = [sent EXCEPT ![c] = 1]
          /\ read' = [read EXCEPT ![c] = 0]
          /\ got' = [got EXCEPT ![c] = <<>>]
    /\ UNCHANGED <<shut, dead, pc, done, content, rcnt, index, unread, sessVars>>

PeerShut(c) ==
    /\ ~shut[c] /\ ~dead[c]
    /\ shut' = [shut EXCEPT ![c] = TRUE]
    /\ UNCHANGED <<sent, dead, pc, done, copyVars, sinkVars, sessVars>>

PeerBreak(c) ==
    /\ ~dead[c]
    /\ dead' = [dead EXCEPT ![c] = TRUE]
    /\ UNCHANGED <<sent, shut, pc, done, copyVars, sinkVars, sessVars>>

PeerRecv(c) ==
    /\ unread[c] > 0
    /\ unread' = [unread EXCEPT ![c] = @ - 1]
    /\ UNCHANGED <<peerVars, pc, done, copyVars, got, sessVars>>

Peer(c) == /\ phase[c[1]] = "piping"
           /\ PeerSend(c) \/ PeerShut(c) \/ PeerBreak(c) \/ PeerRecv(c)

Next ==
    \/ \E s \in Sessions : Start(s) \/ Return(s)
    \/ \E c \in Chan : Goroutine(c) \/ Peer(c)

Spec == Init /\ [][Next]_vars

(* The Go scheduler runs every goroutine; a read deadline expires.  The    *)
(* peers are free to do nothing.                                           *)
FairSpec ==
    /\ Spec
    /\ \A s \in Sessions : WF_vars(Start(s)) /\ WF_vars(Return(s))
    /\ \A c \in Chan : WF_vars(Goroutine(c))

-----------------------------------------------------------------------------
(* Each stream delivers the bytes its peer sent, in order and its own,     *)
(* though the buffers go round between sessions through sync.Pool.         *)
StreamIntact ==
    \A c \in Chan : /\ Len(got[c]) <= sent[c]
                    /\ \A i \in 1 .. Len(got[c]) : got[c][i] = T!Byte(c, i)

Copying(c) == pc[c] \in {"read", "timeout", "write"}

(* A buffer goes back to the pool only after both goroutines ended, so no  *)
(* two goroutines ever hold the same one.                                  *)
BuffersExclusive ==
    \A c, e \in Chan : /\ Copying(c) => bufOf[c] \notin free
                       /\ c # e /\ Copying(c) /\ Copying(e) => bufOf[c] # bufOf[e]

(* Without a broken connection the first direction to end has delivered    *)
(* everything its peer sent before it finished, and the second ends for no *)
(* other reason than the first; neither drops a byte it has read.          *)
EndsInTurn ==
    [][\A c \in Chan :
          /\ pc[c] # "ended" /\ pc'[c] = "ended"
          /\ ~dead[c] /\ ~dead[Other(c)]
          => /\ Len(got[c]) = read[c]
             /\ \/ shut[c] /\ read[c] = sent[c]
                \/ pc[Other(c)] = "ended"]_vars

(* Bytes go only one way: what a stream delivered it never takes back, and *)
(* it delivers nothing after it ended; Pipe implements the FIFO tunnel.    *)
IsTunnel == T!EndlessSpec

Blocked(s) == \E d \in Dir : /\ pc[<<s, d>>] = "write"
                             /\ unread[<<s, d>>] = Window

KeepsSending(s) == \E d \in Dir : []<><<PeerSend(<<s, d>>)>>_vars

(* When one direction ends the session ends too, and gives back its        *)
(* buffers and connections, unless a peer that stopped reading holds a     *)
(* Write for ever, there is no write deadline, or a peer goes on sending   *)
(* for ever: a successful copy goes round without a look at the context.   *)
SessionEnds ==
    \A s \in Sessions :
        <>done[s] => \/ <>(phase[s] = "closed")
                     \/ <>[]Blocked(s)
                     \/ KeepsSending(s)

-----------------------------------------------------------------------------
(* What a reader of Pipe would expect and the code does not give: these    *)
(* two are checked by no run, and TLC refutes each of them alone.          *)

(* The end of one direction cuts nothing off the other one.  Bytes that    *)
(* arrive between the time-out and the look at the context, or wait behind *)
(* an expired deadline, are left behind by the second direction to end.    *)
NothingLeftBehind ==
    [][\A c \in Chan :
          /\ pc[c] # "ended" /\ pc'[c] = "ended"
          /\ ~dead[c] /\ ~dead[Other(c)]
          => Len(got[c]) = sent[c]]_vars

(* The end of one direction ends the session when no Write is blocked.     *)
SessionEndsAnyway ==
    \A s \in Sessions : <>done[s] => (<>(phase[s] = "closed") \/ []<>Blocked(s))
=============================================================================
