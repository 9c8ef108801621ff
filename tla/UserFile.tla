------------------------------- MODULE UserFile -------------------------------
(***************************************************************************)
(* userinfo.go: how a users file becomes the table of users.  ReadAllLine  *)
(* collects what bufio's ReadLine returns, slices of the reader's buffer;  *)
(* the lines are unmarshalled only when the whole file has been read.      *)
(*                                                                         *)
(* A byte of the file is <<line, position>> or Newline; a collected line   *)
(* is the place of its slice in the buffer.  UserHolder uses the steps of  *)
(* this module for a load, and the file may then change between two of     *)
(* them; here it is left alone.                                            *)
(***************************************************************************)
EXTENDS Integers, Sequences, SequencesExt

CONSTANTS
    Accounts,
    Limits,      \* the max_conn a line may state; 0 for none
    MaxLines,    \* bound on the lines of the file
    MaxLen,      \* bound on the bytes of a line
    BufSize,     \* bufio's buffer (4096)
    Newline,
    Nobody       \* no user

DefaultMaxConn == 200

(* What a line says; a line of nobody does not unmarshal.                  *)
Line == [user: Accounts \cup {Nobody}, max: Limits, len: 1 .. MaxLen]

VARIABLES
    file,        \* the lines of the file
    ended,       \* its last line ends in a newline
    buf,         \* the reader's buffer
    r, w,        \* read and write positions in it
    pos,         \* bytes taken from the file
    eof,         \* the file has no more
    lines,       \* ReadAllLine's tmp
    parsed,      \* lines unmarshalled so far
    userinfo,    \* the table under construction
    pc

readVars == <<buf, r, w, pos, eof>>
vars == <<file, ended, buf, r, w, pos, eof, lines, parsed, userinfo, pc>>

Text(line) == [n \in 1 .. line.len |-> <<line, n>>]
BytesOf(ls, nl) ==
    LET all == FlattenSeq([k \in 1 .. Len(ls) |-> Append(Text(ls[k]), Newline)])
    IN  IF nl \/ ls = <<>> THEN all ELSE Front(all)
Bytes == BytesOf(file, ended)

TypeOK ==
    /\ r \in 0 .. BufSize /\ w \in r .. BufSize
    /\ pos \in Nat
    /\ \A k \in DOMAIN lines : lines[k].off + lines[k].len <= BufSize
    /\ userinfo \in [Accounts -> Int \cup {Nobody}]
    /\ pc \in {"read", "parse", "done", "failed"}

(* os.Open, and the locals of ReadAllLine and of the load                  *)
ReadInit ==
    /\ buf = [n \in 1 .. BufSize |-> Newline] /\ r = 0 /\ w = 0 /\ pos = 0 /\ eof = FALSE
    /\ lines = <<>> /\ parsed = 0
    /\ userinfo = [u \in Accounts |-> Nobody]

Init ==
    /\ file \in UNION {[1 .. n -> Line] : n \in 0 .. MaxLines}
    /\ ended \in BOOLEAN
    /\ ReadInit /\ pc = "read"

-----------------------------------------------------------------------------
(* bufio: ReadLine returns a slice of the buffer.                          *)

Ends == {n \in r + 1 .. w : buf[n] = Newline}
NextEnd == CHOOSE n \in Ends : \A m \in Ends : n <= m

Collect(len) == lines' = Append(lines, [off |-> r, len |-> len])

(* A line is in the buffer, or the buffer is full of a part of one, whose  *)
(* isPrefix ReadAllLine ignores, or the file ended without a newline.      *)
ReadLine ==
    /\ pc = "read"
    /\ \/ Ends # {} /\ Collect(NextEnd - 1 - r) /\ r' = NextEnd /\ UNCHANGED eof
       \/ Ends = {} /\ w - r = BufSize /\ Collect(w - r) /\ r' = w /\ UNCHANGED eof
       \/ /\ Ends = {} /\ w - r < BufSize /\ eof /\ w > r
          /\ Collect(w - r) /\ r' = w /\ eof' = FALSE
    /\ UNCHANGED <<file, ended, buf, w, pos, parsed, userinfo, pc>>

(* The unread bytes slide to the front of the buffer and a Read of the     *)
(* file fills the rest.                                                    *)
Fill ==
    /\ pc = "read" /\ Ends = {} /\ w - r < BufSize /\ ~eof
    /\ LET kept  == w - r
           room  == BufSize - kept
           left  == IF pos < Len(Bytes) THEN Len(Bytes) - pos ELSE 0
           taken == IF left < room THEN left ELSE room
       IN  /\ buf' = [n \in 1 .. BufSize |->
                         IF n <= kept THEN buf[r + n]
                         ELSE IF n <= kept + taken THEN Bytes[pos + n - kept] ELSE buf[n]]
           /\ r' = 0 /\ w' = kept + taken
           /\ pos' = pos + taken
           /\ eof' = (taken = 0)
    /\ UNCHANGED <<file, ended, lines, parsed, userinfo, pc>>

-----------------------------------------------------------------------------
ReadAllLine ==
    /\ pc = "read" /\ eof /\ r = w
    /\ pc' = "parse"
    /\ UNCHANGED <<file, ended, readVars, lines, parsed, userinfo>>

MaxConn(line) == IF line.max <= 0 THEN DefaultMaxConn ELSE line.max

(* What the k-th slice holds by now                                        *)
Slice(k) == SubSeq(buf, lines[k].off + 1, lines[k].off + lines[k].len)

(* The lines a slice may be read as: its own, or, if it is torn out of     *)
(* several, any that it happens to look like.                              *)
Meanings(slice) ==
    LET exact == {line \in Line : Text(line) = slice}
    IN  IF exact = {} THEN Line ELSE exact

(* json.Unmarshal of a line; an error fails the load as a whole.           *)
Parse ==
    /\ pc = "parse" /\ parsed < Len(lines)
    /\ \E line \in Meanings(Slice(parsed + 1)) :
           IF line.user = Nobody THEN pc' = "failed" /\ UNCHANGED <<parsed, userinfo>>
           ELSE /\ userinfo' = [userinfo EXCEPT ![line.user] = MaxConn(line)]
                /\ parsed' = parsed + 1 /\ UNCHANGED pc
    /\ UNCHANGED <<file, ended, readVars, lines>>

Loaded ==
    /\ pc = "parse" /\ parsed = Len(lines)
    /\ pc' = "done"
    /\ UNCHANGED <<file, ended, readVars, lines, parsed, userinfo>>

Next == ReadLine \/ Fill \/ ReadAllLine \/ Parse \/ Loaded

Spec == Init /\ [][Next]_vars

-----------------------------------------------------------------------------
(* The table a file states: the last line about a user counts, and no      *)
(* limit means the default and not none.                                   *)
Stated(ls) ==
    [u \in Accounts |->
        LET about == {n \in DOMAIN ls : ls[n].user = u}
            last  == ls[CHOOSE n \in about : \A m \in about : m <= n]
        IN  IF about = {} THEN Nobody ELSE IF last.max > 0 THEN last.max ELSE DefaultMaxConn]

Fine(ls) == \A n \in DOMAIN ls : ls[n].user # Nobody

(* README: one user per line.  A later fill of the buffer overwrites the   *)
(* lines collected before it.                                              *)
OneUserPerLine ==
    Len(Bytes) <= BufSize /\ Fine(file)
        => pc # "failed" /\ (pc = "done" => userinfo = Stated(file))
=============================================================================
