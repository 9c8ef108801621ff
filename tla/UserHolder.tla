------------------------------ MODULE UserHolder ------------------------------
(***************************************************************************)
(* The users file end to end: the loader of Reload, whose load is the read *)
(* and the parse of UserFile, and whoever edits the file between any two   *)
(* of their steps.  An edit in place shows in the middle of a read; an     *)
(* edit that replaces the file leaves the open one as it was.              *)
(***************************************************************************)
EXTENDS Reload, Sequences

CONSTANTS
    Accounts, Limits, MaxLines, MaxLen, BufSize, Newline, Nobody,   \* UserFile's
    Contents,    \* what the file may hold: [lines, ended]
    MaxEdits     \* bound on the edits of the file

ASSUME EditAssumption == MaxEdits \in Nat

VARIABLES
    disk,        \* the content of the file of that name
    edits,       \* edits so far
    newest,      \* the latest modification time the file ever had
    silent,      \* its last edit did not leave a later time than that
    linked,      \* the file that is read is the file of that name
    file, ended, buf, r, w, pos, eof, lines, parsed, userinfo,   \* UserFile's
    reading      \* where the load is

editVars == <<disk, edits, newest, silent>>
localVars == <<buf, r, w, pos, eof, lines, parsed, userinfo>>
loadVars == <<file, ended, localVars, reading>>
holderVars == <<reloadVars, editVars, linked, loadVars>>

F == INSTANCE UserFile WITH pc <- reading

ASSUME SizeAssumption == MaxLen \in Nat /\ BufSize \in Nat \ {0} /\ Limits \subseteq Int
ASSUME NewlineAssumption == \A line \in F!Line, n \in 1 .. MaxLen : Newline # <<line, n>>
ASSUME ContentAssumption == Contents \subseteq [lines: Seq(F!Line), ended: BOOLEAN]

NoFile == [lines |-> <<>>, ended |-> TRUE]

HolderTypeOK ==
    /\ ReloadTypeOK
    /\ disk \in Contents \cup {NoFile} /\ edits \in 0 .. MaxEdits /\ newest \in Time
    /\ silent \in BOOLEAN /\ linked \in BOOLEAN
    /\ reading \in {"closed", "read", "parse", "done", "failed"}
    /\ \A t \in {data, active} \ {Bad, Nothing} : t \in [Accounts -> Int \cup {Nobody}]

HolderInit ==
    /\ ReloadInit
    /\ disk = NoFile /\ edits = 0 /\ newest = 0 /\ silent = FALSE
    /\ file = <<>> /\ ended = TRUE /\ reading = "closed" /\ linked = FALSE
    /\ F!ReadInit

-----------------------------------------------------------------------------
(* The file's owner writes it, whole or in part, in place or by putting    *)
(* another file there, and leaves any time on it: clocks are coarse, and a *)
(* restored file brings its own.                                           *)
Edit ==
    /\ edits < MaxEdits
    /\ edits' = edits + 1
    /\ exists' = TRUE
    /\ disk' \in Contents
    /\ \/ /\ linked
          /\ file' = disk'.lines /\ ended' = disk'.ended
          /\ UNCHANGED linked
       \/ /\ linked' = FALSE
          /\ UNCHANGED <<file, ended>>
    /\ mtime' \in 1 .. MaxTime
    /\ silent' = (mtime' <= newest)
    /\ newest' = IF mtime' > newest THEN mtime' ELSE newest
    /\ UNCHANGED <<loaderVars, localVars, reading>>

Remove ==
    /\ exists
    /\ exists' = FALSE /\ disk' = NoFile /\ linked' = FALSE
    /\ UNCHANGED <<mtime, loaderVars, edits, newest, silent, loadVars>>

-----------------------------------------------------------------------------
(* The load: os.Open, then UserFile                                        *)

Open ==
    /\ loader = "load" /\ reading = "closed" /\ exists
    /\ file' = disk.lines /\ ended' = disk.ended /\ linked' = TRUE
    /\ reading' = "read"
    /\ UNCHANGED <<reloadVars, editVars, localVars>>

OpenFails ==
    /\ loader = "load" /\ reading = "closed" /\ ~exists
    /\ Load(Bad)
    /\ UNCHANGED <<editVars, linked, loadVars>>

ReadAndParse ==
    /\ loader = "load"
    /\ F!Next
    /\ UNCHANGED <<reloadVars, editVars, linked>>

(* The load answers, and its locals are gone.                              *)
Answer ==
    /\ reading \in {"done", "failed"}
    /\ Load(IF reading = "done" THEN userinfo ELSE Bad)
    /\ file' = <<>> /\ ended' = TRUE /\ reading' = "closed" /\ linked' = FALSE
    /\ buf' = [n \in 1 .. BufSize |-> Newline] /\ r' = 0 /\ w' = 0 /\ pos' = 0
    /\ eof' = FALSE /\ lines' = <<>> /\ parsed' = 0
    /\ userinfo' = [u \in Accounts |-> Nobody]
    /\ UNCHANGED editVars

Loader ==
    \/ (Adopt \/ Check \/ LoadFinish) /\ UNCHANGED <<editVars, linked, loadVars>>
    \/ Open \/ OpenFails \/ ReadAndParse \/ Answer

NewUserHolder == Caller /\ UNCHANGED <<editVars, linked, loadVars>>

HolderNext == Edit \/ Remove \/ NewUserHolder \/ Loader

HolderSpec == HolderInit /\ [][HolderNext]_holderVars

(* Both goroutines run, and the sleep of five seconds ends.                *)
HolderFairSpec == HolderSpec /\ WF_holderVars(Loader) /\ WF_holderVars(NewUserHolder)

-----------------------------------------------------------------------------
(* A file the buffer holds, with a newline at its end and a user on each   *)
(* line: the files that load.                                              *)
Loadable ==
    /\ exists /\ disk.ended /\ F!Fine(disk.lines)
    /\ Len(F!BytesOf(disk.lines, disk.ended)) <= BufSize

(* Between two turns of the loader the table in use is the one the file    *)
(* states, if the file has no later time than the one noted: neither an    *)
(* edit that falls between the check and the load, nor a mixture of two    *)
(* contents that an edit in the middle of the read leaves, is taken for    *)
(* the content that was checked.  The exception is an edit that did not    *)
(* move the file's time.                                                   *)
InUseIsCurrent ==
    loader \in {"adopt", "check"} /\ Loadable /\ ~silent /\ mtime <= cmParam
        => active = F!Stated(disk.lines)

(* A file that is left alone, loads, and did move its time is in use in    *)
(* the end, however many edits, removals, failed loads and torn reads came *)
(* before.                                                                 *)
EditsTakeEffect ==
    <>(caller = "running") /\ <>[](Loadable /\ ~silent)
        => <>[](active = F!Stated(disk.lines))

(* A caller waits for ever only for a file that is gone.                   *)
CallerReturns == <>[](caller = "wait") => <>[](~exists)
=============================================================================
