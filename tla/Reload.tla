-------------------------------- MODULE Reload --------------------------------
(***************************************************************************)
(* reload/reloader.go as NewUserHolder and NewRule use it: the caller      *)
(* registers one file with a loader of its own and waits for its first     *)
(* load; the loader's goroutine then looks at the file's modification time *)
(* for ever and loads the file when that is later than the one it noted.   *)
(*                                                                         *)
(* The module knows whether the file exists, and its time.  What is in it, *)
(* who edits it and how it loads is up to the module that extends this one.*)
(***************************************************************************)
EXTENDS Integers

CONSTANTS
    Bad,         \* the answer of a load that failed
    Nothing,     \* nothing loaded
    MaxTime      \* bound on the modification times of the file

ASSUME TimeAssumption == MaxTime \in Nat
ASSUME NothingAssumption == Bad # Nothing

VARIABLES
    exists,      \* the file exists
    mtime,       \* its modification time
    caller,      \* where NewUserHolder or NewRule is
    peeding,     \* AddLoad's item waits to be taken into the store
    loader,      \* where the loader's goroutine is
    cmParam,     \* the modification time it noted
    param,       \* what the check before the load answered
    data,        \* what the load answered
    wg,          \* the load the caller waits for is not done
    active       \* what is in use

statVars == <<exists, mtime>>
loaderVars == <<caller, peeding, loader, cmParam, param, data, wg, active>>
reloadVars == <<statVars, loaderVars>>

Time == 0 .. MaxTime

ReloadTypeOK ==
    /\ exists \in BOOLEAN /\ mtime \in Time
    /\ peeding \in BOOLEAN /\ wg \in BOOLEAN
    /\ caller \in {"stat", "add", "start", "wait", "running", "failed"}
    /\ loader \in {"off", "adopt", "check", "load", "finish", "stopped"}
    /\ cmParam \in Time /\ param \in Time

ReloadInit ==
    /\ exists = FALSE /\ mtime = 0
    /\ caller = "stat" /\ peeding = FALSE /\ loader = "off"
    /\ cmParam = 0 /\ param = 0 /\ data = Nothing /\ wg = FALSE /\ active = Nothing

-----------------------------------------------------------------------------
(* NewUserHolder, NewRule                                                  *)

Stat ==
    /\ caller = "stat"
    /\ caller' = IF exists THEN "add" ELSE "failed"
    /\ UNCHANGED <<statVars, peeding, loader, cmParam, param, data, wg, active>>

AddLoad ==
    /\ caller = "add" /\ caller' = "start"
    /\ peeding' = TRUE /\ wg' = TRUE
    /\ UNCHANGED <<statVars, loader, cmParam, param, data, active>>

Start ==
    /\ caller = "start" /\ caller' = "wait"
    /\ loader' = "adopt"
    /\ UNCHANGED <<statVars, peeding, cmParam, param, data, wg, active>>

Wait ==
    /\ caller = "wait" /\ ~wg
    /\ caller' = "running"
    /\ UNCHANGED <<statVars, peeding, loader, cmParam, param, data, wg, active>>

Caller == Stat \/ AddLoad \/ Start \/ Wait

-----------------------------------------------------------------------------
(* The goroutine of AutoReload.Start                                       *)

Adopt ==
    /\ loader = "adopt" /\ loader' = "check"
    /\ peeding' = FALSE
    /\ UNCHANGED <<statVars, caller, cmParam, param, data, wg, active>>

(* DefaultFileCheckModFunc; then the sleep, if there is nothing to load.   *)
Check ==
    /\ loader = "check"
    /\ IF exists /\ mtime > cmParam
       THEN param' = mtime /\ loader' = "load"
       ELSE loader' = "adopt" /\ UNCHANGED param
    /\ UNCHANGED <<statVars, caller, peeding, cmParam, data, wg, active>>

(* DataLoadFunc answers.                                                   *)
Load(result) ==
    /\ loader = "load" /\ loader' = "finish"
    /\ data' = result
    /\ UNCHANGED <<statVars, caller, peeding, cmParam, param, wg, active>>

(* Bug: the time noted is the one the file has after the load.             *)
BugFinishStat ==
    /\ loader = "finish" /\ loader' = "adopt"
    /\ IF data # Bad THEN active' = data /\ cmParam' = mtime
                     ELSE UNCHANGED <<active, cmParam>>
    /\ wg' = FALSE
    /\ UNCHANGED <<statVars, caller, peeding, param, data>>

(* Bug: the caller is told of a load that succeeded only.                  *)
BugFinishWait ==
    /\ loader = "finish" /\ loader' = "adopt"
    /\ IF data # Bad THEN active' = data /\ cmParam' = param /\ wg' = FALSE
                     ELSE UNCHANGED <<active, cmParam, wg>>
    /\ UNCHANGED <<statVars, caller, peeding, param, data>>

(* Bug: an error ends the loop.                                            *)
BugFinishStop ==
    /\ loader = "finish"
    /\ IF data # Bad THEN active' = data /\ cmParam' = param /\ loader' = "adopt"
                     ELSE loader' = "stopped" /\ UNCHANGED <<active, cmParam>>
    /\ wg' = FALSE
    /\ UNCHANGED <<statVars, caller, peeding, param, data>>

(* LoadFinishFunc puts what loaded in use; an error leaves both what is in *)
(* use and the time noted.                                                 *)
LoadFinish ==
    /\ loader = "finish" /\ loader' = "adopt"
    /\ IF data # Bad THEN active' = data /\ cmParam' = param
                     ELSE UNCHANGED <<active, cmParam>>
    /\ wg' = FALSE
    /\ UNCHANGED <<statVars, caller, peeding, param, data>>
=============================================================================
