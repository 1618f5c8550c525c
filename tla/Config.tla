------------------------------ MODULE Config ------------------------------
(***************************************************************************)
(* The config package (src/unnamed/part_000): Config holds the app config *)
(* and the accounts config in memory and in one JSON file each.  Setters  *)
(* hold the write lock, assign the memory copy and save the file with      *)
(* ioutil.WriteFile, which truncates the file before writing it.  The     *)
(* process may shut down when idle, may crash at any point (up to a bound) *)
(* and is restarted by NewConfig, which loads both files.                  *)
(*                                                                         *)
(* A config value is a model value; JSON encoding is left out, except that *)
(* a truncated file does not parse.  The getters only read under RLock and *)
(* change nothing.                                                         *)
(***************************************************************************)
EXTENDS Naturals

CONSTANTS
    Threads,       \* goroutines calling the setters
    Values,        \* config values a caller may set
    Default,       \* NewDefaultAppConfig() / newDefaultAccountsonfig()
    Missing,       \* no file at the path
    Truncated,     \* a file WriteFile truncated and has not finished writing
    InitFiles,     \* the file contents the app may find when first started
    MaxCrashes,    \* bound on crashes in one behaviour
    MaxRestarts,   \* bound on restarts (after a shutdown or a crash)
    WriteErrors,   \* whether WriteFile may fail
    NoThread

Kinds == {"app", "accounts"}

VARIABLES
    up,        \* whether the process is running
    mem,       \* config.appConfig / config.accountsConfig
    file,      \* the content of each file
    lock,      \* the holder of config.lock (write side) or NoThread
    th,        \* each caller: idle, or saving which kind with which value
    saved,     \* history: the value each kind's last successful save wrote
    crashes,   \* crashes so far
    restarts,  \* restarts so far
    ret        \* history: what the last setter of each kind returned since
               \* the process started: "none", "ok" (nil) or "error"

vars == <<up, mem, file, lock, th, saved, crashes, restarts, ret>>

Idle == [pc |-> "idle", kind |-> "app", val |-> Default]

\* What json.Unmarshal makes of a file: the value, or nothing.
Parses(f) == f \in Values \cup {Default}

-----------------------------------------------------------------------------
\* load (part_000:265-280) after the defaults of NewConfig: the app file
\* first; if it cannot be read or parsed, load returns and the accounts
\* file is never read.
Load(f) ==
    IF ~Parses(f["app"]) THEN [k \in Kinds |-> Default]
    ELSE [app |-> f["app"],
          accounts |-> IF Parses(f["accounts"]) THEN f["accounts"] ELSE Default]

\* NewConfig (part_000:253-263).
Restart ==
    /\ ~up
    /\ restarts < MaxRestarts
    /\ up' = TRUE
    /\ mem' = Load(file)
    /\ restarts' = restarts + 1
    /\ ret' = [k \in Kinds |-> "none"]
    /\ UNCHANGED <<file, lock, th, saved, crashes>>

\* Mutant: the setter assigns without taking the lock.
SetIgnoringLock(t, k, v) ==
    /\ up
    /\ th[t].pc = "idle"
    /\ lock' = t
    /\ mem' = [mem EXCEPT ![k] = v]
    /\ th' = [th EXCEPT ![t] = [pc |-> "save", kind |-> k, val |-> v]]
    /\ UNCHANGED <<up, file, saved, crashes, restarts, ret>>

\* SetAppConfig / SetAccountsConfig (part_000:289-306): take the write
\* lock and assign the memory copy; save follows.
Set(t, k, v) ==
    /\ up
    /\ th[t].pc = "idle"
    /\ lock = NoThread
    /\ lock' = t
    /\ mem' = [mem EXCEPT ![k] = v]
    /\ th' = [th EXCEPT ![t] = [pc |-> "save", kind |-> k, val |-> v]]
    /\ UNCHANGED <<up, file, saved, crashes, restarts, ret>>

\* Mutant: save writes to the app config file whatever it saves.
OpenAppFile(t) ==
    /\ th[t].pc = "save"
    /\ file' = [file EXCEPT !["app"] = Truncated]
    /\ th' = [th EXCEPT ![t].pc = "write"]
    /\ UNCHANGED <<up, mem, lock, saved, crashes, restarts, ret>>

\* save's WriteFile opens the file with O_TRUNC (part_000:308-313).
Open(t) ==
    /\ th[t].pc = "save"
    /\ file' = [file EXCEPT ![th[t].kind] = Truncated]
    /\ th' = [th EXCEPT ![t].pc = "write"]
    /\ UNCHANGED <<up, mem, lock, saved, crashes, restarts, ret>>

\* ... then writes the JSON and the setter returns, releasing the lock.
Write(t) ==
    /\ th[t].pc = "write"
    /\ file' = [file EXCEPT ![th[t].kind] = th[t].val]
    /\ saved' = [saved EXCEPT ![th[t].kind] = th[t].val]
    /\ lock' = NoThread
    /\ th' = [th EXCEPT ![t] = Idle]
    /\ ret' = [ret EXCEPT ![th[t].kind] = "ok"]
    /\ UNCHANGED <<up, mem, crashes, restarts>>

\* Mutant: the error returned without the deferred unlock.
WriteFailsKeepsLock(t) ==
    /\ WriteErrors
    /\ th[t].pc \in {"save", "write"}
    /\ \/ th[t].pc = "save" /\ UNCHANGED file
       \/ th[t].pc = "write" /\ UNCHANGED file
       \/ th[t].pc = "write" /\ file' = [file EXCEPT ![th[t].kind] = th[t].val]
    /\ th' = [th EXCEPT ![t] = Idle]
    /\ ret' = [ret EXCEPT ![th[t].kind] = "error"]
    /\ UNCHANGED <<up, mem, lock, saved, crashes, restarts>>

\* Mutant: save drops WriteFile's error and the setter returns nil.
WriteFailsSwallowed(t) ==
    /\ WriteErrors
    /\ th[t].pc \in {"save", "write"}
    /\ \/ th[t].pc = "save" /\ UNCHANGED file
       \/ th[t].pc = "write" /\ UNCHANGED file
       \/ th[t].pc = "write" /\ file' = [file EXCEPT ![th[t].kind] = th[t].val]
    /\ lock' = NoThread
    /\ th' = [th EXCEPT ![t] = Idle]
    /\ ret' = [ret EXCEPT ![th[t].kind] = "ok"]
    /\ UNCHANGED <<up, mem, saved, crashes, restarts>>

\* WriteFile returns an error and so does the setter, releasing the lock;
\* mem keeps the new value.  The file is untouched if the open failed, left
\* truncated or partly written if the write failed, and complete if only
\* the close failed.
WriteFails(t) ==
    /\ WriteErrors
    /\ th[t].pc \in {"save", "write"}
    /\ \/ th[t].pc = "save" /\ UNCHANGED file
       \/ th[t].pc = "write" /\ UNCHANGED file
       \/ th[t].pc = "write" /\ file' = [file EXCEPT ![th[t].kind] = th[t].val]
    /\ lock' = NoThread
    /\ th' = [th EXCEPT ![t] = Idle]
    /\ ret' = [ret EXCEPT ![th[t].kind] = "error"]
    /\ UNCHANGED <<up, mem, saved, crashes, restarts>>

\* The app quits while no setter runs.
Shutdown ==
    /\ up
    /\ \A t \in Threads : th[t].pc = "idle"
    /\ up' = FALSE
    /\ UNCHANGED <<mem, file, lock, th, saved, crashes, restarts, ret>>

\* The process dies; only the files survive.
Crash ==
    /\ up
    /\ crashes < MaxCrashes
    /\ up' = FALSE
    /\ lock' = NoThread
    /\ th' = [t \in Threads |-> Idle]
    /\ crashes' = crashes + 1
    /\ UNCHANGED <<mem, file, saved, restarts, ret>>

-----------------------------------------------------------------------------
Init ==
    /\ file \in [Kinds -> InitFiles]
    /\ up = FALSE
    /\ mem = [k \in Kinds |-> Default]
    /\ lock = NoThread
    /\ th = [t \in Threads |-> Idle]
    /\ saved = [k \in Kinds |-> IF Parses(file[k]) THEN file[k] ELSE Default]
    /\ crashes = 0
    /\ restarts = 0
    /\ ret = [k \in Kinds |-> "none"]

Next ==
    \/ \E t \in Threads :
         \/ \E k \in Kinds, v \in Values : Set(t, k, v)
         \/ Open(t) \/ Write(t) \/ WriteFails(t)
    \/ Shutdown \/ Crash \/ Restart

Spec == Init /\ [][Next]_vars

-----------------------------------------------------------------------------
TypeOK ==
    /\ mem \in [Kinds -> Values \cup {Default}]
    /\ file \in [Kinds -> Values \cup {Default, Missing, Truncated}]
    /\ \A t \in Threads : th[t].pc # "idle" => lock = t
    /\ lock # NoThread => th[lock].pc # "idle"
    /\ ret \in [Kinds -> {"none", "ok", "error"}]

(* While the app is up and no setter of it is running, each config whose *)
(* last setter returned nil is on disk exactly as in memory.  Two setters  *)
(* of one kind that assigned the memory copy and wrote the file in         *)
(* different orders would break it (SetAppConfig/SetAccountsConfig hold    *)
(* the write lock across both, part_000:289-306), and so would a save that *)
(* failed (part_000:308-314) yet returned nil.  After a failed save the    *)
(* memory copy may be ahead of the disk, and the setter said so.           *)
SavedMatchesMemory ==
    \A k \in Kinds :
        (up /\ ret[k] = "ok" /\ \A t \in Threads : th[t].pc = "idle" \/ th[t].kind # k)
            => file[k] = mem[k]

(* Whatever a setter saved successfully is what NewConfig loads after the  *)
(* next restart, for both configs: the last SetAppConfig and the last      *)
(* SetAccountsConfig that returned nil survive a shutdown or a crash, and  *)
(* the first start loads what the files held.                             *)
PersistedAcrossRestart ==
    [][~up /\ up' => mem' = saved]_vars

=============================================================================
