------------------------------- MODULE AuthStore -------------------------------
(***************************************************************************)
(* The file-system auth state: useMultiFileAuthState() and BufferJSON of   *)
(* src/src/auth/index.ts.                                                  *)
(*                                                                         *)
(* Every file has a mutex (async-mutex: first come, first served), here    *)
(* the queue of the requests on the file.  writeFile() first truncates the *)
(* file and then fills it; it may fail before the one or before the other, *)
(* or the process may crash in between; readFile() fails only where there  *)
(* is no file.  A file is named by its path, which is also what its lock   *)
(* is named by.                                                            *)
(*                                                                         *)
(* An operator whose name ends in Mistake is a variant of the definition   *)
(* after it with a planted error; no specification uses it.                *)
(***************************************************************************)
EXTENDS Integers, Sequences, FiniteSets

CONSTANTS
    Files,        \* the files of keys
    Values,       \* what is stored in them: records [kind, data]
    MaxCalls,     \* bound: calls of get(), set() and saveCreds()
    MaxChanges,   \* bound: changes of the credentials
    MaxCrashes, MaxFailures   \* bounds: crashes, writes that fail

credsFile == "creds.json"
AllFiles  == Files \cup {credsFile}

\* The values that keys have: a Buffer (which is what the crypto module makes), a
\* Uint8Array, or other data, such as a sender-key-memory.
Kinds == {"Buffer", "Uint8Array", "data"}

ASSUME FilesAssumption == credsFile \notin Files
ASSUME ValuesAssumption == \A v \in Values : v.kind \in Kinds
ASSUME BoundsAssumption == {MaxCalls, MaxChanges, MaxCrashes, MaxFailures} \subseteq Nat

\* The calls, numbered in the order in which they are made.
Calls == 1 .. MaxCalls

Absent == [kind |-> "absent"]   \* no file; null in memory
Torn   == [kind |-> "torn"]     \* a file that has been truncated and not filled
Unread == [kind |-> "unread"]   \* the result of a get() that is not over

VARIABLES
    disk,      \* the contents of the files
    locks,     \* per file, the requests waiting for its mutex, the holder first
    status,    \* per call: "idle", "running", "done" or "failed"
    results,   \* per call, what a get() has read
    creds,     \* the credentials in memory: an identity, and changes to it
    register,  \* history: per file, the value last written as a whole, or Absent
    asked,     \* history: per key file, what the last set() wants it to be
    savedAt,   \* history: per saveCreds() call, the credentials it was called with
    identities, crashes, failures

memory == <<locks, status, results, asked, savedAt>>
counts == <<identities, crashes, failures>>
vars   == <<disk, memory, creds, register, counts>>

-----------------------------------------------------------------------------
(* BufferJSON.                                                              *)

\* JSON.stringify() calls a Buffer's own toJSON() before it calls the replacer,
\* which thus sees an object with an array of numbers; a Uint8Array has no toJSON()
\* and becomes base64.
Stringify(v) ==
    CASE v.kind = "Buffer"     -> [v EXCEPT !.kind = "json: array"]
      [] v.kind = "Uint8Array" -> [v EXCEPT !.kind = "json: base64"]
      [] OTHER                 -> v

\* A file that is not JSON is an error.
ParseMistake(v) ==
    CASE v.kind = "json: base64" -> [v EXCEPT !.kind = "Buffer"]
      [] v.kind = "json: array"  -> [v EXCEPT !.kind = "object"]
      [] OTHER                   -> v

\* readJSON(): what is not JSON is null.  The reviver makes a Buffer of base64 and leaves the array alone.
Parse(v) ==
    CASE v.kind = "json: base64" -> [v EXCEPT !.kind = "Buffer"]
      [] v.kind = "json: array"  -> [v EXCEPT !.kind = "object"]
      [] v.kind = "torn"         -> Absent
      [] OTHER                   -> v

FreshCreds(n) == [kind |-> "data", identity |-> n, changes |-> 0]

Init ==
    /\ disk = [f \in AllFiles |-> Absent]
    /\ locks = [f \in AllFiles |-> << >>]
    /\ status = [c \in Calls |-> "idle"]
    /\ results = [c \in Calls |-> Unread]
    /\ creds = FreshCreds(1)
    /\ register = [f \in AllFiles |-> Absent]
    /\ asked = [f \in Files |-> Absent]
    /\ savedAt = [c \in Calls |-> 0]
    /\ identities = 1
    /\ crashes = 0
    /\ failures = 0

-----------------------------------------------------------------------------
Waits(f, c, op, value) ==
    [call |-> c, op |-> op, value |-> value, begun |-> FALSE]

IsNext(c) == status[c] = "idle" /\ \A d \in 1 .. c - 1 : status[d] # "idle"

\* A call asks for the mutex of every file it is about.
Ask(c, S, op, data) ==
    /\ IsNext(c)
    /\ status' = [status EXCEPT ![c] = "running"]
    /\ locks' = [f \in AllFiles |->
                    IF f \in S THEN Append(locks[f], Waits(f, c, op[f], data[f])) ELSE locks[f]]

\* keys.set(): a null deletes the file.
SetKeys(c, data) ==
    /\ Ask(c, DOMAIN data,
           [f \in DOMAIN data |-> IF data[f] = Absent THEN "delete" ELSE "write"], data)
    /\ asked' = [f \in Files |-> IF f \in DOMAIN data THEN Stringify(data[f]) ELSE asked[f]]
    /\ UNCHANGED <<disk, results, savedAt, creds, register, counts>>

\* keys.get(), of one id.
GetKey(c, f) ==
    /\ Ask(c, {f}, [g \in {f} |-> "read"], [g \in {f} |-> Absent])
    /\ UNCHANGED <<disk, results, asked, savedAt, creds, register, counts>>

\* A save that is running will do.
SaveCredsMistake(c) ==
    /\ IsNext(c)
    /\ IF locks[credsFile] = << >>
       THEN Ask(c, {credsFile}, [f \in {credsFile} |-> "write"], [f \in {credsFile} |-> Absent])
       ELSE status' = [status EXCEPT ![c] = "done"] /\ UNCHANGED locks
    /\ savedAt' = [savedAt EXCEPT ![c] = creds.changes]
    /\ UNCHANGED <<disk, results, asked, creds, register, counts>>

\* saveCreds() gives writeJSON() the credentials themselves, not a copy.
SaveCreds(c) ==
    /\ Ask(c, {credsFile}, [f \in {credsFile} |-> "write"], [f \in {credsFile} |-> Absent])
    /\ savedAt' = [savedAt EXCEPT ![c] = creds.changes]
    /\ UNCHANGED <<disk, results, asked, creds, register, counts>>

\* The engine or the application changes the credentials.
ChangeCreds ==
    /\ creds.changes < MaxChanges
    /\ creds' = [creds EXCEPT !.changes = @ + 1]
    /\ UNCHANGED <<disk, memory, register, counts>>

-----------------------------------------------------------------------------
(* A request on file f.                                                     *)

\* Any request may begin: no mutex.
MayBeginMistake(f) == {n \in DOMAIN locks[f] : ~locks[f][n].begun}

\* runExclusive(): the first request, when the one before it is over.
MayBegin(f) == {n \in DOMAIN locks[f] : n = 1 /\ ~locks[f][n].begun}

\* The text to write is made when the mutex is held.
ToWrite(f, r) == Stringify(IF f = credsFile THEN creds ELSE r.value)

Begin(f) ==
    \E n \in MayBegin(f) :
        LET r == locks[f][n]
        IN  /\ locks' = [locks EXCEPT ![f][n] = [r EXCEPT !.begun = TRUE,
                            !.value = IF r.op = "write" THEN ToWrite(f, r) ELSE r.value]]
            /\ disk' = IF r.op = "write" THEN [disk EXCEPT ![f] = Torn] ELSE disk
            /\ UNCHANGED <<status, results, asked, savedAt, creds, register, counts>>

Without(q, n) == SubSeq(q, 1, n - 1) \o SubSeq(q, n + 1, Len(q))

\* The mutex is not released.
FinishMistake(f, n) == UNCHANGED <<locks, status>>

\* Promise.all: a call is over with its last request, or with one that fails.
Finish(f, n) ==
    /\ locks' = [locks EXCEPT ![f] = Without(@, n)]
    /\ LET c == locks[f][n].call
           more == \E g \in AllFiles : \E m \in DOMAIN locks'[g] : locks'[g][m].call = c
       IN  status' = IF ~more /\ status[c] = "running"
                     THEN [status EXCEPT ![c] = "done"] ELSE status

\* The end of readFile(), writeFile() or unlink(), and of the lock.
End(f) ==
    \E n \in DOMAIN locks[f] :
        LET r == locks[f][n]
            new == CASE r.op = "write"  -> r.value
                     [] r.op = "delete" -> Absent
                     [] r.op = "read"   -> disk[f]
        IN  /\ r.begun
            /\ disk' = [disk EXCEPT ![f] = new]
            /\ register' = IF r.op = "read" THEN register ELSE [register EXCEPT ![f] = new]
            /\ results' = IF r.op = "read" THEN [results EXCEPT ![r.call] = Parse(disk[f])]
                          ELSE results
            /\ Finish(f, n)
            /\ UNCHANGED <<asked, savedAt, creds, counts>>

\* writeFile() fails after it has truncated the file; the mutex is released.
WriteFails(f) ==
    /\ failures < MaxFailures
    /\ failures' = failures + 1
    /\ \E n \in DOMAIN locks[f] :
          /\ locks[f][n].begun /\ locks[f][n].op = "write"
          /\ locks' = [locks EXCEPT ![f] = Without(@, n)]
          /\ status' = [status EXCEPT ![locks[f][n].call] = "failed"]
          /\ asked' = IF f \in Files /\ \A m \in DOMAIN locks'[f] : locks'[f][m].op = "read"
                      THEN [asked EXCEPT ![f] = Torn] ELSE asked
    /\ register' = [register EXCEPT ![f] = Torn]
    /\ UNCHANGED <<disk, results, savedAt, creds, identities, crashes>>

\* writeFile() cannot open the file, which keeps what it has; the mutex is released.
OpenFails(f) ==
    /\ failures < MaxFailures
    /\ failures' = failures + 1
    /\ \E n \in MayBegin(f) :
          /\ locks[f][n].op = "write"
          /\ locks' = [locks EXCEPT ![f] = Without(@, n)]
          /\ status' = [status EXCEPT ![locks[f][n].call] = "failed"]
          /\ asked' = IF f \in Files /\ \A m \in DOMAIN locks'[f] : locks'[f][m].op = "read"
                      THEN [asked EXCEPT ![f] = disk[f]] ELSE asked
    /\ UNCHANGED <<disk, register, results, savedAt, creds, identities, crashes>>

\* The process ends and starts again: credentials that cannot be read are made anew.
CrashAndRestart ==
    /\ crashes < MaxCrashes
    /\ crashes' = crashes + 1
    /\ locks' = [f \in AllFiles |-> << >>]
    /\ status' = [c \in Calls |-> IF status[c] = "running" THEN "failed" ELSE status[c]]
    /\ LET loaded == Parse(disk[credsFile])
       IN  IF loaded = Absent
           THEN creds' = FreshCreds(identities + 1) /\ identities' = identities + 1
           ELSE creds' = loaded /\ UNCHANGED identities
    /\ register' = [f \in AllFiles |-> IF disk[f] = Torn THEN Torn ELSE register[f]]
    /\ asked' = [f \in Files |-> disk[f]]
    /\ UNCHANGED <<disk, results, savedAt, failures>>

Next ==
    \/ \E c \in Calls :
          \/ \E S \in (SUBSET Files) \ {{}} :
                \E data \in [S -> Values \cup {Absent}] : SetKeys(c, data)
          \/ \E f \in Files : GetKey(c, f)
          \/ SaveCreds(c)
    \/ \E f \in AllFiles : Begin(f) \/ End(f) \/ WriteFails(f) \/ OpenFails(f)
    \/ ChangeCreds \/ CrashAndRestart

Spec == Init /\ [][Next]_vars

\* Node.js serves the file system's requests.
FairSpec == Spec /\ \A f \in AllFiles : WF_vars(Begin(f)) /\ WF_vars(End(f))

-----------------------------------------------------------------------------
ReadBack == {Absent, Unread} \cup {Parse(Stringify(v)) : v \in Values}

TypeOK ==
    /\ \A f \in AllFiles :
          /\ disk[f].kind \in {"absent", "torn", "data", "json: array", "json: base64"}
          /\ \A n \in DOMAIN locks[f] : locks[f][n].call \in Calls
    /\ status \in [Calls -> {"idle", "running", "done", "failed"}]
    /\ results \in [Calls -> ReadBack]
    /\ asked \in [Files -> {Absent, Torn} \cup {Stringify(v) : v \in Values}]
    /\ creds.kind = "data"
    /\ creds.identity \in 1 .. identities /\ creds.changes \in 0 .. MaxChanges

\* auth/index.ts:157-158: "Each file is locked during read/write to prevent
\* corruption under concurrent access": a get() finds the value that was last
\* written as a whole, never a file that is being written.
NoTornRead ==
    [][\A f \in Files : \A n \in DOMAIN locks[f] :
          LET c == locks[f][n].call
          IN  results'[c] # results[c] => results'[c] = Parse(register[f])]_results

\* Sets of one key take effect in the order of the calls: a file that nobody waits
\* for is as the last call wanted it, unless its write failed.
LastCallWins == \A f \in Files : locks[f] = << >> => disk[f] = asked[f]

\* A saveCreds() that has resolved has written the credentials it was called with,
\* or later ones, however saves and changes overlap.
SavedIsDurable ==
    \A c \in Calls :
        status[c] = "done" /\ register[credsFile].kind = "data" /\ identities = 1
        => register[credsFile].changes >= savedAt[c]

\* Every call resolves or is rejected.
CallsEnd == \A c \in Calls : status[c] = "running" ~> status[c] \in {"done", "failed"}

\* auth/index.ts:45: new credentials are made "once during initial device
\* registration/QR scan": a client that has saved its credentials keeps them.
IdentityIsPermanent == (\E c \in Calls : savedAt[c] > 0 /\ status[c] = "done") => identities = 1

\* auth/index.ts:119-120: BufferJSON "handles Buffer/Uint8Array serialization": the
\* bytes that were stored are read as bytes.
BytesAreBytes == \A c \in Calls : results[c].kind # "object"

===============================================================================
